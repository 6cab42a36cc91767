--------------------------- MODULE ComparisonTools ---------------------------
(***************************************************************************)
(* One behaviour of one comparison tool: a mailbox with its coordinators   *)
(* (RunnerMailbox), or a local quorum or a reproduction                    *)
(* (RepeatedExecution).  They share the operators of RunComparison and no  *)
(* state.                                                                  *)
(***************************************************************************)
EXTENDS RunnerMailbox, RepeatedExecution

ToolsInit ==
    /\ Init
    /\ \/ ExecInit
       \/ /\ tool = "mailbox" /\ argument = Nothing /\ source = 0
          /\ precheck = Nothing /\ job = <<>> /\ verdict = Nothing

ToolsNext ==
    \/ tool = "mailbox" /\ Next /\ UNCHANGED execVars
    \/ tool # "mailbox" /\ ExecNext /\ UNCHANGED vars

ToolsSpec == ToolsInit /\ [][ToolsNext]_<<vars, execVars>>

==============================================================================
