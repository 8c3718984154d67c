---------------------------- MODULE MCFileStore ----------------------------
(* One workspace with two tasks, so that a file can move from one to the    *)
(* other before either goes.                                               *)
EXTENDS FileStore

OneKind == [t \in Targets |-> "task"]
AllTargets == [w \in Workspaces |-> Targets]

=============================================================================
