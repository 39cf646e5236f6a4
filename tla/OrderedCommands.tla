--------------------------- MODULE OrderedCommands ---------------------------
(***************************************************************************)
(* What a command queue promises its device: commands run in the order     *)
(* they were given, one at a time.                                         *)
(***************************************************************************)
EXTENDS Sequences

CONSTANT Jobs

VARIABLES
    queue,      \* the commands not yet begun, in order
    active      \* the command that has begun and not ended, if any

Init ==
    /\ queue = <<>>
    /\ active = {}

Submit(j) ==
    /\ queue' = Append(queue, j)
    /\ UNCHANGED active

Begin ==
    /\ active = {}
    /\ queue # <<>>
    /\ active' = {Head(queue)}
    /\ queue' = Tail(queue)

End ==
    /\ active # {}
    /\ active' = {}
    /\ UNCHANGED queue

Next == (\E j \in Jobs : Submit(j)) \/ Begin \/ End

Spec == Init /\ [][Next]_<<queue, active>>
=============================================================================
