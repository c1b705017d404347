------------------------------- MODULE Library -------------------------------
(***************************************************************************)
(* What an install promises a user (installer.h, ARCHITECTURE.md): the     *)
(* library of a console is, for each application, the content metas its    *)
(* record lists.  An install publishes one content meta in one step, in    *)
(* place of an older version of the same meta and beside all others, or    *)
(* leaves the library as it was.  Only a power loss may do worse, and then *)
(* to one application.                                                     *)
(***************************************************************************)
EXTENDS Naturals

CONSTANTS Apps, MetaTypes, Versions
VARIABLES library, losses

Titles == [app : Apps, type : MetaTypes, version : Versions]

Init == library = [a \in Apps |-> {}] /\ losses = 0

\* What publishing t makes of its application's record.
Merged(t) == {s \in library[t.app] : s.type # t.type} \cup {t}

Publish(t) ==
  /\ library' = [library EXCEPT ![t.app] = Merged(t)]
  /\ UNCHANGED losses

PowerLoss ==
  /\ losses' = losses + 1
  /\ \/ UNCHANGED library
     \/ \E a \in Apps : library' = [library EXCEPT ![a] = {}]

Next == (\E t \in Titles : Publish(t)) \/ PowerLoss

Spec == Init /\ [][Next]_<<library, losses>>
=============================================================================
