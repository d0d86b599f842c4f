--------------------------- MODULE MCPersistence ---------------------------
(***************************************************************************)
(* Persistence for TLC: a build, one that follows it with another seed, a  *)
(* new kind of entry, wider residents and a longer queue, and a backend    *)
(* that has nobody left at its second revision.                            *)
(***************************************************************************)
EXTENDS Persistence, TLC

Narrow == [s \in Store |-> 2]

First == [version |-> 1, size |-> Narrow, capacity |-> [s \in Store |-> IF s = "queue" THEN 1 ELSE 2],
          seed |-> 1, kinds |-> {"purchase", "create"}]
Second == [version |-> 1, size |-> [Narrow EXCEPT !["residents"] = 3], capacity |-> Narrow,
           seed |-> 2, kinds |-> {"purchase", "create", "price"}]

Builds == {First, Second}
OneBuild == {First}
Kinds == {"purchase", "create", "price"}

Delivered(people, drinks) ==
    [s \in Store \ {"queue"} |->
        CASE s = "catalog" -> <<[from |-> 0, edited |-> FALSE]>>
          [] s = "residents" -> people
          [] s = "summary" -> drinks]

Person(name) == [id |-> name]
Items == {Person("default"), Person("anna"), Person("ben")}
Names == <<Person("default")>>
Opening == 1 :> Delivered(<<Person("anna"), Person("ben")>>, <<>>)
OneRevision == Opening
TwoRevisions == Opening @@ (2 :> Delivered(<<>>, <<Person("ben")>>))

=============================================================================
