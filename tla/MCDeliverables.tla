---------------------------- MODULE MCDeliverables ----------------------------
(* One deliverable over two artifacts, three requests at once.                  *)
EXTENDS Deliverables
CONSTANTS a1, a2, q1, q2, q3

Handlers == {q1, q2, q3}
Symmetric == Permutations(Handlers)
MCSize == [a \in Artifacts |-> 1]
MCKindOf == [a \in Artifacts |-> IF a = a1 THEN "screenshot" ELSE "file"]
MCNewerThan == [a \in Artifacts |-> [b \in Artifacts |-> a = a2 /\ b = a1]]

Bundle(visibility, items) ==
    [visibility |-> visibility, source |-> "bundle", artifact |-> None,
     link |-> FALSE, items |-> items]
Nothing == [visibility |-> None, source |-> None, artifact |-> None,
            link |-> FALSE, items |-> None]
OwnerBodies ==
    {Bundle("owner_only", <<a1>>), Bundle("public_material", <<a2>>),
     Bundle("public_material", <<a1, a2>>),
     [Nothing EXCEPT !.source = "external_link", !.link = TRUE]}
===============================================================================
