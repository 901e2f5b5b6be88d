----------------------------- MODULE MCPlanning -----------------------------
(* Instances of Planning for TLC. *)
EXTENDS Planning

PackRoles == {"Analyst", "Builder", "Checker"}

NodeIds == SystemIds \union (PackRoles \X (0 .. 3)) \union ({"document"} \X (1 .. 4))

Deps(f) == [r \in Names |-> IF r \in DOMAIN f THEN f[r] ELSE {}]
On(r, s) == [x \in {r} |-> {s}]

\* The first two and the fifth and sixth are of one route family each.
\* A direct run, a pipeline, an action workflow with verification, roles in a
\* circle, a role that waits for an inactive one, the orchestrator as a role,
\* a mode that does not exist.
PackBindings ==
  <<[roles |-> {"Builder"}, mode |-> "direct_run", analysis |-> TRUE, family |-> 1, deps |-> Deps(<<>>)],
    [roles |-> {"Builder", "Checker"}, mode |-> "task_graph", analysis |-> TRUE, family |-> 1,
     deps |-> Deps(On("Checker", "Builder"))],
    [roles |-> PackRoles, mode |-> "task_graph", analysis |-> FALSE, family |-> 2,
     deps |-> Deps([r \in {"Builder", "Checker"} |->
                      IF r = "Checker" THEN {"Analyst", "Builder"} ELSE {"Analyst"}])],
    [roles |-> {"Analyst", "Checker"}, mode |-> "task_graph", analysis |-> TRUE, family |-> 3,
     deps |-> Deps([r \in {"Analyst", "Checker"} |-> {"Analyst", "Checker"} \ {r}])],
    [roles |-> {"Checker"}, mode |-> "task_graph", analysis |-> TRUE, family |-> 4,
     deps |-> Deps(On("Checker", "Builder"))],
    [roles |-> {"Lead", "Builder"}, mode |-> "task_graph", analysis |-> FALSE, family |-> 4, deps |-> Deps(<<>>)],
    [roles |-> {"Analyst"}, mode |-> "unsupported", analysis |-> TRUE, family |-> 5, deps |-> Deps(<<>>)]>>

Entry(field, role, st, batch, says) ==
  [field |-> field, role |-> role, status |-> st, batch |-> batch, says |-> says]
Open1(field, role) == Entry(field, role, "open", 1, 1)

Quiet == [b \in DOMAIN Bindings |-> 0]
Asked(items) == [items |-> items, matches |-> Quiet, route |-> 0, confidence |-> 70]

\* One or two open items of any class and role; there is one current judgment.
Pairs == {<<>>} \union {<<Open1(f, r)>> : f \in Fields, r \in Names}
         \union {x \in {<<Open1(f, r), Open1(g, s)>> : f, g \in Fields, r, s \in Names} :
                   \E k \in 1 .. 2 : x[k].field # "current_judgment"}
\* Three questions, and what became of two.
Triples == {<<Open1("unknowns", "Builder"), Open1("unknowns", r), Open1("unknowns", s)>> :
              r, s \in PackRoles}
Fates == {<<Entry("unknowns", "Analyst", x, 0, 1), Entry("counterfactuals", "Builder", y, 0, 1)>> :
            x, y \in {"open", "resolved", "dismissed", "tested"}}
\* Batches of handoffs, claimed or not, that say the same or not.
Handoffs == {<<Entry(f, r, x, b, 1), Entry(g, "Checker", y, c, n)>> :
               f, g \in Moves, r \in {"Checker", "Lead"}, x, y \in {"open", "claimed"},
               b, c \in {0, 1, 2}, n \in {1, 2}}
\* Questions that name the terms of a workflow while items are open.
Named == {[items |-> items, confidence |-> c, route |-> IF c = 70 THEN 0 ELSE 1,
           matches |-> [b \in DOMAIN Bindings |-> IF b = w THEN k ELSE IF b = 6 THEN j ELSE 0]]
            : items \in {<<>>} \union {<<Open1(f, "Builder")>> : f \in Fields},
              w \in DOMAIN Bindings, k \in {1, 4}, j \in {0, 3}, c \in {70, 95}}

PackInputs == {Asked(items) : items \in Pairs \union Triples \union Fates \union Handoffs} \union Named

\* Every graph of three nodes and a fourth that is missing; an empty document;
\* one with another defect.
Doc == {"document"} \X (1 .. 3)
PackDocuments ==
  {[nodes |-> Doc, dependsOn |-> d, sound |-> TRUE] :
     d \in [Doc -> SUBSET ({"document"} \X (1 .. 4))]}
  \union {[nodes |-> ids, dependsOn |-> [n \in ids |-> {}], sound |-> ids = {}] : ids \in {{}, Doc}}
=============================================================================
