-------------------------- MODULE MCSemanticCache --------------------------
(***************************************************************************)
(* Instances of SemanticCache.  The keys are real ones of module           *)
(* Invalidation for one project and version, and the prefixes of a scope   *)
(* are those of prefixes_for that have one of the keys under them.         *)
(***************************************************************************)
EXTENDS SemanticCache, TLC, SequencesExt

CONSTANTS t1, t2

MCTasks == {t1, t2}
MCOneTask == {t1}
TaskSymmetry == Permutations(MCTasks)

p == <<3, 9>>
v == <<9>>
Inv == INSTANCE Invalidation
         WITH ProjectIds <- {p}, VersionIds <- {v}, stored <- cache, last <- cache

MCRmd == Inv!VersionKey("rmd", p, v)
MCMeasures == Inv!VersionKey("measures", p, v)
MCProjects == Inv!CompanyKey("projects")

KeysUnder(prefix) == {k \in Keys : Inv!Under(prefix, k)}
NonEmpty(S) == S # {}
MCDrops ==
  [s \in Scopes |->
     LET prefixes == Inv!prefixes_for(s, p, v) IN
     SelectSeq([i \in DOMAIN prefixes |-> KeysUnder(prefixes[i])], NonEmpty)]

(* What some write use case of the scope changes. *)
MCChanges ==
  [s \in Scopes |->
     UNION {Inv!Changed(w, p, v) : w \in {u \in Inv!Writes : u.scope = s}} \cap Keys]

MCRmdOnly == {MCRmd}
MCRmdAndMeasures == {MCMeasures, MCRmd}
MCRmdAndProjects == {MCProjects, MCRmd}
=============================================================================
