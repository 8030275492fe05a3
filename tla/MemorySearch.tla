---------------------------- MODULE MemorySearch ----------------------------
(***************************************************************************)
(* The hybrid search of a memory (internal/memory/search.go): by keyword   *)
(* in the full text index and by meaning in the embeddings.  Scores are in *)
(* tenths, weights in tenths of those.  Sorting decides nothing between    *)
(* equal scores, so that HybridSearch is the set of all results the code   *)
(* may return; a result maps the messages returned to their scores.        *)
(***************************************************************************)
EXTENDS Integers, FiniteSets, FiniteSetsExt

\* A memory is a sequence of messages: fts is the normalized score of the
\* keyword match, 0 for none; sim the similarity of its embedding, or NoSim.
NoSim == 11

Matched(c)  == {i \in DOMAIN c : c[i].fts > 0}
Embedded(c) == {i \in DOMAIN c : c[i].sim # NoSim}

\* The first n of S, sorted by value: those that can be.
Top(S, value, n) ==
  {T \in kSubset(Min({n, Cardinality(S)}), S) :
     \A t \in T, s \in S \ T : value[t] >= value[s]}

\* A match without an embedding has no vector component.
MatchScore(m) ==
  3 * m.fts + 5 * (IF m.sim = NoSim THEN 0 ELSE m.sim) + 2 * m.trust
VectorScore(m) == 5 * m.sim + 2 * m.trust

\* Mutant: matches are not left out of the vector candidates.
VectorCandidatesAll(c, F) == Embedded(c)

VectorCandidates(c, F) == Embedded(c) \ F

\* F are the first 2 n matches, V the n most similar of the others (none if
\* they cannot be read); the n best of both are returned.
HybridSearch(c, n, hydrated) ==
  LET Merged(F, V) ==
        [i \in F \cup V |-> IF i \in V THEN VectorScore(c[i]) ELSE MatchScore(c[i])]
      Best(scored) ==
        {[i \in T |-> scored[i]] : T \in Top(DOMAIN scored, scored, n)}
      Fs == Top(Matched(c), [i \in DOMAIN c |-> c[i].fts], 2 * n)
      Vs(F) == IF hydrated
               THEN Top(VectorCandidates(c, F), [i \in DOMAIN c |-> c[i].sim], n)
               ELSE {{}}
  IN  UNION {UNION {Best(Merged(F, V)) : V \in Vs(F)} : F \in Fs}
=============================================================================
