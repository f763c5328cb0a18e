------------------------------ MODULE Versions ------------------------------
(***************************************************************************)
(* Version comparison and the choice of the newest release                 *)
(* (src/src/app/updates.go).  A version that went through trimVersion is   *)
(* its numeric segments and the rank of its prerelease part, 0 for none;   *)
(* strings.Compare orders the others by rank.                              *)
(***************************************************************************)
EXTENDS Naturals, Sequences, SequencesExt

CONSTANTS
  NoRelease,      (* FetchLatestRelease returned nil                       *)
  Catalog         (* versions that may be tagged, for the reference below  *)

\* A tag after trimVersion, and an entry of the list GitHub returns.
Version == [main: Seq(Nat), pre: Nat]
Release == [version: Version, stable: BOOLEAN]

ASSUME VersionsAssumption == NoRelease \notin Version /\ Catalog \subseteq Version

segAt(segs, i) == IF i <= Len(segs) THEN segs[i] ELSE 0

\* Is a before b in the first segment in which they differ?
compareNumericSegments(a, b) ==
  LET differ == {i \in DOMAIN a \cup DOMAIN b : segAt(a, i) # segAt(b, i)}
  IN  \E i \in differ : /\ \A j \in differ : i <= j
                        /\ segAt(a, i) < segAt(b, i)

\* compareSemver(a, b) < 0
compareSemver(a, b) ==
  \/ compareNumericSegments(a.main, b.main)
  \/ /\ ~compareNumericSegments(b.main, a.main)
     /\ a.pre # 0
     /\ b.pre = 0 \/ a.pre < b.pre

isNewerVersion(current, latest) ==
  latest # NoRelease /\ compareSemver(current, latest)

\* Mutant: a later entry of the list replaces an earlier one without comparison.
LaterReplaces(releases) ==
  FoldLeft(LAMBDA best, r : IF r.stable THEN r.version ELSE best, NoRelease, releases)

\* The first of the highest-versioned releases that are neither drafts nor
\* prereleases, in the order GitHub lists them.
FetchLatestRelease(releases) ==
  FoldLeft(LAMBDA best, r :
             IF /\ r.stable
                /\ best = NoRelease \/ compareSemver(best, r.version)
             THEN r.version ELSE best,
           NoRelease, releases)

-----------------------------------------------------------------------------

\* The reference: the weight of a version of at most three one-digit segments.
Weight(v) == 1000 * segAt(v.main, 1) + 100 * segAt(v.main, 2)
             + 10 * segAt(v.main, 3) + (IF v.pre = 0 THEN 9 ELSE v.pre)

Newest(releases, v) ==
  LET stable == {releases[i].version :
                   i \in {j \in DOMAIN releases : releases[j].stable}}
  IN  IF stable = {} THEN v = NoRelease
      ELSE v \in stable /\ \A w \in stable : Weight(w) <= Weight(v)

Candidates == [version: Catalog, stable: BOOLEAN]
CandidateLists == UNION {[1..n -> Candidates] : n \in 0..2}

\* Whatever order GitHub lists its releases in, the choice is the newest stable
\* one by weight, and it counts as newer exactly when it outranks the running
\* version.
NewestOfAnyList ==
  \A releases \in CandidateLists, current \in Catalog :
    LET found == FetchLatestRelease(releases)
    IN  /\ Newest(releases, found)
        /\ isNewerVersion(current, found)
             <=> (found # NoRelease /\ Weight(current) < Weight(found))
=============================================================================
