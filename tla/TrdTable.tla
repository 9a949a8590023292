------------------------------ MODULE TrdTable ------------------------------
(***************************************************************************)
(* What a TRD node remembers of the packets disseminated: the table of     *)
(* origins (mote/lib/trd/trd_table.c), the cache of packets of each origin *)
(* (trd_nodecache.c), and the list of packets asked for (trd_metalist.c).  *)
(*                                                                         *)
(* A cache is a sequence of entries [seqno, memloc, age], in the order of  *)
(* the array: which entry is replaced depends on it.  A table is a         *)
(* sequence of [origin, cache].                                            *)
(***************************************************************************)
EXTENDS TrdSeqno, SequencesExt

CONSTANTS
  TRD_NODE_ENTRIES, TRD_CACHE_ENTRIES_PER_NODE,
  TRD_AGE_IGNORE_OLD, TRD_AGE_NO_SUMMARY, TRD_AGE_DELETE_OLD, TRD_AGE_MAX

ASSUME TrdTableAssumption ==
  /\ TRD_NODE_ENTRIES \in Nat \ {0} /\ TRD_CACHE_ENTRIES_PER_NODE \in Nat \ {0}
  /\ TRD_AGE_IGNORE_OLD < TRD_AGE_NO_SUMMARY /\ TRD_AGE_NO_SUMMARY < TRD_AGE_DELETE_OLD

\* Op(x) with x bound to its value: TLC evaluates an argument wherever it is used.
With(x, Op(_)) == CHOOSE y \in {Op(z) : z \in {x}} : TRUE

-----------------------------------------------------------------------------
(* The cache of one origin.                                                *)

Seqnos(c) == {c[i].seqno : i \in DOMAIN c}
IndexOf(c, seqno) == CHOOSE i \in DOMAIN c : c[i].seqno = seqno
Greatest(S) == CHOOSE s \in S : \A r \in S : ~TrdAfter(r, s)
Least(S) == CHOOSE s \in S : \A r \in S : ~TrdAfter(s, r)

\* find_oldest_seqno_index.  oldest_seqno is not set where an older entry is found,
\* so that of entries of one age it is always the first of the array.
FirstOldest(c) == CHOOSE i \in DOMAIN c :
  /\ \A j \in DOMAIN c : c[j].age <= c[i].age
  /\ \A j \in 1 .. i - 1 : c[j].age < c[i].age

OldestSeqno(c) == IF c = <<>> THEN TRD_SEQNO_UNKNOWN ELSE c[FirstOldest(c)].seqno

\* nodecache_insert.
Inserted(c, e) ==
  IF e.seqno \in Seqnos(c) THEN c
  ELSE IF Len(c) = TRD_CACHE_ENTRIES_PER_NODE THEN [c EXCEPT ![FirstOldest(c)] = e]
  ELSE Append(c, e)

\* Whether one more entry takes the place of one that is not the oldest by its number.
ReplacesYounger(c) ==
  Len(c) = TRD_CACHE_ENTRIES_PER_NODE /\ c[FirstOldest(c)].seqno # Least(Seqnos(c))

\* nodecache_incrementAge, k times.
Aged(c, k) ==
  [i \in DOMAIN c |-> [c[i] EXCEPT !.age = IF @ > 0 /\ @ + k <= TRD_AGE_MAX THEN @ + k ELSE @]]

\* nodecache_findNewestAge.
NewestAge(c) ==
  IF c = <<>> THEN TRD_AGE_MAX + 1 ELSE CHOOSE a \in {c[i].age : i \in DOMAIN c} :
    \A i \in DOMAIN c : a <= c[i].age

\* nodecache_getLastSeqno: "trust age over seqno".
LastSeqno(c) ==
  IF c = <<>> THEN TRD_SEQNO_UNKNOWN
  ELSE Greatest({c[i].seqno : i \in {i \in DOMAIN c : c[i].age = NewestAge(c)}})

\* By how much a cache is aged that has the packet in question as its newest.
Lag(c, age) ==
  LET newest == c[IndexOf(c, Greatest(Seqnos(c)))].age
  IN  IF age - 1 > newest + 1 THEN age - 2 - newest ELSE 0

\* A mutated form, for HandedUpInOrder: what is not there is taken to be new.
Mut_ClassMissing(c, newest, seqno, age) ==
  CASE seqno = newest -> IF Lag(c, age) > 1 THEN "IN_OLD" ELSE "IN_LAST"
    [] seqno # newest /\ seqno \in Seqnos(c) -> "IN_OLD"
    [] OTHER -> "NEXT_NEW"

\* nodecache_classifySeqno of a number, in a cache with that newest one.
ClassBeside(c, newest, seqno, age) ==
  LET next == trd_seqno_next(newest)
      near == trd_seqno_add(newest, TRD_CACHE_ENTRIES_PER_NODE - 1)
  IN  IF seqno = newest THEN IF Lag(c, age) > 1 THEN "IN_OLD" ELSE "IN_LAST"
      ELSE IF seqno = next THEN "NEXT_NEW"
      ELSE IF TrdAfter(seqno, next) THEN IF TrdAfter(seqno, near) THEN "TOO_NEW" ELSE "NEWER"
      ELSE IF TrdAfter(Least(Seqnos(c)), seqno) THEN "TOO_OLD"
      ELSE IF seqno \in Seqnos(c) THEN "IN_OLD" ELSE "UNKNOWN"

CacheClass(c, seqno, age) ==
  CASE seqno = TRD_SEQNO_UNKNOWN -> "UNKNOWN"
    [] seqno = TRD_SEQNO_OLDEST -> "TOO_OLD"
    [] seqno \in TrdNumbers /\ c = <<>> -> "NULL"
    [] seqno \in TrdNumbers /\ c # <<>> ->
         With(Greatest(Seqnos(c)), LAMBDA newest : ClassBeside(c, newest, seqno, age))

-----------------------------------------------------------------------------
(* The table.                                                              *)

HasOrigin(t, origin) == \E i \in DOMAIN t : t[i].origin = origin
OriginIndex(t, origin) == CHOOSE i \in DOMAIN t : t[i].origin = origin
CacheOf(t, origin) == IF HasOrigin(t, origin) THEN t[OriginIndex(t, origin)].cache ELSE <<>>
IsFull(t) == Len(t) >= TRD_NODE_ENTRIES

\* trd_table_remove_node_index: the last one takes its place.
WithoutIndex(t, i) == SubSeq([t EXCEPT ![i] = t[Len(t)]], 1, Len(t) - 1)
WithoutOrigin(t, origin) ==
  IF HasOrigin(t, origin) THEN WithoutIndex(t, OriginIndex(t, origin)) ELSE t

\* trd_table_incrementAge: origins of which all is old are forgotten.
TableAged(t) ==
  SelectSeq([i \in DOMAIN t |-> [t[i] EXCEPT !.cache = Aged(@, 1)]],
            LAMBDA n : NewestAge(n.cache) <= TRD_AGE_DELETE_OLD)

\* trd_table_insert: a new origin finds no place in a full table.
TableInsert(t, origin, e) ==
  IF HasOrigin(t, origin) THEN [t EXCEPT ![OriginIndex(t, origin)].cache = Inserted(@, e)]
  ELSE IF IsFull(t) THEN t
  ELSE Append(t, [origin |-> origin, cache |-> <<e>>])

\* trd_table_classify, and the table it leaves.
Class(t, m) ==
  IF HasOrigin(t, m.origin)
  THEN With(CacheOf(t, m.origin), LAMBDA c : CacheClass(c, m.seqno, m.age)) ELSE "NULL"

Classified(t, m) ==
  LET c == CacheOf(t, m.origin)
  IN  IF c # <<>> /\ m.seqno = Greatest(Seqnos(c))
      THEN [t EXCEPT ![OriginIndex(t, m.origin)].cache = Aged(@, Lag(@, m.age))]
      ELSE t

Exists(t, origin, seqno) == seqno \in Seqnos(CacheOf(t, origin))
EntryOf(t, origin, seqno) == LET c == CacheOf(t, origin) IN c[IndexOf(c, seqno)]

\* trd_table_summarize: the last packet of each origin.
Summary(t, ignoreOld) ==
  LET All == [i \in DOMAIN t |->
                LET c == t[i].cache
                IN  [origin |-> t[i].origin, seqno |-> LastSeqno(c), age |-> NewestAge(c)]]
  IN  SelectSeq(All, LAMBDA m : ~ignoreOld \/ m.age < TRD_AGE_NO_SUMMARY)

\* trd_table_ignoreSummary: is all that I have and the summary lacks old?  The
\* summary is looked up with the index of the table (what follows its last entry
\* is taken to match nothing).
IgnoreSummary(t, s) ==
  \A i \in DOMAIN t : (i \in DOMAIN s => t[i].origin # s[i].origin) =>
                         NewestAge(t[i].cache) >= TRD_AGE_IGNORE_OLD

-----------------------------------------------------------------------------
(* The list of packets to be sent again.                                   *)

\* trd_state_requestReceived with metalist_insert: the packets from seqno on, as far
\* as they are there, none twice, until the list is full.
ListedFrom(t, l, origin, seqno) ==
  LET There(k) == Exists(t, origin, trd_seqno_add(seqno, k))
      Run == {k \in 0 .. TRD_CACHE_ENTRIES_PER_NODE - 1 : \A j \in 0 .. k : There(j)}
      Wanted == [j \in 1 .. Cardinality(Run) |->
                   [origin |-> origin, seqno |-> trd_seqno_add(seqno, j - 1)]]
      Fresh == SelectSeq(Wanted, LAMBDA m : \A i \in DOMAIN l : l[i] # m)
      Room == TRD_CACHE_ENTRIES_PER_NODE - Len(l)
  IN  l \o SubSeq(Fresh, 1, IF Len(Fresh) < Room THEN Len(Fresh) ELSE Room)
=============================================================================
