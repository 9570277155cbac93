------------------------- MODULE ResumableLoad_proofs -------------------------
(***************************************************************************)
(* Proofs about ResumableLoad, for any dump, any number of workers and of   *)
(* runs, and any way in which runs may end early.                           *)
(***************************************************************************)
EXTENDS ResumableLoad, SequenceTheorems, FiniteSetTheorems, WellFoundedInduction,
        TLAPS

----------------------------------------------------------------------------
(* The conditions of the theorems.                                          *)

\* Every table has a key.
Keyed == \A c \in Chunks : TableOf[c[1]] \in Pke

\* A table without a key has one data file (see the finding on TRUNCATE).
OneFile ==
  \A c, d \in Chunks :
    TableOf[c[1]] = TableOf[d[1]] /\ TableOf[c[1]] \notin Pke => c = d

\* No run is killed, or ends with an exception on the main thread.
Graceful == Stops \subseteq {"interrupt", "fatal"}

----------------------------------------------------------------------------
(* The states of a process that is not loading.                             *)

LoadEvents == {"LOAD_START", "LOAD_SUBCHUNK_END", "LOAD_END"}

\* Nothing has happened in a run that is not loading yet, or not any more.
AtRest ==
  ~Running =>
    /\ queue = <<>> /\ live = Workers /\ idle = {} /\ interrupt = FALSE
    /\ \A w \in Workers : wpc[w] = "ready" /\ task[w] = NoTask
    /\ \A p \in Parts : consumed[p] = 0

\* A run that ends early is not the last one.
RunsLeft == mpc \in {"down", "join"} \/ interrupt => runs < MaxRuns

----------------------------------------------------------------------------
(* The events of a worker, and where it is.                                 *)

\* The order of the events of a worker: LOAD_START comes first, then the
\* sub-chunks by number, then LOAD_END; nothing follows READY, EXIT and
\* FATAL_ERROR.
Follows(e, g) ==
  /\ e.type \in LoadEvents /\ g.type # "LOAD_START"
  /\ e.type = "LOAD_END" => g.type = "READY"
  /\ e.type = "LOAD_SUBCHUNK_END" /\ g.type = "LOAD_SUBCHUNK_END" => e.sub < g.sub

EventOrder ==
  \A i, j \in 1..Len(queue) :
    i < j /\ queue[i].worker = queue[j].worker => Follows(queue[i], queue[j])

\* Where a worker can be while an event of it is queued.
Places(type) ==
  CASE type = "READY" -> {"wait"}
    [] type \in {"EXIT", "FATAL_ERROR"} -> {"exited"}
    [] type = "LOAD_END" -> {"ready", "wait"}
    [] type = "LOAD_SUBCHUNK_END" -> {"load", "report", "end", "ready", "wait", "exited"}
    [] OTHER -> {"prepare", "load", "report", "end", "ready", "wait", "exited"}

EventPlace ==
  \A i \in 1..Len(queue) : wpc[queue[i].worker] \in Places(queue[i].type)

Silent(w) == \A i \in 1..Len(queue) : queue[i].worker # w

\* A worker that is idle, or was forgotten, has no event queued.
IdleSilent ==
  /\ \A w \in idle : wpc[w] = "wait" /\ Silent(w)
  /\ \A w \in Workers \ live : wpc[w] = "exited" /\ Silent(w)

Handshake == EventOrder /\ EventPlace /\ IdleSilent

----------------------------------------------------------------------------
(* Who loads what.                                                          *)

Busy(w)    == wpc[w] \in {"given", "prepare", "load", "report", "end"}
Started(w) == wpc[w] \in {"prepare", "load", "report", "end"}

\* An event of the given type about the chunk is queued at i.
EventAt(i, type, c) ==
  queue[i].type = type /\ task[queue[i].worker].chunk = c

Posted(type, c) == \E i \in 1..Len(queue) : EventAt(i, type, c)

\* The chunk was not taken in this run.
Untouched(c) == c[2] >= consumed[c[1]]

\* A chunk is given to one worker per run.
Taken ==
  /\ \A w \in Workers : task[w].chunk # <<>> =>
       /\ ~Untouched(task[w].chunk) /\ last.chunk[task[w].chunk] # "DONE"
  /\ \A w \in Workers : Busy(w) => task[w].chunk # <<>>
  /\ \A i \in 1..Len(queue) : queue[i].type \in LoadEvents =>
       task[queue[i].worker].chunk # <<>>
  /\ \A v, w \in Workers :
       task[v].chunk = task[w].chunk /\ task[v].chunk # <<>> => v = w

----------------------------------------------------------------------------
(* The progress file.                                                       *)

\* What is known of the earlier runs: for a moment it is only in memory.
Log == IF mpc = "opened" THEN last ELSE file

\* The file, from the time it was written back.
LogKept ==
  /\ mpc = "opened" => file = EmptyLog \/ file = last
  /\ mpc \in {"check", "begin", "load", "join"} =>
       \A c \in Chunks :
         /\ Untouched(c) => file.chunk[c] = last.chunk[c] /\ file.sub[c] = last.sub[c]
         /\ last.chunk[c] = "DONE" => file.chunk[c] = "DONE"
         /\ \A k \in 0..MaxSub :
              last.sub[c][k] # NotDone => file.sub[c][k] = last.sub[c][k]

\* The start of the chunk is in the file, or about to be.
StartKnown(c) == file.chunk[c] # "PENDING" \/ Posted("LOAD_START", c)

\* A chunk is in the file from its LOAD_START on, and DONE only after LOAD_END.
ChunkLogged ==
  /\ \A w \in Workers : Started(w) => StartKnown(task[w].chunk)
  /\ \A i \in 1..Len(queue) : queue[i].type \in {"LOAD_SUBCHUNK_END", "LOAD_END"} =>
       StartKnown(task[queue[i].worker].chunk)
  /\ \A w \in Workers : Busy(w) => file.chunk[task[w].chunk] # "DONE"
  /\ \A c \in Chunks : Log.chunk[c] = "PENDING" =>
       \A k \in 0..MaxSub : Log.sub[c][k] = NotDone

----------------------------------------------------------------------------
(* Sub-chunks.                                                              *)

\* The rows of the sub-chunks below f, as BytesToSkip adds them up.
Skip(v, f) == MapThenSumSet(LAMBDA k : v[k], {k \in 0..MaxSub : k < f})

\* The most sub-chunks a chunk can have after n runs.
Limit(n) == (NumRows + 1) * n

\* v and f tell the sub-chunks of c that were committed, the first f of them:
\* those that are in the file and those whose events are queued.
SubView(c, v, f) ==
  /\ v \in [0..MaxSub -> 0..NotDone] /\ f \in 0..MaxSub
  /\ \A k \in 0..MaxSub : v[k] = NotDone <=> k >= f
  /\ \A k \in 0..MaxSub : Log.sub[c][k] \in {v[k], NotDone}
  /\ \A j, k \in 0..MaxSub :
       j < k /\ Log.sub[c][k] # NotDone => Log.sub[c][j] # NotDone
  /\ \A k \in 0..MaxSub : k < f /\ Log.sub[c][k] = NotDone =>
       \E i \in 1..Len(queue) : EventAt(i, "LOAD_SUBCHUNK_END", c) /\ queue[i].sub = k
  /\ \A i \in 1..Len(queue) : EventAt(i, "LOAD_SUBCHUNK_END", c) =>
       /\ queue[i].sub < f /\ queue[i].bytes = v[queue[i].sub]
       /\ Log.sub[c][queue[i].sub] = NotDone

\* How many there are: the worker that loads c counts them.
SubCount(c, f) ==
  /\ f <= Limit(runs)
  /\ mpc \notin {"down", "complete", "refused"} /\ Untouched(c) =>
       f <= Limit(runs - 1)
  /\ \A w \in Workers : task[w].chunk = c =>
       /\ wpc[w] \in {"given", "prepare"} =>
            task[w].sub = f /\ f <= Limit(runs - 1)
       /\ wpc[w] = "load" => task[w].sub = f /\ f <= Limit(runs - 1) + task[w].off
       /\ wpc[w] = "report" =>
            task[w].sub = f /\ f + task[w].trx <= Limit(runs - 1) + task[w].off

\* Where they are in the file of a table with a key.
SubRows(c, v, f) ==
  TableOf[c[1]] \in Pke =>
    /\ Skip(v, f) <= NumRows
    /\ \A r \in 1..Skip(v, f) : server[c][r] > 0
    /\ \A w \in Workers : task[w].chunk = c =>
         /\ wpc[w] \in {"given", "prepare", "load"} => task[w].off = Skip(v, f)
         /\ wpc[w] = "report" => /\ task[w].off = Skip(v, f) + task[w].trx
                                 /\ \A r \in 1..task[w].off : server[c][r] > 0

SubchunkInv(c, v, f) == SubView(c, v, f) /\ SubCount(c, f) /\ SubRows(c, v, f)

SubChunks ==
  \A c \in Chunks : \E v \in [0..MaxSub -> 0..NotDone] : \E f \in 0..MaxSub :
    SubchunkInv(c, v, f)

----------------------------------------------------------------------------
(* The rows on the server.                                                  *)

Full(c) == \A r \in 1..NumRows : server[c][r] > 0

\* A task that has not been resumed begins with the file.
OffsetInv ==
  \A w \in Workers : /\ wpc[w] \in {"given", "prepare"} /\ ~task[w].resume => task[w].off = 0
                     /\ wpc[w] \in {"load", "report", "end"} => task[w].off <= NumRows
                     /\ wpc[w] = "end" => task[w].off = NumRows

\* What was loaded is there.
RowsThere ==
  /\ \A w \in Workers : wpc[w] \in {"load", "report", "end"} =>
       \A r \in 1..task[w].off : server[task[w].chunk][r] > 0
  /\ \A c \in Chunks : Posted("LOAD_END", c) => Full(c)
  /\ \A c \in Chunks : file.chunk[c] = "DONE" \/ last.chunk[c] = "DONE" => Full(c)

Base ==
  /\ TypeOK /\ AtRest /\ RunsLeft /\ Handshake /\ Taken /\ LogKept /\ ChunkLogged
  /\ SubChunks /\ OffsetInv

----------------------------------------------------------------------------
(* Runs that end in good order.                                             *)

\* A chunk with rows on the server is in the log, or about to be.
RowsLogged ==
  \A c \in Chunks : (\E r \in 1..NumRows : server[c][r] > 0) =>
    Log.chunk[c] # "PENDING" \/ Posted("LOAD_START", c)

\* No row is there twice, and none behind what a worker loads.
NoCopies ==
  /\ \A c \in Chunks : \A r \in 1..NumRows : server[c][r] <= 1
  /\ \A w \in Workers :
       /\ wpc[w] \in {"given", "prepare"} /\ ~task[w].resume
            /\ TableOf[task[w].chunk[1]] \notin Pke =>
            \A r \in 1..NumRows : server[task[w].chunk][r] = 0
       /\ wpc[w] \in {"load", "report"} /\ TableOf[task[w].chunk[1]] \notin Pke =>
            \A r \in 1..NumRows : r > task[w].off => server[task[w].chunk][r] = 0

\* The chunk is loaded, or a worker is at it.
InHand(c) ==
  \/ file.chunk[c] = "DONE" \/ Posted("LOAD_END", c)
  \/ \E w \in Workers : Busy(w) /\ task[w].chunk = c

\* Nothing is left out, unless the run is interrupted.
NothingLeft ==
  mpc = "load" /\ ~interrupt =>
    /\ live = Workers /\ \A w \in Workers : wpc[w] # "exited"
    /\ idle # {} => Remaining = {}
    /\ \A c \in Chunks : ~Untouched(c) => InHand(c)

----------------------------------------------------------------------------
(* Sums of sub-chunk sizes.                                                 *)

----------------------------------------------------------------------------
(* The sum of the sizes of sub-chunks.                                      *)

\* The number MapThenSumSet takes next, out of a set of them.
Taker(s) == CHOOSE k \in s : TRUE

Subs == 0..MaxSub

\* One step of the sum over a set of sub-chunks.
SumStep(g, v, s) == IF s = {} THEN 0 ELSE v[Taker(s)] + g[s \ {Taker(s)}]

\* g sums up v over every set of sub-chunks.
Sums(g, v) ==
  /\ g \in [SUBSET Subs -> Nat]
  /\ \A s \in SUBSET Subs : g[s] = SumStep(g, v, s)

\* Every set of natural numbers has a least element.
LEMMA LeastExists ==
  ASSUME NEW S \in SUBSET Nat, S # {}
  PROVE  \E x \in S : \A y \in S : x <= y
  <1>1. IsWellFoundedOn(OpToRel(<, Nat), Nat)
    BY NatLessThanWellFounded
  <1>2. PICK x \in S : \A y \in S : ~(<<y, x>> \in OpToRel(<, Nat))
    BY <1>1, WFMin
  <1>3. \A y \in S : ~(y < x)
    BY <1>2 DEF OpToRel
  <1> QED BY <1>3

\* The numbers of the sub-chunks, and of rows, are natural.
LEMMA Sizes ==
  /\ NumRows \in Nat /\ NumRows > 0 /\ NotDone \in Nat /\ NotDone = NumRows + 1
  /\ MaxSub \in Nat /\ MaxRuns \in Nat /\ MaxRuns > 0 /\ MaxTrx \in Nat
  /\ Subs \subseteq Nat /\ IsFiniteSet(Subs)
  <1>1. NumRows \in Nat /\ NumRows > 0 /\ MaxRuns \in Nat /\ MaxRuns > 0 /\ MaxTrx \in Nat
    BY LoadAssumption
  <1>2. (NumRows + 1) * MaxRuns \in Nat
    BY <1>1
  <1>3. MaxSub \in Nat
    BY <1>2 DEF MaxSub
  <1>4. IsFiniteSet(0..MaxSub)
    BY <1>3, FS_Interval
  <1> QED BY <1>1, <1>3, <1>4 DEF NotDone, Subs

\* A set of sub-chunks without the one that is taken next.
LEMMA TakerLeaves ==
  ASSUME NEW s \in SUBSET Subs, s # {}
  PROVE  /\ Taker(s) \in s /\ Taker(s) \in Subs
         /\ s \ {Taker(s)} \in SUBSET Subs
         /\ Cardinality(s) \in Nat /\ Cardinality(s) > 0
         /\ Cardinality(s \ {Taker(s)}) = Cardinality(s) - 1
  <1>1. Taker(s) \in s
    BY DEF Taker
  <1>2. IsFiniteSet(s)
    BY FS_Subset, Sizes
  <1>3. Cardinality(s \ {Taker(s)}) = Cardinality(s) - 1
    BY <1>1, <1>2, FS_RemoveElement
  <1>4. Cardinality(s) \in Nat /\ Cardinality(s) # 0
    BY <1>2, FS_CardinalityType, FS_EmptySet
  <1> QED BY <1>1, <1>3, <1>4

\* A set of sets of sub-chunks has a smallest member.
LEMMA SmallestSet ==
  ASSUME NEW Bad, Bad \subseteq SUBSET Subs, Bad # {}
  PROVE  \E s \in Bad : \A x \in s : s \ {x} \notin Bad
  <1> DEFINE All == {n \in Nat : \E s \in Bad : Cardinality(s) = n}
  <1>1. \A s \in SUBSET Subs : IsFiniteSet(s) /\ Cardinality(s) \in Nat
    BY FS_Subset, FS_CardinalityType, Sizes
  <1>2. All # {}
    BY <1>1
  <1>3. PICK n \in All : \A m \in All : n <= m
    BY <1>2, LeastExists
  <1>4. PICK s \in Bad : Cardinality(s) = n
    BY <1>3
  <1>5. ASSUME NEW x \in s, s \ {x} \in Bad PROVE FALSE
    <2>1. IsFiniteSet(s) /\ Cardinality(s) \in Nat /\ Cardinality(s \ {x}) \in Nat
      BY <1>1, <1>4, <1>5
    <2>2. Cardinality(s \ {x}) = Cardinality(s) - 1
      BY <1>5, <2>1, FS_RemoveElement
    <2>3. Cardinality(s \ {x}) \in All
      BY <1>5, <2>1
    <2>4. n <= Cardinality(s \ {x})
      BY <1>3, <2>3
    <2> QED BY <1>4, <2>1, <2>2, <2>4
  <1> QED BY <1>4, <1>5

\* There is a sum: one for the sets of up to n sub-chunks is extended to those
\* with one more.
LEMMA SumExists ==
  ASSUME NEW v \in [Subs -> Nat]
  PROVE  \E g : Sums(g, v)
  <1> DEFINE Upto(g, n) == \A s \in SUBSET Subs :
                             Cardinality(s) <= n => g[s] = SumStep(g, v, s)
             Good(n) == \E g \in [SUBSET Subs -> Nat] : Upto(g, n)
             Bad == {n \in Nat : ~Good(n)}
  <1>0. \A s \in SUBSET Subs : IsFiniteSet(s) /\ Cardinality(s) \in Nat
    BY FS_Subset, FS_CardinalityType, Sizes
  <1>1. Good(0)
    <2> DEFINE g == [s \in SUBSET Subs |-> 0]
    <2>1. ASSUME NEW s \in SUBSET Subs, Cardinality(s) <= 0
          PROVE  g[s] = SumStep(g, v, s)
      <3>1. s = {}
        BY <1>0, <2>1, FS_EmptySet
      <3> QED BY <3>1 DEF SumStep
    <2>2. g \in [SUBSET Subs -> Nat]
      OBVIOUS
    <2> QED BY <2>1, <2>2
  <1>2. ASSUME NEW n \in Nat, n > 0, Good(n - 1) PROVE Good(n)
    <2>1. PICK g \in [SUBSET Subs -> Nat] : Upto(g, n - 1)
      BY <1>2
    <2> DEFINE h == [s \in SUBSET Subs |->
                       IF Cardinality(s) < n THEN g[s] ELSE SumStep(g, v, s)]
    <2>2. \A s \in SUBSET Subs : SumStep(g, v, s) \in Nat
      <3> TAKE s \in SUBSET Subs
      <3>1. CASE s = {}
        BY <3>1 DEF SumStep
      <3>2. CASE s # {}
        <4>1. Taker(s) \in Subs /\ s \ {Taker(s)} \in SUBSET Subs
          BY <3>2, TakerLeaves
        <4> QED BY <3>2, <4>1 DEF SumStep
      <3> QED BY <3>1, <3>2
    <2>3. h \in [SUBSET Subs -> Nat]
      BY <2>2
    <2>4. ASSUME NEW s \in SUBSET Subs, Cardinality(s) <= n
          PROVE  h[s] = SumStep(g, v, s)
      <3>1. CASE Cardinality(s) < n
        BY <1>0, <1>2, <2>1, <3>1
      <3>2. CASE ~(Cardinality(s) < n)
        BY <3>2
      <3> QED BY <3>1, <3>2
    <2>5. ASSUME NEW s \in SUBSET Subs, Cardinality(s) <= n
          PROVE  SumStep(h, v, s) = SumStep(g, v, s)
      <3>1. CASE s = {}
        BY <3>1 DEF SumStep
      <3>2. CASE s # {}
        <4>1. /\ s \ {Taker(s)} \in SUBSET Subs
              /\ Cardinality(s \ {Taker(s)}) = Cardinality(s) - 1
              /\ Cardinality(s) \in Nat
          BY <3>2, TakerLeaves
        <4>2. h[s \ {Taker(s)}] = g[s \ {Taker(s)}]
          BY <2>5, <4>1
        <4> QED BY <4>2 DEF SumStep
      <3> QED BY <3>1, <3>2
    <2> HIDE DEF h
    <2>6. Upto(h, n)
      BY <2>4, <2>5
    <2> QED BY <2>3, <2>6
  <1> HIDE DEF Good
  <1>3. \A n \in Nat : Good(n)
    <2> SUFFICES ASSUME Bad # {} PROVE FALSE
      OBVIOUS
    <2>1. PICK n \in Bad : \A m \in Bad : n <= m
      BY LeastExists
    <2>2. n \in Nat /\ ~Good(n)
      BY <2>1
    <2>3. n > 0
      BY <1>1, <2>2
    <2>4. n - 1 \in Nat /\ n - 1 \notin Bad
      BY <2>1, <2>2, <2>3
    <2>5. Good(n - 1)
      BY <2>4
    <2> QED BY <1>2, <2>2, <2>3, <2>5
  <1>4. Cardinality(Subs) \in Nat
        /\ \A s \in SUBSET Subs : Cardinality(s) <= Cardinality(Subs)
    BY FS_Subset, FS_CardinalityType, Sizes
  <1>5. PICK g \in [SUBSET Subs -> Nat] : Upto(g, Cardinality(Subs))
    BY <1>3, <1>4 DEF Good
  <1>6. \A s \in SUBSET Subs : g[s] = SumStep(g, v, s)
    BY <1>4, <1>5
  <1> QED BY <1>6 DEF Sums

\* Sums over the same sizes are the same.
LEMMA SumAgrees ==
  ASSUME NEW v \in [Subs -> Nat], NEW u \in [Subs -> Nat],
         NEW g, NEW h, Sums(g, v), Sums(h, u),
         NEW S \in SUBSET Subs, \A k \in S : u[k] = v[k]
  PROVE  h[S] = g[S]
  <1> DEFINE Bad == {s \in SUBSET S : h[s] # g[s]}
  <1> SUFFICES ASSUME Bad # {} PROVE FALSE
    OBVIOUS
  <1>1. PICK s \in Bad : \A x \in s : s \ {x} \notin Bad
    BY SmallestSet
  <1>2. s \in SUBSET Subs /\ s \in SUBSET S /\ h[s] # g[s]
    BY <1>1
  <1>3. g[s] = SumStep(g, v, s) /\ h[s] = SumStep(h, u, s)
    BY <1>2 DEF Sums
  <1>4. s # {}
    BY <1>2, <1>3 DEF SumStep
  <1>5. Taker(s) \in s
    BY <1>2, <1>4, TakerLeaves
  <1>6. h[s \ {Taker(s)}] = g[s \ {Taker(s)}]
    BY <1>1, <1>2, <1>5
  <1>7. u[Taker(s)] = v[Taker(s)]
    BY <1>2, <1>5
  <1> QED BY <1>2, <1>3, <1>4, <1>6, <1>7 DEF SumStep

\* Any sub-chunk can be taken first.
LEMMA SumTakes ==
  ASSUME NEW v \in [Subs -> Nat], NEW g, Sums(g, v), NEW S \in SUBSET Subs,
         NEW y \in S
  PROVE  g[S] = v[y] + g[S \ {y}]
  <1> DEFINE Bad == {s \in SUBSET Subs : \E x \in s : g[s] # v[x] + g[s \ {x}]}
  <1> SUFFICES ASSUME Bad # {} PROVE FALSE
    OBVIOUS
  <1>1. PICK s \in Bad : \A x \in s : s \ {x} \notin Bad
    BY SmallestSet
  <1>2. PICK x \in s : g[s] # v[x] + g[s \ {x}]
    BY <1>1
  <1> DEFINE t == Taker(s)
             r == s \ {x}
             q == s \ {t}
             o == r \ {t}
  <1>3. s \in SUBSET Subs /\ s # {}
    BY <1>1, <1>2
  <1>4. t \in s /\ t \in Subs /\ x \in Subs
    BY <1>2, <1>3, TakerLeaves
  <1>5. g[s] = v[t] + g[q]
    BY <1>3 DEF Sums, SumStep
  <1>6. t # x
    BY <1>2, <1>5
  <1>7. o = q \ {x} /\ r \in SUBSET Subs /\ q \in SUBSET Subs /\ o \in SUBSET Subs
    BY <1>3
  <1>8. r \notin Bad /\ q \notin Bad
    BY <1>1, <1>2, <1>4
  <1>9. g[r] = v[t] + g[o]
    BY <1>4, <1>6, <1>7, <1>8
  <1>10. g[q] = v[x] + g[o]
    BY <1>2, <1>6, <1>7, <1>8
  <1>11. /\ v[t] \in Nat /\ v[x] \in Nat /\ g[o] \in Nat /\ g[r] \in Nat
    BY <1>4, <1>7 DEF Sums
  <1> HIDE DEF t, r, q, o
  <1>12. g[s] = v[x] + g[r]
    BY <1>5, <1>9, <1>10, <1>11
  <1> QED BY <1>2, <1>12 DEF r

\* MapThenSumSet, by its definition.
LEMMA SumIs ==
  ASSUME NEW v, NEW f
  PROVE  LET T == {k \in 0..MaxSub : k < f}
         IN  Skip(v, f) = (CHOOSE g : g = [s \in SUBSET T |-> SumStep(g, v, s)])[T]
  BY DEF Skip, MapThenSumSet, MapThenFoldSet, SumStep, Taker

\* Skip is the sum.
LEMMA SkipIs ==
  ASSUME NEW v \in [Subs -> Nat], NEW g, Sums(g, v), NEW f
  PROVE  Skip(v, f) = g[{k \in Subs : k < f}]
  <1> DEFINE T == {k \in Subs : k < f}
             Is(h) == h = [s \in SUBSET T |-> SumStep(h, v, s)]
             h == CHOOSE h : Is(h)
  <1>1. Skip(v, f) = h[T]
    BY SumIs DEF Subs
  <1>2. \E e : Is(e)
    <2> DEFINE e == [s \in SUBSET T |-> g[s]]
    <2>1. ASSUME NEW s \in SUBSET T PROVE g[s] = SumStep(e, v, s)
      <3>1. g[s] = SumStep(g, v, s)
        BY DEF Sums
      <3>2. s \ {Taker(s)} \in SUBSET T
        OBVIOUS
      <3> QED BY <3>1, <3>2 DEF SumStep
    <2>2. Is(e)
      BY <2>1
    <2> QED BY <2>2
  <1>3. Is(h)
    BY <1>2
  <1> HIDE DEF h
  <1>4. \A s \in SUBSET T : h[s] = SumStep(h, v, s)
    BY <1>3
  <1> DEFINE Bad == {s \in SUBSET T : h[s] # g[s]}
  <1>5. Bad = {}
    <2> SUFFICES ASSUME Bad # {} PROVE FALSE
      OBVIOUS
    <2>1. PICK s \in Bad : \A x \in s : s \ {x} \notin Bad
      BY SmallestSet
    <2>2. s \in SUBSET T /\ s \in SUBSET Subs /\ h[s] # g[s]
      BY <2>1
    <2>3. g[s] = SumStep(g, v, s) /\ h[s] = SumStep(h, v, s)
      BY <1>4, <2>2 DEF Sums
    <2>4. s # {}
      BY <2>2, <2>3 DEF SumStep
    <2>5. Taker(s) \in s
      BY <2>2, <2>4, TakerLeaves
    <2>6. h[s \ {Taker(s)}] = g[s \ {Taker(s)}]
      BY <2>1, <2>2, <2>5
    <2> QED BY <2>2, <2>3, <2>4, <2>6 DEF SumStep
  <1> QED BY <1>1, <1>5

\* What BytesToSkip adds up: nothing below the first sub-chunk, and each one
\* adds its size.
LEMMA SkipFacts ==
  ASSUME NEW v \in [Subs -> Nat]
  PROVE  /\ Skip(v, 0) = 0
         /\ \A f : Skip(v, f) \in Nat
         /\ \A f \in Subs : Skip(v, f + 1) = Skip(v, f) + v[f]
  <1>1. PICK g : Sums(g, v)
    BY SumExists
  <1>2. \A f : Skip(v, f) = g[{k \in Subs : k < f}]
    BY <1>1, SkipIs
  <1>3. Skip(v, 0) = 0
    <2>0. \A k \in Subs : k \in Nat /\ ~(k < 0)
      BY Sizes
    <2>1. {k \in Subs : k < 0} = {}
      BY <2>0
    <2>2. g[{}] = SumStep(g, v, {})
      BY <1>1 DEF Sums
    <2>3. g[{}] = 0
      BY <2>2 DEF SumStep
    <2> QED BY <1>2, <2>1, <2>3
  <1>4. ASSUME NEW f PROVE Skip(v, f) \in Nat
    <2>1. {k \in Subs : k < f} \in SUBSET Subs
      OBVIOUS
    <2>2. g[{k \in Subs : k < f}] \in Nat
      BY <1>1, <2>1 DEF Sums
    <2> QED BY <1>2, <2>2
  <1>5. ASSUME NEW f \in Subs PROVE Skip(v, f + 1) = Skip(v, f) + v[f]
    <2>1. PICK T : T = {k \in Subs : k < f + 1}
      OBVIOUS
    <2>2. PICK S : S = {k \in Subs : k < f}
      OBVIOUS
    <2>3. f \in Nat /\ \A k \in Subs : k \in Nat
      BY Sizes
    <2>4. f \in T /\ T \in SUBSET Subs
      BY <2>1, <2>3
    <2>5. T \ {f} = S
      <3>1. \A k \in Subs : k < f + 1 /\ k # f <=> k < f
        BY <2>3
      <3>2. \A k : k \in T \ {f} <=> k \in Subs /\ k < f + 1 /\ k # f
        BY <2>1
      <3>3. \A k : k \in S <=> k \in Subs /\ k < f
        BY <2>2
      <3> QED BY <3>1, <3>2, <3>3
    <2>6. g[T] = v[f] + g[T \ {f}]
      BY <1>1, <2>4, SumTakes
    <2>7. Skip(v, f + 1) = v[f] + Skip(v, f)
      BY <1>2, <2>1, <2>2, <2>5, <2>6
    <2>8. v[f] \in Nat /\ Skip(v, f) \in Nat
      BY <1>4
    <2> QED BY <2>7, <2>8
  <1> QED BY <1>3, <1>4, <1>5

\* Only the sub-chunks below f matter.
LEMMA SkipSame ==
  ASSUME NEW v \in [Subs -> Nat], NEW u \in [Subs -> Nat], NEW f,
         \A k \in Subs : k < f => u[k] = v[k]
  PROVE  Skip(u, f) = Skip(v, f)
  <1>1. PICK g : Sums(g, v)
    BY SumExists
  <1>2. PICK h : Sums(h, u)
    BY SumExists
  <1>3. h[{k \in Subs : k < f}] = g[{k \in Subs : k < f}]
    BY <1>1, <1>2, SumAgrees
  <1> QED BY <1>1, <1>2, <1>3, SkipIs

\* More sub-chunks are not less rows.
LEMMA SkipGrows ==
  ASSUME NEW v \in [Subs -> Nat], NEW e \in Nat, NEW f \in Nat, e <= f, f <= MaxSub
  PROVE  Skip(v, e) <= Skip(v, f)
  <1> DEFINE Bad == {n \in Nat : e <= n /\ n <= f /\ ~(Skip(v, e) <= Skip(v, n))}
  <1> SUFFICES ASSUME Bad # {} PROVE FALSE
    OBVIOUS
  <1>1. PICK n \in Bad : \A m \in Bad : n <= m
    BY LeastExists
  <1>2. \A m : Skip(v, m) \in Nat
    BY SkipFacts
  <1>3. n \in Nat /\ e < n /\ n <= f /\ ~(Skip(v, e) <= Skip(v, n))
    BY <1>1, <1>2
  <1>4. n - 1 \in Nat /\ e <= n - 1 /\ n - 1 <= f /\ n - 1 \notin Bad
    BY <1>1, <1>3
  <1>5. Skip(v, e) <= Skip(v, n - 1)
    BY <1>4
  <1>6. n - 1 \in Subs
    BY <1>3, <1>4, Sizes DEF Subs
  <1>7. Skip(v, n) = Skip(v, n - 1) + v[n - 1]
    <2>1. Skip(v, (n - 1) + 1) = Skip(v, n - 1) + v[n - 1]
      BY <1>6, SkipFacts
    <2>2. (n - 1) + 1 = n
      BY <1>3
    <2> QED BY <2>1, <2>2
  <1>8. v[n - 1] \in Nat
    BY <1>6
  <1>9. Skip(v, e) \in Nat /\ Skip(v, n) \in Nat /\ Skip(v, n - 1) \in Nat
    BY <1>2
  <1> QED BY <1>3, <1>5, <1>7, <1>8, <1>9

----------------------------------------------------------------------------
(* Chunks, rows and transactions.                                           *)

----------------------------------------------------------------------------
(* Chunks, rows and events.                                                 *)

\* A chunk is a data file of a part.
LEMMA ChunkShape ==
  ASSUME NEW c \in Chunks
  PROVE  /\ c[1] \in Parts /\ c[2] \in Nat /\ c[2] < NumChunks[c[1]]
         /\ c = <<c[1], c[2]>> /\ c # <<>> /\ TableOf[c[1]] \in Tables
  <1>1. PICK p \in Parts : c \in {p} \X (0..(NumChunks[p] - 1))
    BY DEF Chunks
  <1>2. NumChunks[p] \in Nat /\ TableOf[p] \in Tables
    BY LoadAssumption
  <1>3. c[1] = p /\ c[2] \in 0..(NumChunks[p] - 1) /\ c = <<c[1], c[2]>>
    BY <1>1
  <1>4. c # <<>>
    <2>1. <<c[1], c[2]>> # <<>>
      OBVIOUS
    <2> QED BY <1>3, <2>1
  <1> QED BY <1>2, <1>3, <1>4

\* The next data file of a part is a chunk.
LEMMA NextIsChunk ==
  ASSUME consumed \in [Parts -> Nat], NEW p \in Remaining
  PROVE  /\ p \in Parts /\ NextChunk(p) \in Chunks /\ NextChunk(p)[1] = p
         /\ NextChunk(p)[2] = consumed[p] /\ Untouched(NextChunk(p))
  <1>1. p \in Parts /\ consumed[p] < NumChunks[p] /\ consumed[p] \in Nat
    BY DEF Remaining
  <1>2. NumChunks[p] \in Nat
    BY <1>1, LoadAssumption
  <1>3. NextChunk(p) \in {p} \X (0..(NumChunks[p] - 1))
    BY <1>1, <1>2 DEF NextChunk
  <1>4. NextChunk(p) \in Chunks
    BY <1>1, <1>3 DEF Chunks
  <1> QED BY <1>1, <1>4 DEF NextChunk, Untouched

\* The smaller one of two numbers.
LEMMA MinOfTwo ==
  ASSUME NEW a \in Nat, NEW b \in Nat
  PROVE  Min({a, b}) = IF a <= b THEN a ELSE b
  <1>1. PICK m \in {a, b} : m = IF a <= b THEN a ELSE b
    OBVIOUS
  <1>2. m \in {a, b} /\ \A y \in {a, b} : m <= y
    BY <1>1
  <1>3. Min({a, b}) \in {a, b} /\ \A y \in {a, b} : Min({a, b}) <= y
    BY <1>2 DEF Min
  <1> QED BY <1>1, <1>2, <1>3

\* What a LOAD DATA leaves on the server.
LEMMA RowsLoaded ==
  ASSUME server \in [Chunks -> [1..NumRows -> 0..MaxCopies]],
         NEW c \in Chunks, NEW lo \in Nat, NEW hi \in Nat
  PROVE  /\ LoadRows(c, lo, hi) \in [Chunks -> [1..NumRows -> 0..MaxCopies]]
         /\ \A d \in Chunks : d # c => LoadRows(c, lo, hi)[d] = server[d]
         /\ \A r \in 1..NumRows :
              /\ r <= lo \/ r > hi => LoadRows(c, lo, hi)[c][r] = server[c][r]
              /\ ~(r <= lo \/ r > hi) /\ TableOf[c[1]] \in Pke => LoadRows(c, lo, hi)[c][r] = 1
              /\ ~(r <= lo \/ r > hi) => LoadRows(c, lo, hi)[c][r] > 0
              /\ ~(r <= lo \/ r > hi) /\ server[c][r] = 0 => LoadRows(c, lo, hi)[c][r] = 1
              /\ server[c][r] > 0 => LoadRows(c, lo, hi)[c][r] > 0
  <1>1. PICK row : row = [r \in 1..NumRows |->
                      IF r <= lo \/ r > hi THEN server[c][r]
                      ELSE IF TableOf[c[1]] \in Pke THEN 1
                           ELSE Min({server[c][r] + 1, MaxCopies})]
    OBVIOUS
  <1>2. LoadRows(c, lo, hi) = [server EXCEPT ![c] = row]
    BY <1>1 DEF LoadRows
  <1>3. LoadRows(c, lo, hi)[c] = row /\ \A d \in Chunks : d # c => LoadRows(c, lo, hi)[d] = server[d]
    BY <1>2
  <1>4. ASSUME NEW r \in 1..NumRows
        PROVE  /\ server[c][r] \in 0..2
               /\ Min({server[c][r] + 1, MaxCopies}) = IF server[c][r] = 0 THEN 1 ELSE 2
    <2>1. server[c][r] \in 0..2
      BY DEF MaxCopies
    <2>2. Min({server[c][r] + 1, 2}) = IF server[c][r] + 1 <= 2 THEN server[c][r] + 1 ELSE 2
      BY <2>1, MinOfTwo
    <2> QED BY <2>1, <2>2 DEF MaxCopies
  <1>5. ASSUME NEW r \in 1..NumRows
        PROVE  row[r] = IF r <= lo \/ r > hi THEN server[c][r]
                        ELSE IF TableOf[c[1]] \in Pke THEN 1
                        ELSE IF server[c][r] = 0 THEN 1 ELSE 2
    BY <1>1, <1>4
  <1>6. ASSUME NEW r \in 1..NumRows PROVE row[r] \in 0..MaxCopies
    <2>1. server[c][r] \in 0..2
      BY <1>4
    <2>2. row[r] \in 0..2
      BY <1>5, <2>1
    <2> QED BY <2>2 DEF MaxCopies
  <1>7. row \in [1..NumRows -> 0..MaxCopies]
    BY <1>1, <1>6
  <1>8. LoadRows(c, lo, hi) \in [Chunks -> [1..NumRows -> 0..MaxCopies]]
    BY <1>2, <1>7
  <1> QED BY <1>3, <1>4, <1>5, <1>8

\* What TRUNCATE leaves.
LEMMA RowsTruncated ==
  ASSUME server \in [Chunks -> [1..NumRows -> 0..MaxCopies]], NEW t
  PROVE  /\ Truncate(t) \in [Chunks -> [1..NumRows -> 0..MaxCopies]]
         /\ \A c \in Chunks : TableOf[c[1]] # t => Truncate(t)[c] = server[c]
         /\ \A c \in Chunks : TableOf[c[1]] = t =>
              \A r \in 1..NumRows : Truncate(t)[c][r] = 0
  BY DEF Truncate, MaxCopies

\* How many rows a transaction has.
LEMMA TrxSize ==
  ASSUME NEW w \in Workers, task[w].off \in Nat, task[w].off <= NumRows, NEW n \in TrxSizes(w)
  PROVE  /\ n \in Nat /\ task[w].off + n <= NumRows /\ n <= NumRows
         /\ MaxTrx = 0 => task[w].off + n = NumRows
         /\ n = 0 => task[w].off = NumRows
  <1>1. PICK rest \in Nat : rest = NumRows - task[w].off
    BY Sizes
  <1>2. CASE MaxTrx = 0
    BY <1>1, <1>2, Sizes DEF TrxSizes
  <1>3. CASE MaxTrx # 0
    <2>1. Min({1, rest}) = (IF 1 <= rest THEN 1 ELSE rest)
      BY MinOfTwo
    <2>2. Min({MaxTrx, rest}) = (IF MaxTrx <= rest THEN MaxTrx ELSE rest)
      BY Sizes, MinOfTwo
    <2>3. n \in Min({1, rest})..Min({MaxTrx, rest})
      BY <1>1, <1>3 DEF TrxSizes
    <2> QED BY <1>1, <1>3, <2>1, <2>2, <2>3, Sizes
  <1> QED BY <1>2, <1>3

\* How many rows a statement that fails can leave.
LEMMA KeptSize ==
  ASSUME NEW w \in Workers, task[w].off \in Nat, task[w].off <= NumRows, NEW n \in Kept(w)
  PROVE  n \in Nat /\ task[w].off + n <= NumRows
  <1>1. n = 0 \/ n \in TrxSizes(w)
    BY DEF Kept
  <1> QED BY <1>1, TrxSize

\* The sub-chunks of one more run.
LEMMA LimitGrows ==
  /\ \A n \in Nat : Limit(n) \in Nat
  /\ \A n \in Nat \ {0} : Limit(n) = Limit(n - 1) + NumRows + 1
  /\ Limit(0) = 0
  /\ \A n \in 1..MaxRuns : Limit(n) <= MaxSub
  <1>1. \A n \in Nat : Limit(n) \in Nat
    BY Sizes DEF Limit
  <1>2. ASSUME NEW n \in Nat \ {0} PROVE Limit(n) = Limit(n - 1) + NumRows + 1
    BY Sizes DEF Limit
  <1>3. ASSUME NEW n \in 1..MaxRuns PROVE Limit(n) <= MaxSub
    <2>1. PICK m \in Nat : MaxRuns = n + m
      BY Sizes
    <2>2. (NumRows + 1) * (n + m) = (NumRows + 1) * n + (NumRows + 1) * m
      BY Sizes
    <2>3. (NumRows + 1) * m \in Nat /\ (NumRows + 1) * n \in Nat
      BY Sizes
    <2> QED BY <2>1, <2>2, <2>3 DEF Limit, MaxSub
  <1>4. Limit(0) = 0
    BY Sizes DEF Limit
  <1> QED BY <1>1, <1>2, <1>3, <1>4

----------------------------------------------------------------------------
(* Queue, progress file and events.                                         *)

\* The events after one more was posted.
LEMMA Pushed ==
  ASSUME NEW q \in Seq(Events), NEW e \in Events
  PROVE  /\ Append(q, e) \in Seq(Events) /\ Len(Append(q, e)) = Len(q) + 1 /\ Len(q) \in Nat
         /\ \A i \in 1..Len(q) : Append(q, e)[i] = q[i] /\ q[i] \in Events
         /\ Append(q, e)[Len(q) + 1] = e
  BY AppendProperties, LenProperties

\* The events after the first one was handled.
LEMMA Popped ==
  ASSUME NEW q \in Seq(Events), q # <<>>
  PROVE  /\ Tail(q) \in Seq(Events) /\ Len(Tail(q)) = Len(q) - 1 /\ Len(q) \in Nat
         /\ Len(q) >= 1 /\ Head(q) = q[1] /\ q[1] \in Events
         /\ \A i \in 1..Len(Tail(q)) : i + 1 \in 2..Len(q) /\ Tail(q)[i] = q[i + 1]
         /\ \A i \in 1..Len(q) : q[i] \in Events
  <1>1. Len(q) \in Nat /\ Len(q) >= 1
    BY EmptySeq, LenProperties
  <1>2. Tail(q) \in Seq(Events) /\ Len(Tail(q)) = Len(q) - 1
    BY HeadTailProperties
  <1>3. \A i \in 1..Len(Tail(q)) : Tail(q)[i] = q[i + 1]
    BY HeadTailProperties
  <1>4. Head(q) = q[1] /\ \A i \in 1..Len(q) : q[i] \in Events
    BY HeadTailProperties
  <1>5. 1 \in 1..Len(q)
    BY <1>1
  <1> QED BY <1>1, <1>2, <1>3, <1>4, <1>5

\* A log that says nothing.
LEMMA EmptyLogIs ==
  /\ EmptyLog \in Logs
  /\ \A c \in Chunks : EmptyLog.chunk[c] = "PENDING"
  /\ \A c \in Chunks : \A k \in 0..MaxSub : EmptyLog.sub[c][k] = NotDone
  BY Sizes DEF EmptyLog, Logs

\* What is written about a chunk.
LEMMA ChunkWritten ==
  ASSUME file \in Logs, last \in Logs, NEW c \in Chunks, NEW s \in {"INTERRUPTED", "DONE"},
         LogChunk(c, s)
  PROVE  /\ file' \in Logs /\ file'.sub = file.sub /\ file'.begun = file.begun
         /\ \A d \in Chunks : d # c => file'.chunk[d] = file.chunk[d]
         /\ file'.chunk[c] = IF last.chunk[c] = "DONE" \/ file.chunk[c] = "DONE"
                             THEN file.chunk[c] ELSE s
  BY DEF LogChunk, Logs

\* What is written about a sub-chunk.
LEMMA SubWritten ==
  ASSUME file \in Logs, last \in Logs, NEW c \in Chunks, NEW k \in 0..MaxSub,
         NEW n \in 0..NumRows, LogSubchunk(c, k, n)
  PROVE  /\ file' \in Logs /\ file'.chunk = file.chunk /\ file'.begun = file.begun
         /\ \A d \in Chunks : d # c => file'.sub[d] = file.sub[d]
         /\ \A j \in 0..MaxSub : j # k => file'.sub[c][j] = file.sub[c][j]
         /\ file'.sub[c][k] = IF last.sub[c][k] # NotDone THEN file.sub[c][k] ELSE n
  <1>1. n \in 0..NotDone
    BY Sizes
  <1> QED BY <1>1 DEF LogSubchunk, Logs

\* What a worker posts.
LEMMA EventIs ==
  ASSUME TypeOK, NEW w \in Workers,
         NEW t \in {"READY", "LOAD_START", "LOAD_SUBCHUNK_END", "LOAD_END",
                    "FATAL_ERROR", "EXIT"}
  PROVE  /\ Event(t, w) \in Events /\ Event(t, w).type = t /\ Event(t, w).worker = w
         /\ Event(t, w).sub = task[w].sub /\ Event(t, w).bytes = task[w].trx
  <1>1. task[w] \in LoadTasks
    BY DEF TypeOK
  <1>2. task[w].sub \in 0..MaxSub /\ task[w].trx \in 0..NumRows
    BY <1>1 DEF LoadTasks
  <1> QED BY <1>2 DEF Event, Events

\* A sequence of no events.
LEMMA NoEvents == <<>> \in Seq(Events) /\ Len(<<>>) = 0
  OBVIOUS

\* The types when the process is gone.
LEMMA EndTypes ==
  ASSUME TypeOK, EndProcess, UNCHANGED <<created, file, runs>>,
         server' \in [Chunks -> [1..NumRows -> 0..MaxCopies]],
         mpc' \in {"down", "complete"}
  PROVE  TypeOK'
  <1>1. NoTask \in LoadTasks
    BY Sizes DEF NoTask, LoadTasks
  <1>2. last' \in Logs
    BY EmptyLogIs DEF EndProcess
  <1>3. queue' \in Seq(Events)
    BY NoEvents DEF EndProcess
  <1>4. task' \in [Workers -> LoadTasks]
    BY <1>1 DEF EndProcess
  <1>5. wpc' \in [Workers -> {"ready", "wait", "given", "prepare", "load", "report", "end",
                            "exited"}]
    BY DEF EndProcess
  <1>6. /\ consumed' \in [Parts -> Nat] /\ live' \subseteq Workers /\ idle' \subseteq Workers
        /\ interrupt' \in BOOLEAN
    BY DEF EndProcess
  <1>7. /\ created' \in BOOLEAN /\ file' \in Logs /\ runs' \in 1..MaxRuns
    BY DEF TypeOK
  <1> QED BY <1>2, <1>3, <1>4, <1>5, <1>6, <1>7 DEF TypeOK

\* The event that is handled.
LEMMA Handled ==
  ASSUME TypeOK, NEW t, Handling(t)
  PROVE  /\ mpc = "load" /\ queue # <<>> /\ queue \in Seq(Events) /\ Head(queue) = queue[1]
         /\ queue[1] \in Events /\ queue[1].worker \in Workers /\ queue[1].type = t
         /\ 1 \in 1..Len(queue) /\ queue[1].sub \in 0..MaxSub /\ queue[1].bytes \in 0..NumRows
         /\ task[queue[1].worker] \in LoadTasks
  <1>1. queue # <<>> /\ mpc = "load" /\ Head(queue).type = t /\ queue \in Seq(Events)
    BY DEF Handling, TypeOK
  <1>2. Head(queue) = queue[1] /\ queue[1] \in Events /\ Len(queue) \in Nat /\ Len(queue) >= 1
    BY <1>1, Popped
  <1>3. queue[1].worker \in Workers /\ queue[1].sub \in 0..MaxSub /\ queue[1].bytes \in 0..NumRows
    BY <1>2 DEF Events
  <1>4. task[queue[1].worker] \in LoadTasks
    BY <1>3 DEF TypeOK
  <1> QED BY <1>1, <1>2, <1>3, <1>4

----------------------------------------------------------------------------
(* Steps, and what they leave alone.                                        *)

----------------------------------------------------------------------------
(* The steps of the threads, one by one.                                    *)

\* The workers' places.
WorkerPlaces == {"ready", "wait", "given", "prepare", "load", "report", "end", "exited"}

\* HandleLoadEvent, in one form for the three events.
LEMMA LoadEventCases ==
  ASSUME TypeOK, Taken, HandleLoadEvent
  PROVE  \E t \in LoadEvents : \E c \in Chunks :
           /\ Handling(t) /\ c = task[queue[1].worker].chunk /\ queue' = Tail(queue)
           /\ UNCHANGED <<server, created, runs, mpc, last, consumed, live, idle, interrupt,
                          wpc, task>>
           /\ t = "LOAD_START" => LogChunk(c, "INTERRUPTED")
           /\ t = "LOAD_END" => LogChunk(c, "DONE")
           /\ t = "LOAD_SUBCHUNK_END" => LogSubchunk(c, queue[1].sub, queue[1].bytes)
  <1>1. PICK e : e = Head(queue)
    OBVIOUS
  <1>2. PICK t \in LoadEvents :
          /\ Handling(t)
          /\ t = "LOAD_START" => LogChunk(task[e.worker].chunk, "INTERRUPTED")
          /\ t = "LOAD_END" => LogChunk(task[e.worker].chunk, "DONE")
          /\ t = "LOAD_SUBCHUNK_END" => LogSubchunk(task[e.worker].chunk, e.sub, e.bytes)
    BY <1>1 DEF HandleLoadEvent, LoadEvents
  <1>3. e = queue[1] /\ 1 \in 1..Len(queue) /\ queue[1].type = t
        /\ task[queue[1].worker] \in LoadTasks
    BY <1>1, <1>2, Handled
  <1>4. task[queue[1].worker].chunk \in Chunks
    BY <1>3 DEF Taken, LoadTasks
  <1>5. /\ queue' = Tail(queue)
        /\ UNCHANGED <<server, created, runs, mpc, last, consumed, live, idle, interrupt, wpc,
                       task>>
    BY DEF HandleLoadEvent, serverVars, mainVars
  <1> QED BY <1>2, <1>3, <1>4, <1>5

\* What no worker changes, and what it keeps of its own.
LEMMA WorkerKeeps ==
  ASSUME TypeOK, NEW w \in Workers, WorkerStep(w)
  PROVE  /\ UNCHANGED <<created, file, runs, mpc, last, consumed, live, idle>>
         /\ mpc \in {"load", "join"} /\ wpc[w] \notin {"wait", "exited"}
         /\ \A v \in Workers : v # w => wpc'[v] = wpc[v] /\ task'[v] = task[v]
         /\ task'[w].chunk = task[w].chunk /\ task'[w].resume = task[w].resume
         /\ wpc' \in [Workers -> WorkerPlaces]
  <1>0. task \in [Workers -> LoadTasks] /\ wpc \in [Workers -> WorkerPlaces]
    BY DEF TypeOK, WorkerPlaces
  <1>a. task[w] \in LoadTasks
    BY <1>0
  <1> USE <1>0, <1>a DEF LoadTasks, WorkerPlaces, Running, serverVars, mainVars
  <1>1. CASE WReady(w)
    BY <1>1 DEF WReady
  <1>2. CASE WStart(w)
    BY <1>2 DEF WStart
  <1>3. CASE WPrepare(w)
    BY <1>3 DEF WPrepare
  <1>4. CASE WCommit(w)
    BY <1>4 DEF WCommit
  <1>5. CASE WReport(w)
    BY <1>5 DEF WReport
  <1>6. CASE WEnd(w)
    BY <1>6 DEF WEnd
  <1>7. CASE WFail(w)
    BY <1>7 DEF WFail
  <1> QED BY <1>1, <1>2, <1>3, <1>4, <1>5, <1>6, <1>7 DEF WorkerStep

\* The task of a worker that loads.
LEMMA TaskOf ==
  ASSUME Base, NEW w \in Workers, Busy(w)
  PROVE  /\ task[w] \in LoadTasks /\ task[w].chunk \in Chunks /\ task[w].off \in Nat
         /\ task[w].sub \in 0..MaxSub /\ task[w].trx \in 0..NumRows
         /\ task[w].resume \in BOOLEAN
  <1>1. task[w] \in LoadTasks
    BY DEF Base, TypeOK
  <1>2. task[w].chunk # <<>>
    BY DEF Base, Taken
  <1> QED BY <1>1, <1>2 DEF LoadTasks

\* The sub-chunks of a chunk that was not taken in this run are the ones that
\* the run found in the file: it resumes after the last one.
LEMMA FirstIs ==
  ASSUME Base, mpc = "load", NEW c \in Chunks, Untouched(c),
         NEW v \in [0..MaxSub -> 0..NotDone], NEW f \in 0..MaxSub, SubView(c, v, f)
  PROVE  /\ last.sub[c] = v /\ FirstSubchunk(c) = f /\ BytesToSkip(c) = Skip(v, f)
  <1>1. file.sub[c] = last.sub[c] /\ Log = file
    BY DEF Base, LogKept, Log
  <1>2. \A i \in 1..Len(queue) : ~EventAt(i, "LOAD_SUBCHUNK_END", c)
    <2> SUFFICES ASSUME NEW i \in 1..Len(queue), EventAt(i, "LOAD_SUBCHUNK_END", c) PROVE FALSE
      OBVIOUS
    <2>1. queue[i] \in Events
      BY DEF Base, TypeOK
    <2>2. queue[i].worker \in Workers
      BY <2>1 DEF Events
    <2>3. c # <<>> /\ task[queue[i].worker].chunk = c
      BY ChunkShape DEF EventAt
    <2> QED BY <2>2, <2>3 DEF Base, Taken
  <1>3. last.sub[c] \in [0..MaxSub -> 0..NotDone]
    BY DEF Base, TypeOK, Logs
  <1>4. ASSUME NEW k \in 0..MaxSub PROVE last.sub[c][k] = v[k]
    BY <1>1, <1>2 DEF SubView
  <1>5. last.sub[c] = v
    <2>1. PICK u \in [0..MaxSub -> 0..NotDone] : u = last.sub[c]
      BY <1>3
    <2>2. \A k \in 0..MaxSub : u[k] = v[k]
      BY <1>4, <2>1
    <2>3. u = v
      <3>1. u = [k \in 0..MaxSub |-> u[k]] /\ v = [k \in 0..MaxSub |-> v[k]]
        OBVIOUS
      <3>2. [k \in 0..MaxSub |-> u[k]] = [k \in 0..MaxSub |-> v[k]]
        BY <2>2
      <3> QED BY <3>1, <3>2
    <2> QED BY <2>1, <2>3
  <1>6. FirstSubchunk(c) = f
    <2>1. PICK S : S = {k \in 0..MaxSub : last.sub[c][k] = NotDone}
      OBVIOUS
    <2>2. f \in S /\ \A k \in S : f <= k
      BY <1>5, <2>1, Sizes DEF SubView
    <2>3. FirstSubchunk(c) = Min(S)
      BY <2>1 DEF FirstSubchunk
    <2>4. Min(S) \in S /\ \A k \in S : Min(S) <= k
      BY <2>2 DEF Min
    <2>5. Min(S) \in Nat /\ f \in Nat
      BY <2>1, <2>4, Sizes
    <2> QED BY <2>2, <2>3, <2>4, <2>5
  <1>7. BytesToSkip(c) = Skip(last.sub[c], FirstSubchunk(c))
    BY DEF BytesToSkip, Skip
  <1> QED BY <1>5, <1>6, <1>7

\* The sizes of sub-chunks are numbers to add up.
LEMMA SkipIsNat ==
  ASSUME NEW v \in [0..MaxSub -> 0..NotDone]
  PROVE  v \in [Subs -> Nat] /\ \A f : Skip(v, f) \in Nat
  <1>1. v \in [Subs -> Nat]
    BY Sizes DEF Subs
  <1> QED BY <1>1, SkipFacts

\* ScheduleChunk, with its choices named.
Scheduled(w, c, off, sub) ==
  /\ Handling("READY") /\ ~interrupt /\ w = queue[1].worker
  /\ last.chunk[c] # "DONE" /\ Untouched(c) /\ c[1] \in Remaining /\ c[1] \in Parts
  /\ c[2] = consumed[c[1]]
  /\ consumed' = [consumed EXCEPT ![c[1]] = @ + 1]
  /\ off = (IF last.chunk[c] = "INTERRUPTED" THEN BytesToSkip(c) ELSE 0)
  /\ sub = (IF last.chunk[c] = "INTERRUPTED" THEN FirstSubchunk(c) ELSE 0)
  /\ task' = [task EXCEPT ![w] =
                [chunk |-> c, resume |-> last.chunk[c] = "INTERRUPTED",
                 off |-> off, sub |-> sub, trx |-> 0]]
  /\ wpc' = [wpc EXCEPT ![w] = "given"] /\ queue' = Tail(queue)
  /\ UNCHANGED <<server, created, file, runs, mpc, last, live, idle, interrupt>>

\* A resumed task begins within what is known of the chunk.
LEMMA ScheduledTask ==
  ASSUME Base, ScheduleChunk
  PROVE  \E w \in Workers, c \in Chunks, off \in Nat, sub \in 0..MaxSub :
           Scheduled(w, c, off, sub)
  <1>1. PICK w : w = Head(queue).worker
    OBVIOUS
  <1>2. PICK p \in Remaining :
          /\ last.chunk[NextChunk(p)] # "DONE"
          /\ consumed' = [consumed EXCEPT ![p] = @ + 1]
          /\ task' = [task EXCEPT ![w] =
               [chunk |-> NextChunk(p), resume |-> last.chunk[NextChunk(p)] = "INTERRUPTED",
                off |-> IF last.chunk[NextChunk(p)] = "INTERRUPTED"
                        THEN BytesToSkip(NextChunk(p)) ELSE 0,
                sub |-> IF last.chunk[NextChunk(p)] = "INTERRUPTED"
                        THEN FirstSubchunk(NextChunk(p)) ELSE 0,
                trx |-> 0]]
          /\ wpc' = [wpc EXCEPT ![w] = "given"]
    BY <1>1 DEF ScheduleChunk
  <1>3. Handling("READY") /\ ~interrupt /\ queue' = Tail(queue)
        /\ UNCHANGED <<server, created, file, runs, mpc, last, live, idle, interrupt>>
    BY DEF ScheduleChunk, serverVars
  <1>4. w \in Workers /\ w = queue[1].worker /\ mpc = "load"
    BY <1>1, <1>3, Handled DEF Base
  <1>5. consumed \in [Parts -> Nat]
    BY DEF Base, TypeOK
  <1>6. PICK c \in Chunks : c = NextChunk(p)
    BY <1>5, NextIsChunk
  <1>7. Untouched(c) /\ c[1] = p /\ p \in Parts /\ c[2] = consumed[p]
    BY <1>5, <1>6, NextIsChunk
  <1>8. PICK v \in [0..MaxSub -> 0..NotDone], f \in 0..MaxSub : SubchunkInv(c, v, f)
    BY DEF Base, SubChunks
  <1>9. FirstSubchunk(c) = f /\ BytesToSkip(c) = Skip(v, f)
    BY <1>4, <1>7, <1>8, FirstIs DEF SubchunkInv
  <1>10. FirstSubchunk(c) \in 0..MaxSub /\ BytesToSkip(c) \in Nat
    BY <1>9, SkipIsNat
  <1>11. PICK off \in Nat : off = (IF last.chunk[c] = "INTERRUPTED" THEN BytesToSkip(c) ELSE 0)
    BY <1>10
  <1>12. PICK sub \in 0..MaxSub :
           sub = (IF last.chunk[c] = "INTERRUPTED" THEN FirstSubchunk(c) ELSE 0)
    BY <1>10, Sizes
  <1>13. task' = [task EXCEPT ![w] =
                    [chunk |-> c, resume |-> last.chunk[c] = "INTERRUPTED",
                     off |-> off, sub |-> sub, trx |-> 0]]
    BY <1>2, <1>6, <1>11, <1>12
  <1>14. consumed' = [consumed EXCEPT ![c[1]] = @ + 1] /\ wpc' = [wpc EXCEPT ![w] = "given"]
    BY <1>2, <1>7
  <1>15. Scheduled(w, c, off, sub)
    BY <1>2, <1>3, <1>4, <1>6, <1>7, <1>11, <1>12, <1>13, <1>14 DEF Scheduled
  <1> QED BY <1>4, <1>6, <1>11, <1>12, <1>15

----------------------------------------------------------------------------
(* The types.                                                               *)

\* Before and after loading.
LEMMA TypesApart ==
  ASSUME TypeOK, RunsLeft,
         ReadLog \/ RewriteLog \/ CheckObjects \/ Begin \/ Restart \/ Interrupt \/ MainError
  PROVE  TypeOK'
  <1> USE DEF TypeOK, serverVars, mainVars
  <1>1. CASE ReadLog
    BY <1>1, EmptyLogIs DEF ReadLog
  <1>2. CASE RewriteLog
    BY <1>2 DEF RewriteLog
  <1>3. CASE CheckObjects
    BY <1>3 DEF CheckObjects
  <1>4. CASE Begin
    <2>1. file' \in Logs
      BY <1>4 DEF Begin, Logs
    <2> QED BY <1>4, <2>1 DEF Begin
  <1>5. CASE Restart
    <2>1. runs' \in 1..MaxRuns
      BY <1>5, Sizes DEF Restart, RunsLeft
    <2> QED BY <1>5, <2>1 DEF Restart
  <1>6. CASE Interrupt
    BY <1>6 DEF Interrupt
  <1>7. CASE MainError
    BY <1>7 DEF MainError
  <1> QED BY <1>1, <1>2, <1>3, <1>4, <1>5, <1>6, <1>7

\* LOAD DATA keeps the type of the server.
LEMMA LoadRowsType ==
  ASSUME Base, NEW w \in Workers, Busy(w), NEW n \in Nat
  PROVE  LoadRows(task[w].chunk, task[w].off, task[w].off + n)
           \in [Chunks -> [1..NumRows -> 0..MaxCopies]]
  <1>1. task[w].chunk \in Chunks /\ task[w].off \in Nat /\ task[w].off + n \in Nat
    BY TaskOf
  <1> QED BY <1>1, RowsLoaded DEF Base, TypeOK

\* A crash leaves a chunk as it was, or with some rows of the statement that was
\* loading it.
LEMMA CrashRows ==
  ASSUME Base, Crash, NEW c \in Chunks
  PROVE  \/ server'[c] = server[c]
         \/ \E w \in Workers : \E n \in Nat :
              /\ wpc[w] = "load" /\ task[w].chunk = c /\ task[w].off + n <= NumRows
              /\ server'[c] = LoadRows(c, task[w].off, task[w].off + n)[c]
  <1>1. server'[c] \in RowsLeft(c)
    BY DEF Crash
  <1>2. CASE server'[c] = server[c]
    BY <1>2
  <1>3. CASE server'[c] # server[c]
    <2>1. PICK w \in Workers : /\ wpc[w] = "load" /\ task[w].chunk = c
            /\ server'[c] \in {LoadRows(c, task[w].off, task[w].off + n)[c] : n \in Kept(w)}
      BY <1>1, <1>3 DEF RowsLeft
    <2>2. PICK n \in Kept(w) : server'[c] = LoadRows(c, task[w].off, task[w].off + n)[c]
      BY <2>1
    <2>3. task[w].off \in Nat
      BY <2>1, TaskOf DEF Busy
    <2>4. task[w].off <= NumRows
      BY <2>1 DEF Base, OffsetInv
    <2>5. n \in Nat /\ task[w].off + n <= NumRows
      BY <2>3, <2>4, KeptSize
    <2> QED BY <2>1, <2>2, <2>5
  <1> QED BY <1>2, <1>3

\* The end of a run.
LEMMA TypesEnd ==
  ASSUME Base, Finish \/ Join \/ Crash
  PROVE  TypeOK'
  <1>1. EndProcess /\ UNCHANGED <<created, file, runs>> /\ mpc' \in {"down", "complete"}
    BY DEF Finish, Join, Crash, serverVars
  <1>2. server' \in [Chunks -> [1..NumRows -> 0..MaxCopies]]
    <2>1. CASE Finish \/ Join
      BY <2>1 DEF Finish, Join, serverVars, Base, TypeOK
    <2>2. CASE Crash
      <3>1. ASSUME NEW c \in Chunks PROVE server'[c] \in [1..NumRows -> 0..MaxCopies]
        <4>0. server[c] \in [1..NumRows -> 0..MaxCopies]
          BY DEF Base, TypeOK
        <4>1. ASSUME NEW w \in Workers, wpc[w] = "load", task[w].chunk = c, NEW n \in Nat
              PROVE  LoadRows(c, task[w].off, task[w].off + n)[c] \in [1..NumRows -> 0..MaxCopies]
          BY <4>1, LoadRowsType DEF Busy
        <4> QED BY <2>2, <4>0, <4>1, CrashRows
      <3>2. server' \in [Chunks -> UNION {RowsLeft(c) : c \in Chunks}]
        BY <2>2 DEF Crash
      <3> QED BY <3>1, <3>2
    <2> QED BY <2>1, <2>2
  <1> QED BY <1>1, <1>2, EndTypes DEF Base

\* handle_worker_events().
LEMMA TypesHandle ==
  ASSUME Base,
         SkipChunk \/ ScheduleChunk \/ NothingToDo \/ HandleLoadEvent \/ HandleExit
  PROVE  TypeOK'
  <1>0. TypeOK /\ consumed \in [Parts -> Nat]
    BY DEF Base, TypeOK
  <1>1. CASE SkipChunk
    <2>1. PICK p \in Remaining : consumed' = [consumed EXCEPT ![p] = @ + 1]
      BY <1>1 DEF SkipChunk
    <2>2. consumed' \in [Parts -> Nat]
      BY <1>0, <2>1, NextIsChunk
    <2> QED BY <1>0, <1>1, <2>2 DEF SkipChunk, TypeOK, serverVars
  <1>2. CASE ScheduleChunk
    <2>1. PICK w \in Workers, c \in Chunks, off \in Nat, sub \in 0..MaxSub :
            Scheduled(w, c, off, sub)
      BY <1>2, ScheduledTask
    <2>2. consumed' \in [Parts -> Nat]
      BY <1>0, <2>1 DEF Scheduled
    <2>3. PICK b \in BOOLEAN : b = (last.chunk[c] = "INTERRUPTED")
      OBVIOUS
    <2>4. [chunk |-> c, resume |-> b, off |-> off, sub |-> sub, trx |-> 0] \in LoadTasks
      BY Sizes DEF LoadTasks
    <2>5. [chunk |-> c, resume |-> last.chunk[c] = "INTERRUPTED", off |-> off, sub |-> sub,
           trx |-> 0] \in LoadTasks
      BY <2>3, <2>4, Zenon
    <2>6. task' \in [Workers -> LoadTasks]
      BY <1>0, <2>1, <2>5 DEF Scheduled, TypeOK
    <2>7. queue' \in Seq(Events)
      BY <1>0, <2>1, Handled, Popped DEF Scheduled
    <2>8. wpc' \in [Workers -> {"ready", "wait", "given", "prepare", "load", "report", "end",
                              "exited"}]
      BY <1>0, <2>1 DEF Scheduled, TypeOK
    <2>9. UNCHANGED <<server, created, file, runs, mpc, last, live, idle, interrupt>>
      BY <2>1 DEF Scheduled
    <2> QED BY <1>0, <2>2, <2>6, <2>7, <2>8, <2>9 DEF TypeOK
  <1>3. CASE NothingToDo
    <2>1. Handling("READY") /\ queue' = Tail(queue) /\ idle' = idle \cup {Head(queue).worker}
      BY <1>3 DEF NothingToDo
    <2>2. queue' \in Seq(Events) /\ idle' \subseteq Workers
      BY <1>0, <2>1, Handled, Popped DEF TypeOK
    <2> QED BY <1>0, <1>3, <2>2 DEF NothingToDo, TypeOK, serverVars
  <1>4. CASE HandleLoadEvent
    <2>1. PICK t \in LoadEvents, c \in Chunks :
           /\ Handling(t) /\ c = task[queue[1].worker].chunk /\ queue' = Tail(queue)
           /\ UNCHANGED <<server, created, runs, mpc, last, consumed, live, idle, interrupt,
                          wpc, task>>
           /\ t = "LOAD_START" => LogChunk(c, "INTERRUPTED")
           /\ t = "LOAD_END" => LogChunk(c, "DONE")
           /\ t = "LOAD_SUBCHUNK_END" => LogSubchunk(c, queue[1].sub, queue[1].bytes)
      BY <1>4, LoadEventCases DEF Base
    <2>2. queue' \in Seq(Events) /\ queue[1].sub \in 0..MaxSub /\ queue[1].bytes \in 0..NumRows
      BY <1>0, <2>1, Handled, Popped
    <2>3. file \in Logs /\ last \in Logs
      BY <1>0 DEF TypeOK
    <2>4. file' \in Logs
      <3>1. CASE t = "LOAD_SUBCHUNK_END"
        BY <2>1, <2>2, <2>3, <3>1, SubWritten
      <3>2. CASE t = "LOAD_START"
        BY <2>1, <2>3, <3>2, ChunkWritten
      <3>3. CASE t = "LOAD_END"
        BY <2>1, <2>3, <3>3, ChunkWritten
      <3> QED BY <3>1, <3>2, <3>3 DEF LoadEvents
    <2> QED BY <1>0, <2>1, <2>2, <2>4 DEF TypeOK
  <1>5. CASE HandleExit
    <2>1. PICK t : Handling(t)
      BY <1>5 DEF HandleExit
    <2>2. queue' = Tail(queue) /\ live' \subseteq live
      BY <1>5 DEF HandleExit
    <2>3. queue' \in Seq(Events)
      BY <1>0, <2>1, <2>2, Handled, Popped
    <2> QED BY <1>0, <1>5, <2>2, <2>3 DEF HandleExit, TypeOK, serverVars
  <1> QED BY <1>1, <1>2, <1>3, <1>4, <1>5

\* The offset of a task goes back ...
LEMMA TaskStartsOver ==
  ASSUME task \in [Workers -> LoadTasks], NEW w \in Workers
  PROVE  /\ [task EXCEPT ![w].off = 0] \in [Workers -> LoadTasks]
         /\ [task EXCEPT ![w].off = 0][w].off = 0
         /\ [task EXCEPT ![w].off = 0][w].sub = task[w].sub
         /\ [task EXCEPT ![w].off = 0][w].trx = task[w].trx
  <1>1. task[w] \in LoadTasks
    OBVIOUS
  <1>2. PICK a : a = [task[w] EXCEPT !.off = 0]
    OBVIOUS
  <1>3. a \in LoadTasks /\ a.off = 0 /\ a.sub = task[w].sub /\ a.trx = task[w].trx
    BY <1>1, <1>2 DEF LoadTasks
  <1>4. [task EXCEPT ![w].off = 0] = [task EXCEPT ![w] = a]
    BY <1>2
  <1>5. [task EXCEPT ![w] = a] \in [Workers -> LoadTasks] /\ [task EXCEPT ![w] = a][w] = a
    BY <1>3
  <1> QED BY <1>3, <1>4, <1>5

\* ... or on.
LEMMA TaskLoads ==
  ASSUME task \in [Workers -> LoadTasks], NEW w \in Workers, NEW n \in 0..NumRows
  PROVE  LET new == [task EXCEPT ![w].off = @ + n, ![w].trx = n]
         IN  /\ new \in [Workers -> LoadTasks] /\ new[w].off = task[w].off + n
             /\ new[w].trx = n /\ new[w].sub = task[w].sub
  <1>1. task[w] \in LoadTasks /\ n \in Nat
    BY Sizes
  <1>a. PICK o \in Nat : o = task[w].off + n
    BY <1>1 DEF LoadTasks
  <1>b. PICK b : b = [task[w] EXCEPT !.off = o]
    OBVIOUS
  <1>c. b \in LoadTasks /\ b.off = o /\ b.sub = task[w].sub
    BY <1>1, <1>b DEF LoadTasks
  <1>2. PICK a : a = [b EXCEPT !.trx = n]
    OBVIOUS
  <1>3. a \in LoadTasks /\ a.off = o /\ a.trx = n /\ a.sub = task[w].sub
    BY <1>c, <1>2 DEF LoadTasks
  <1>d. [task EXCEPT ![w].off = @ + n] = [task EXCEPT ![w] = b]
    BY <1>a, <1>b
  <1>e. [task EXCEPT ![w] = b][w] = b
    OBVIOUS
  <1>f. [task EXCEPT ![w].off = @ + n, ![w].trx = n]
          = [[task EXCEPT ![w].off = @ + n] EXCEPT ![w].trx = n]
    OBVIOUS
  <1>g. [[task EXCEPT ![w] = b] EXCEPT ![w].trx = n]
           = [[task EXCEPT ![w] = b] EXCEPT ![w] = a]
    BY <1>2, <1>e
  <1>h. [[task EXCEPT ![w] = b] EXCEPT ![w] = a] = [task EXCEPT ![w] = a]
    OBVIOUS
  <1>4. [task EXCEPT ![w].off = @ + n, ![w].trx = n] = [task EXCEPT ![w] = a]
    BY <1>d, <1>f, <1>g, <1>h
  <1>5. [task EXCEPT ![w] = a] \in [Workers -> LoadTasks] /\ [task EXCEPT ![w] = a][w] = a
    BY <1>3
  <1> QED BY <1>a, <1>3, <1>4, <1>5

\* The workers.
LEMMA TypesWorker ==
  ASSUME Base, NEW w \in Workers, WorkerStep(w)
  PROVE  TypeOK'
  <1>0. TypeOK /\ queue \in Seq(Events) /\ task \in [Workers -> LoadTasks]
        /\ task[w] \in LoadTasks /\ server \in [Chunks -> [1..NumRows -> 0..MaxCopies]]
        /\ interrupt \in BOOLEAN
    BY DEF Base, TypeOK
  <1>1. wpc' \in [Workers -> {"ready", "wait", "given", "prepare", "load", "report", "end",
                            "exited"}]
        /\ UNCHANGED <<created, file, runs, mpc, last, consumed, live, idle>>
    BY <1>0, WorkerKeeps DEF WorkerPlaces
  <1> SUFFICES /\ server' \in [Chunks -> [1..NumRows -> 0..MaxCopies]]
               /\ interrupt' \in BOOLEAN /\ queue' \in Seq(Events)
               /\ task' \in [Workers -> LoadTasks]
    BY <1>0, <1>1 DEF TypeOK
  <1>2. CASE WReady(w)
    BY <1>0, <1>2, EventIs, Pushed DEF WReady, serverVars
  <1>3. CASE WStart(w)
    <2>1. queue' = Append(queue, Event("EXIT", w)) \/ queue' = Append(queue, Event("LOAD_START", w))
      BY <1>3 DEF WStart
    <2>a. Event("EXIT", w) \in Events
      BY <1>0, EventIs
    <2>b. Event("LOAD_START", w) \in Events
      BY <1>0, EventIs
    <2>2. queue' \in Seq(Events)
      BY <1>0, <2>1, <2>a, <2>b, Pushed
    <2> QED BY <1>0, <1>3, <2>2 DEF WStart, serverVars
  <1>4. CASE WPrepare(w)
    <2>1. server' \in [Chunks -> [1..NumRows -> 0..MaxCopies]]
      BY <1>0, <1>4, RowsTruncated DEF WPrepare
    <2>2. task' = task \/ task' = [task EXCEPT ![w].off = 0]
      BY <1>4 DEF WPrepare
    <2>3. task' \in [Workers -> LoadTasks]
      BY <1>0, <2>2, TaskStartsOver
    <2> QED BY <1>0, <1>4, <2>1, <2>3 DEF WPrepare
  <1>5. CASE WCommit(w)
    <2>1. Busy(w) /\ wpc[w] = "load"
      BY <1>5 DEF WCommit, Busy
    <2>2. task[w].off \in Nat /\ task[w].off <= NumRows
      BY <2>1, TaskOf DEF Base, OffsetInv
    <2>3. PICK n \in TrxSizes(w) :
            /\ server' = LoadRows(task[w].chunk, task[w].off, task[w].off + n)
            /\ task' = [task EXCEPT ![w].off = @ + n, ![w].trx = n]
      BY <1>5 DEF WCommit
    <2>4. n \in Nat /\ n <= NumRows
      BY <2>2, TrxSize
    <2>5. server' \in [Chunks -> [1..NumRows -> 0..MaxCopies]]
      BY <2>1, <2>3, <2>4, LoadRowsType
    <2>6. n \in 0..NumRows
      BY <2>4, Sizes
    <2>7. task' \in [Workers -> LoadTasks]
      BY <1>0, <2>2, <2>3, <2>4, <2>6, TaskLoads
    <2> QED BY <1>0, <1>5, <2>5, <2>7 DEF WCommit, serverVars
  <1>6. CASE WReport(w)
    <2>1. Busy(w) /\ wpc[w] = "report"
      BY <1>6 DEF WReport, Busy
    <2>2. PICK c \in Chunks : c = task[w].chunk
      BY <2>1, TaskOf
    <2>3. PICK v \in [0..MaxSub -> 0..NotDone], f \in 0..MaxSub : SubchunkInv(c, v, f)
      BY DEF Base, SubChunks
    <2>4. task[w].sub = f /\ f + task[w].trx <= Limit(runs - 1) + task[w].off
      BY <2>1, <2>2, <2>3 DEF SubchunkInv, SubCount
    <2>5. f + 1 \in 0..MaxSub
      <3>1. task[w].off <= NumRows
        BY <2>1 DEF Base, OffsetInv
      <3>2. task[w].off \in Nat /\ task[w].trx \in Nat
        BY <2>1, TaskOf
      <3>3. runs \in 1..MaxRuns
        BY <1>0 DEF TypeOK
      <3>4. runs - 1 \in Nat /\ runs \in Nat \ {0}
        BY <3>3, Sizes
      <3>5. Limit(runs - 1) \in Nat /\ Limit(runs) = Limit(runs - 1) + NumRows + 1
            /\ Limit(runs) <= MaxSub
        BY <3>3, <3>4, LimitGrows
      <3>6. f \in Nat
        BY <2>3, Sizes
      <3>7. NumRows \in Nat /\ MaxSub \in Nat
        BY Sizes
      <3>8. PICK o \in Nat, t \in Nat, l \in Nat :
              o = task[w].off /\ t = task[w].trx /\ l = Limit(runs - 1)
        BY <3>2, <3>5
      <3>9. f + t <= l + o /\ o <= NumRows
        BY <2>4, <3>1, <3>8
      <3>10. f + 1 <= l + NumRows + 1
        BY <3>6, <3>7, <3>9
      <3>11. Limit(runs) = l + NumRows + 1
        BY <3>5, <3>8
      <3> QED BY <3>5, <3>6, <3>7, <3>10, <3>11
    <2>6. task' = [task EXCEPT ![w].sub = @ + 1]
      BY <1>6 DEF WReport
    <2>7. task' \in [Workers -> LoadTasks]
      BY <1>0, <2>4, <2>5, <2>6 DEF LoadTasks
    <2>8. queue' \in Seq(Events)
      BY <1>0, <1>6, EventIs, Pushed DEF WReport
    <2> QED BY <1>0, <1>6, <2>7, <2>8 DEF WReport, serverVars
  <1>7. CASE WEnd(w)
    BY <1>0, <1>7, EventIs, Pushed DEF WEnd, serverVars
  <1>8. CASE WFail(w)
    <2>1. queue' \in Seq(Events)
      BY <1>0, <1>8, EventIs, Pushed DEF WFail
    <2>2. server' \in [Chunks -> [1..NumRows -> 0..MaxCopies]]
      <3>1. CASE UNCHANGED server
        BY <1>0, <3>1
      <3>2. CASE wpc[w] = "load" /\ \E n \in Kept(w) : server' =
                   LoadRows(task[w].chunk, task[w].off, task[w].off + n)
        <4>1. PICK n \in Kept(w) : server' = LoadRows(task[w].chunk, task[w].off, task[w].off + n)
          BY <3>2
        <4>2. task[w].off \in Nat /\ task[w].off <= NumRows
          BY <3>2, TaskOf DEF Base, OffsetInv, Busy
        <4>3. n \in Nat
          BY <4>2, KeptSize
        <4> QED BY <3>2, <4>1, <4>3, LoadRowsType DEF Busy
      <3> QED BY <1>8, <3>1, <3>2 DEF WFail
    <2>3. interrupt' \in BOOLEAN /\ task' = task
      BY <1>8 DEF WFail
    <2> QED BY <1>0, <2>1, <2>2, <2>3
  <1> QED BY <1>2, <1>3, <1>4, <1>5, <1>6, <1>7, <1>8 DEF WorkerStep

----------------------------------------------------------------------------
(* The main thread.                                                         *)

----------------------------------------------------------------------------
(* Runs.                                                                    *)

\* Where the main thread is before and after its steps.
LEMMA MainPlaces ==
  ASSUME Next
  PROVE  \/ ReadLog /\ mpc = "init" /\ mpc' = "opened"
         \/ RewriteLog /\ mpc = "opened" /\ mpc' = "check"
         \/ CheckObjects /\ mpc = "check" /\ mpc' \in {"refused", "begin"}
         \/ Begin /\ mpc = "begin" /\ mpc' = "load"
         \/ Restart /\ mpc = "down" /\ mpc' = "init"
         \/ Over /\ UNCHANGED vars
         \/ Finish /\ mpc = "load" /\ mpc' \in {"down", "complete"}
         \/ Join /\ mpc = "join" /\ mpc' = "down"
         \/ Crash /\ mpc \notin {"down", "complete", "refused"} /\ mpc' = "down"
         \/ SkipChunk /\ mpc = "load" /\ mpc' = "load"
         \/ ScheduleChunk /\ mpc = "load" /\ mpc' = "load"
         \/ NothingToDo /\ mpc = "load" /\ mpc' = "load"
         \/ HandleLoadEvent /\ mpc = "load" /\ mpc' = "load"
         \/ HandleExit /\ mpc = "load" /\ mpc' = "load"
         \/ Interrupt /\ mpc = "load" /\ mpc' = "load"
         \/ MainError /\ mpc = "load" /\ mpc' = "join"
         \/ \E w \in Workers : WorkerStep(w)
  <1>1. ASSUME MainStep
        PROVE  \/ ReadLog /\ mpc = "init" /\ mpc' = "opened"
               \/ RewriteLog /\ mpc = "opened" /\ mpc' = "check"
               \/ CheckObjects /\ mpc = "check" /\ mpc' \in {"refused", "begin"}
               \/ Begin /\ mpc = "begin" /\ mpc' = "load"
               \/ Finish /\ mpc = "load" /\ mpc' \in {"down", "complete"}
               \/ Join /\ mpc = "join" /\ mpc' = "down"
               \/ SkipChunk /\ mpc = "load" /\ mpc' = "load"
               \/ ScheduleChunk /\ mpc = "load" /\ mpc' = "load"
               \/ NothingToDo /\ mpc = "load" /\ mpc' = "load"
               \/ HandleLoadEvent /\ mpc = "load" /\ mpc' = "load"
               \/ HandleExit /\ mpc = "load" /\ mpc' = "load"
    <2> USE DEF Handling, mainVars
    <2>1. CASE ReadLog
      BY <2>1 DEF ReadLog
    <2>2. CASE RewriteLog
      BY <2>2 DEF RewriteLog
    <2>3. CASE CheckObjects
      BY <2>3 DEF CheckObjects
    <2>4. CASE Begin
      BY <2>4 DEF Begin
    <2>5. CASE Finish
      BY <2>5 DEF Finish
    <2>6. CASE Join
      BY <2>6 DEF Join
    <2>7. CASE SkipChunk
      BY <2>7 DEF SkipChunk
    <2>8. CASE ScheduleChunk
      BY <2>8 DEF ScheduleChunk
    <2>9. CASE NothingToDo
      BY <2>9 DEF NothingToDo
    <2>10. CASE HandleLoadEvent
      BY <2>10 DEF HandleLoadEvent
    <2>11. CASE HandleExit
      BY <2>11 DEF HandleExit
    <2> QED BY <1>1, <2>1, <2>2, <2>3, <2>4, <2>5, <2>6, <2>7, <2>8, <2>9, <2>10, <2>11 DEF MainStep
  <1>2. Restart => mpc = "down" /\ mpc' = "init"
    BY DEF Restart
  <1>3. Over => UNCHANGED vars
    BY DEF Over
  <1>4. Crash => mpc \notin {"down", "complete", "refused"} /\ mpc' = "down"
    BY DEF Crash
  <1>5. Interrupt => mpc = "load" /\ mpc' = "load"
    BY DEF Interrupt, mainVars
  <1>6. MainError => mpc = "load" /\ mpc' = "join"
    BY DEF MainError
  <1> QED BY <1>1, <1>2, <1>3, <1>4, <1>5, <1>6 DEF Next

\* The types hold after every step.
LEMMA TypesStep ==
  ASSUME Base, [Next]_vars
  PROVE  TypeOK'
  <1>1. CASE UNCHANGED vars
    BY <1>1 DEF vars, serverVars, mainVars, Base, TypeOK
  <1>2. CASE Next
    <2>1. TypeOK /\ RunsLeft
      BY DEF Base
    <2>2. CASE Over
      BY <1>1, <2>2 DEF Over
    <2> QED BY <1>2, <2>1, <2>2, TypesApart, TypesEnd, TypesHandle, TypesWorker DEF Next, MainStep
  <1> QED BY <1>1, <1>2

\* Nothing happens outside of a load.
LEMMA AtRestStep ==
  ASSUME Base, [Next]_vars
  PROVE  AtRest'
  <1>0. AtRest
    BY DEF Base
  <1>1. CASE UNCHANGED vars
    BY <1>0, <1>1 DEF vars, serverVars, mainVars, AtRest, Running
  <1>2. CASE Next /\ mpc' \in {"load", "join"}
    BY <1>2 DEF AtRest, Running
  <1>3. CASE Next /\ mpc' \notin {"load", "join"}
    <2>1. ASSUME EndProcess PROVE AtRest'
      BY <2>1 DEF EndProcess, AtRest
    <2>2. CASE Finish \/ Join \/ Crash
      BY <2>1, <2>2 DEF Finish, Join, Crash
    <2>3. CASE ReadLog \/ RewriteLog \/ CheckObjects \/ Restart
      <3>1. ~Running
        BY <2>3 DEF ReadLog, RewriteLog, CheckObjects, Restart, Running
      <3>2. UNCHANGED <<queue, live, idle, interrupt, wpc, task, consumed>>
        BY <2>3 DEF ReadLog, RewriteLog, CheckObjects, Restart
      <3> QED BY <1>0, <3>1, <3>2 DEF AtRest
    <2>4. ASSUME NEW w \in Workers, WorkerStep(w) PROVE mpc' \in {"load", "join"}
      BY <2>4, WorkerKeeps DEF Base
    <2> QED BY <1>1, <1>3, <2>2, <2>3, <2>4, MainPlaces
  <1> QED BY <1>1, <1>2, <1>3

\* A run that ends early is not the last one.
LEMMA RunsStep ==
  ASSUME Base, [Next]_vars
  PROVE  RunsLeft'
  <1>0. RunsLeft /\ AtRest /\ TypeOK
    BY DEF Base
  <1>1. CASE UNCHANGED vars
    BY <1>0, <1>1 DEF vars, serverVars, mainVars, RunsLeft
  <1>2. CASE ReadLog \/ RewriteLog \/ CheckObjects \/ Begin
    <2>1. UNCHANGED <<runs, interrupt>> /\ mpc' \notin {"down", "join"}
      BY <1>2 DEF ReadLog, RewriteLog, CheckObjects, Begin
    <2> QED BY <1>0, <2>1 DEF RunsLeft
  <1>3. CASE Restart
    <2>1. mpc = "down" /\ mpc' = "init" /\ interrupt' = interrupt
      BY <1>3 DEF Restart
    <2>2. interrupt = FALSE
      BY <1>0, <2>1 DEF AtRest, Running
    <2>3. ~interrupt'
      BY <2>1, <2>2, Zenon
    <2> QED BY <2>1, <2>3 DEF RunsLeft
  <1>4. CASE Finish \/ Join \/ Crash
    <2>1. runs' = runs
      BY <1>4 DEF Finish, Join, Crash
    <2>2. interrupt' = FALSE
      BY <1>4 DEF Finish, Join, Crash, EndProcess
    <2>3. mpc' = "down" => runs < MaxRuns
      BY <1>0, <1>4 DEF Finish, Join, Crash, RunsLeft
    <2>4. mpc' # "join"
      BY <1>4 DEF Finish, Join, Crash
    <2>5. ~interrupt'
      BY <2>2, Zenon
    <2> QED BY <2>1, <2>3, <2>4, <2>5 DEF RunsLeft
  <1>5. CASE SkipChunk \/ ScheduleChunk \/ NothingToDo \/ HandleLoadEvent \/ HandleExit
    <2>1. UNCHANGED <<runs, interrupt, mpc>>
      BY <1>5 DEF SkipChunk, ScheduleChunk, NothingToDo, HandleLoadEvent, HandleExit, mainVars
    <2> QED BY <1>0, <2>1 DEF RunsLeft
  <1>6. CASE Interrupt \/ MainError
    BY <1>6 DEF Interrupt, MainError, RunsLeft
  <1>7. ASSUME NEW w \in Workers, WorkerStep(w) PROVE RunsLeft'
    <2>1. UNCHANGED <<runs, mpc>>
      BY <1>0, <1>7, WorkerKeeps
    <2>2. interrupt' = interrupt \/ runs < MaxRuns
      BY <1>7 DEF WorkerStep, WReady, WStart, WPrepare, WCommit, WReport, WEnd, WFail
    <2> QED BY <1>0, <2>1, <2>2 DEF RunsLeft
  <1> QED BY <1>1, <1>2, <1>3, <1>4, <1>5, <1>6, <1>7, MainPlaces

----------------------------------------------------------------------------
(* The events of a worker, and where it is.                                 *)

----------------------------------------------------------------------------
(* The events.                                                              *)

\* The order of the events that are left.
LEMMA OrderPopped ==
  ASSUME TypeOK, EventOrder, queue # <<>>, queue' = Tail(queue)
  PROVE  EventOrder'
  <1>1. queue \in Seq(Events)
    BY DEF TypeOK
  <1>2. PICK n \in Nat : n = Len(queue) /\ Len(queue') = n - 1
    BY <1>1, Popped
  <1>3. \A i \in 1..(n - 1) : i + 1 \in 1..n /\ queue'[i] = queue[i + 1]
    BY <1>1, <1>2, Popped
  <1>4. ASSUME NEW i \in 1..Len(queue'), NEW j \in 1..Len(queue'), i < j,
               queue'[i].worker = queue'[j].worker
        PROVE  Follows(queue'[i], queue'[j])
    <2>1. i + 1 \in 1..Len(queue) /\ j + 1 \in 1..Len(queue) /\ i + 1 < j + 1
      BY <1>2, <1>3, <1>4
    <2>2. queue'[i] = queue[i + 1] /\ queue'[j] = queue[j + 1]
      BY <1>2, <1>3
    <2> QED BY <1>4, <2>1, <2>2 DEF EventOrder
  <1> QED BY <1>4 DEF EventOrder, Follows

\* ... and with one more.
LEMMA OrderPushed ==
  ASSUME TypeOK, EventOrder, NEW e \in Events, queue' = Append(queue, e),
         \A i \in 1..Len(queue) : queue[i].worker = e.worker => Follows(queue[i], e)
  PROVE  EventOrder'
  <1>1. queue \in Seq(Events)
    BY DEF TypeOK
  <1>2. PICK n \in Nat : n = Len(queue) /\ Len(queue') = n + 1
    BY <1>1, Pushed
  <1>3. queue'[n + 1] = e /\ \A i \in 1..n : queue'[i] = queue[i]
    BY <1>1, <1>2, Pushed
  <1>4. ASSUME NEW i \in 1..Len(queue'), NEW j \in 1..Len(queue'), i < j,
               queue'[i].worker = queue'[j].worker
        PROVE  Follows(queue'[i], queue'[j])
    <2>1. i \in 1..n /\ i \in 1..Len(queue) /\ queue'[i] = queue[i]
      BY <1>2, <1>3, <1>4
    <2>2. CASE j = n + 1
      BY <1>3, <1>4, <2>1, <2>2
    <2>3. CASE j # n + 1
      <3>1. j \in 1..Len(queue) /\ queue'[j] = queue[j]
        BY <1>2, <1>3, <2>3
      <3> QED BY <1>4, <2>1, <3>1 DEF EventOrder
    <2> QED BY <2>2, <2>3
  <1> QED BY <1>4 DEF EventOrder, Follows

\* The events that are left, and where their workers are.
LEMMA PlacePopped ==
  ASSUME TypeOK, EventPlace, queue # <<>>, queue' = Tail(queue),
         \A i \in 2..Len(queue) : wpc'[queue[i].worker] = wpc[queue[i].worker]
  PROVE  EventPlace'
  <1>1. queue \in Seq(Events)
    BY DEF TypeOK
  <1>2. ASSUME NEW i \in 1..Len(queue') PROVE wpc'[queue'[i].worker] \in Places(queue'[i].type)
    <2>1. i + 1 \in 2..Len(queue) /\ queue'[i] = queue[i + 1]
      BY <1>1, Popped
    <2>2. i + 1 \in 1..Len(queue)
      BY <2>1
    <2> QED BY <2>1, <2>2 DEF EventPlace
  <1> QED BY <1>2 DEF EventPlace, Places

\* ... and with one more.
LEMMA PlacePushed ==
  ASSUME TypeOK, EventPlace, NEW e \in Events, queue' = Append(queue, e),
         wpc'[e.worker] \in Places(e.type),
         \A v \in Workers : v # e.worker => wpc'[v] = wpc[v],
         \A i \in 1..Len(queue) : queue[i].worker = e.worker =>
           wpc'[e.worker] \in Places(queue[i].type)
  PROVE  EventPlace'
  <1>1. queue \in Seq(Events)
    BY DEF TypeOK
  <1>2. PICK n \in Nat : n = Len(queue) /\ Len(queue') = n + 1
    BY <1>1, Pushed
  <1>3. queue'[n + 1] = e /\ \A i \in 1..n : queue'[i] = queue[i] /\ queue[i] \in Events
    BY <1>1, <1>2, Pushed
  <1>4. ASSUME NEW i \in 1..Len(queue') PROVE wpc'[queue'[i].worker] \in Places(queue'[i].type)
    <2>1. CASE i = n + 1
      BY <1>3, <2>1
    <2>2. CASE i # n + 1
      <3>1. i \in 1..Len(queue) /\ queue'[i] = queue[i] /\ queue[i] \in Events
        BY <1>2, <1>3, <2>2
      <3>2. queue[i].worker \in Workers
        BY <3>1 DEF Events
      <3> QED BY <3>1, <3>2 DEF EventPlace
    <2> QED BY <2>1, <2>2
  <1> QED BY <1>4 DEF EventPlace, Places

\* A worker stays silent unless it posts.
LEMMA StaysSilent ==
  ASSUME TypeOK, NEW w, Silent(w),
         \/ queue # <<>> /\ queue' = Tail(queue)
         \/ \E e \in Events : queue' = Append(queue, e) /\ e.worker # w
         \/ queue' = queue
  PROVE  Silent(w)'
  <1>1. queue \in Seq(Events)
    BY DEF TypeOK
  <1>2. CASE queue # <<>> /\ queue' = Tail(queue)
    <2>1. ASSUME NEW i \in 1..Len(queue') PROVE queue'[i].worker # w
      <3>1. i + 1 \in 2..Len(queue) /\ queue'[i] = queue[i + 1]
        BY <1>1, <1>2, Popped
      <3>2. i + 1 \in 1..Len(queue)
        BY <3>1
      <3> QED BY <3>1, <3>2 DEF Silent
    <2> QED BY <2>1 DEF Silent
  <1>3. ASSUME NEW e \in Events, queue' = Append(queue, e), e.worker # w PROVE Silent(w)'
    <2>1. PICK n \in Nat : n = Len(queue) /\ Len(queue') = n + 1
      BY <1>1, <1>3, Pushed
    <2>2. queue'[n + 1] = e /\ \A i \in 1..n : queue'[i] = queue[i]
      BY <1>1, <1>3, <2>1, Pushed
    <2>3. ASSUME NEW i \in 1..Len(queue') PROVE queue'[i].worker # w
      <3>1. i = n + 1 \/ i \in 1..Len(queue)
        BY <2>1
      <3> QED BY <1>3, <2>1, <2>2, <3>1 DEF Silent
    <2> QED BY <2>3 DEF Silent
  <1>4. CASE queue' = queue
    BY <1>4 DEF Silent
  <1> QED BY <1>2, <1>3, <1>4

\* After READY, EXIT or FATAL_ERROR a worker has posted nothing.
LEMMA HeadLast ==
  ASSUME TypeOK, EventOrder, NEW t, Handling(t), t \notin LoadEvents
  PROVE  \A i \in 2..Len(queue) : queue[i].worker # queue[1].worker
  <1>1. queue[1].type = t /\ 1 \in 1..Len(queue) /\ queue \in Seq(Events)
    BY Handled
  <1>2. ASSUME NEW i \in 2..Len(queue), queue[i].worker = queue[1].worker PROVE FALSE
    <2>1. Len(queue) \in Nat
      BY <1>1, LenProperties
    <2>2. i \in 1..Len(queue) /\ 1 < i
      BY <2>1
    <2>3. Follows(queue[1], queue[i])
      BY <1>1, <1>2, <2>2 DEF EventOrder
    <2> QED BY <1>1, <2>3 DEF Follows
  <1> QED BY <1>2

\* ... and it is silent once that is handled.
LEMMA HeadSilent ==
  ASSUME TypeOK, EventOrder, NEW t, Handling(t), t \notin LoadEvents, queue' = Tail(queue),
         NEW w, w = queue[1].worker
  PROVE  Silent(w)'
  <1>1. queue \in Seq(Events) /\ queue # <<>>
    BY Handled
  <1>3. ASSUME NEW i \in 1..Len(queue') PROVE queue'[i].worker # w
    <2>1. i + 1 \in 2..Len(queue) /\ queue'[i] = queue[i + 1]
      BY <1>1, Popped
    <2> QED BY <2>1, HeadLast
  <1> QED BY <1>3 DEF Silent

\* Idle and forgotten workers, after a step that moves no other worker there.
LEMMA IdleKept ==
  ASSUME TypeOK, IdleSilent,
         \/ queue # <<>> /\ queue' = Tail(queue)
         \/ \E e \in Events : queue' = Append(queue, e) /\ e.worker \notin idle \cup (Workers \ live)
         \/ queue' = queue,
         \A v \in idle \cup (Workers \ live) : wpc'[v] = wpc[v],
         \A v \in idle' : v \notin idle => wpc'[v] = "wait" /\ Silent(v)',
         \A v \in Workers \ live' : v \in live => wpc'[v] = "exited" /\ Silent(v)'
  PROVE  IdleSilent'
  <1>1. ASSUME NEW v \in idle \cup (Workers \ live), Silent(v) PROVE Silent(v)'
    BY <1>1, StaysSilent
  <1>2. ASSUME NEW v \in idle' PROVE wpc'[v] = "wait" /\ Silent(v)'
    <2>1. CASE v \in idle
      BY <1>1, <2>1 DEF IdleSilent
    <2> QED BY <2>1
  <1>3. ASSUME NEW v \in Workers \ live' PROVE wpc'[v] = "exited" /\ Silent(v)'
    <2>1. CASE v \notin live
      BY <1>1, <2>1 DEF IdleSilent
    <2> QED BY <2>1
  <1>4. \A v \in idle' : wpc'[v] = "wait" /\ Silent(v)'
    BY <1>2
  <1>5. \A v \in Workers \ live' : wpc'[v] = "exited" /\ Silent(v)'
    BY <1>3
  <1> QED BY <1>4, <1>5 DEF IdleSilent

\* The main thread.
LEMMA HandshakeMain ==
  ASSUME Base,
         SkipChunk \/ ScheduleChunk \/ NothingToDo \/ HandleLoadEvent \/ HandleExit
  PROVE  Handshake'
  <1>0. TypeOK /\ EventOrder /\ EventPlace /\ IdleSilent
    BY DEF Base, Handshake
  <1>1. CASE SkipChunk
    <2>1. UNCHANGED <<queue, wpc, idle, live>>
      BY <1>1 DEF SkipChunk
    <2> QED BY <1>0, <2>1 DEF Handshake, EventOrder, EventPlace, IdleSilent, Silent, Follows
  <1>2. CASE ScheduleChunk
    <2>1. PICK w \in Workers, c \in Chunks, off \in Nat, sub \in 0..MaxSub :
            Scheduled(w, c, off, sub)
      BY <1>2, ScheduledTask
    <2>2. Handling("READY") /\ w = queue[1].worker /\ queue' = Tail(queue)
          /\ wpc' = [wpc EXCEPT ![w] = "given"] /\ UNCHANGED <<idle, live>>
      BY <2>1 DEF Scheduled
    <2>3. queue # <<>> /\ 1 \in 1..Len(queue) /\ queue \in Seq(Events)
      BY <1>0, <2>2, Handled
    <2>4. \A v \in Workers : v # w => wpc'[v] = wpc[v]
      BY <1>0, <2>2 DEF TypeOK
    <2>5. w \notin idle /\ w \notin Workers \ live
      BY <1>0, <2>2, <2>3 DEF IdleSilent, Silent
    <2>6. ASSUME NEW i \in 2..Len(queue) PROVE wpc'[queue[i].worker] = wpc[queue[i].worker]
      <3>1. queue[i].worker # w
        BY <1>0, <2>2, HeadLast DEF LoadEvents
      <3>2. i \in 1..Len(queue) /\ queue[i] \in Events
        BY <2>3, Popped
      <3>3. queue[i].worker \in Workers
        BY <3>2 DEF Events
      <3> QED BY <2>4, <3>1, <3>3
    <2>7. EventOrder'
      BY <1>0, <2>2, <2>3, OrderPopped
    <2>8. EventPlace'
      BY <1>0, <2>2, <2>3, <2>6, PlacePopped
    <2>9. \A v \in idle \cup (Workers \ live) : v \in Workers /\ v # w
      BY <1>0, <2>5 DEF TypeOK
    <2>10. IdleSilent'
      BY <1>0, <2>2, <2>3, <2>4, <2>9, IdleKept
    <2> QED BY <2>7, <2>8, <2>10 DEF Handshake
  <1>3. CASE NothingToDo
    <2>1. PICK w : w = queue[1].worker
      OBVIOUS
    <2>2. Handling("READY") /\ queue' = Tail(queue) /\ UNCHANGED <<wpc, live>>
          /\ idle' = idle \cup {Head(queue).worker}
      BY <1>3 DEF NothingToDo
    <2>3. queue # <<>> /\ 1 \in 1..Len(queue) /\ Head(queue) = queue[1] /\ queue[1].type = "READY"
      BY <1>0, <2>2, Handled
    <2>4. Silent(w)'
      BY <1>0, <2>1, <2>2, HeadSilent DEF LoadEvents
    <2>5. wpc[w] = "wait"
      BY <1>0, <2>1, <2>3 DEF EventPlace, Places
    <2>6. EventOrder' /\ EventPlace'
      BY <1>0, <2>2, <2>3, OrderPopped, PlacePopped
    <2>7. \A v \in idle' : v \notin idle => v = w
      BY <2>1, <2>2, <2>3
    <2>8. \A v \in idle' : v \notin idle => wpc'[v] = "wait" /\ Silent(v)'
      BY <2>2, <2>4, <2>5, <2>7
    <2>9. \A v \in idle \cup (Workers \ live) : wpc'[v] = wpc[v]
      BY <2>2
    <2>10. \A v \in Workers \ live' : v \in live => wpc'[v] = "exited" /\ Silent(v)'
      BY <2>2
    <2>11. IdleSilent'
      BY <1>0, <2>2, <2>3, <2>8, <2>9, <2>10, IdleKept
    <2> QED BY <2>6, <2>11 DEF Handshake
  <1>4. CASE HandleLoadEvent
    <2>1. PICK t : Handling(t)
      BY <1>4 DEF HandleLoadEvent
    <2>2. queue' = Tail(queue) /\ UNCHANGED <<wpc, live, idle>>
      BY <1>4 DEF HandleLoadEvent, mainVars
    <2>3. queue # <<>>
      BY <1>0, <2>1, Handled
    <2>4. EventOrder' /\ EventPlace'
      BY <1>0, <2>2, <2>3, OrderPopped, PlacePopped
    <2>5. IdleSilent'
      BY <1>0, <2>2, <2>3, IdleKept
    <2> QED BY <2>4, <2>5 DEF Handshake
  <1>5. CASE HandleExit
    <2>1. PICK w : w = queue[1].worker
      OBVIOUS
    <2>2. PICK t \in {"FATAL_ERROR", "EXIT"} : Handling(t)
      BY <1>5 DEF HandleExit
    <2>3. queue # <<>> /\ 1 \in 1..Len(queue) /\ Head(queue) = queue[1] /\ queue[1].type = t
      BY <1>0, <2>2, Handled
    <2>4. queue' = Tail(queue) /\ UNCHANGED <<wpc, idle>> /\ live' = live \ {w}
      BY <1>5, <2>1, <2>3 DEF HandleExit
    <2>5. Silent(w)'
      BY <1>0, <2>1, <2>2, <2>4, HeadSilent DEF LoadEvents
    <2>6. wpc[w] = "exited"
      BY <1>0, <2>1, <2>2, <2>3 DEF EventPlace, Places
    <2>7. EventOrder' /\ EventPlace'
      BY <1>0, <2>3, <2>4, OrderPopped, PlacePopped
    <2>8. \A v \in Workers \ live' : v \in live => v = w
      BY <2>4
    <2>9. \A v \in Workers \ live' : v \in live => wpc'[v] = "exited" /\ Silent(v)'
      BY <2>4, <2>5, <2>6, <2>8
    <2>10. \A v \in idle \cup (Workers \ live) : wpc'[v] = wpc[v]
      BY <2>4
    <2>11. \A v \in idle' : v \notin idle => wpc'[v] = "wait" /\ Silent(v)'
      BY <2>4
    <2>12. IdleSilent'
      BY <1>0, <2>3, <2>4, <2>9, <2>10, <2>11, IdleKept
    <2> QED BY <2>7, <2>12 DEF Handshake
  <1> QED BY <1>1, <1>2, <1>3, <1>4, <1>5

\* A worker posts an event.
LEMMA HandshakePush ==
  ASSUME Base, NEW w \in Workers, WorkerStep(w),
         NEW t \in {"READY", "LOAD_START", "LOAD_SUBCHUNK_END", "LOAD_END",
                    "FATAL_ERROR", "EXIT"},
         queue' = Append(queue, Event(t, w)), wpc'[w] \in Places(t),
         \A i \in 1..Len(queue) : queue[i].worker = w =>
           Follows(queue[i], Event(t, w)) /\ wpc'[w] \in Places(queue[i].type)
  PROVE  Handshake'
  <1>0. TypeOK /\ EventOrder /\ EventPlace /\ IdleSilent
    BY DEF Base, Handshake
  <1>1. PICK e \in Events : e = Event(t, w) /\ e.worker = w /\ e.type = t
    BY <1>0, EventIs
  <1>2. /\ \A v \in Workers : v # w => wpc'[v] = wpc[v] /\ wpc[w] \notin {"wait", "exited"}
        /\ UNCHANGED <<idle, live>>
    BY <1>0, WorkerKeeps
  <1>3. wpc[w] \notin {"wait", "exited"}
    BY <1>0, WorkerKeeps
  <1>4. EventOrder'
    BY <1>0, <1>1, OrderPushed
  <1>5. EventPlace'
    BY <1>0, <1>1, <1>2, PlacePushed
  <1>6. w \notin idle \cup (Workers \ live)
    BY <1>0, <1>3 DEF IdleSilent
  <1>7. \A v \in idle \cup (Workers \ live) : wpc'[v] = wpc[v]
    BY <1>0, <1>2, <1>6 DEF TypeOK
  <1>8. IdleSilent'
    BY <1>0, <1>1, <1>2, <1>6, <1>7, IdleKept
  <1> QED BY <1>4, <1>5, <1>8 DEF Handshake

\* A worker goes on without an event.
LEMMA HandshakeMove ==
  ASSUME Base, NEW w \in Workers, WorkerStep(w), queue' = queue,
         \A i \in 1..Len(queue) : queue[i].worker = w => wpc'[w] \in Places(queue[i].type)
  PROVE  Handshake'
  <1>0. TypeOK /\ EventOrder /\ EventPlace /\ IdleSilent
    BY DEF Base, Handshake
  <1>2. /\ \A v \in Workers : v # w => wpc'[v] = wpc[v]
        /\ UNCHANGED <<idle, live>> /\ wpc[w] \notin {"wait", "exited"}
    BY <1>0, WorkerKeeps
  <1>4. EventOrder'
    BY <1>0 DEF EventOrder, Follows
  <1>5. EventPlace'
    <2>1. ASSUME NEW i \in 1..Len(queue) PROVE wpc'[queue[i].worker] \in Places(queue[i].type)
      <3>1. queue[i] \in Events
        BY <1>0 DEF TypeOK
      <3>2. queue[i].worker \in Workers
        BY <3>1 DEF Events
      <3> QED BY <1>0, <1>2, <3>2 DEF EventPlace
    <2> QED BY <2>1 DEF EventPlace, Places
  <1>6. w \notin idle \cup (Workers \ live)
    BY <1>0, <1>2 DEF IdleSilent
  <1>7. \A v \in idle \cup (Workers \ live) : wpc'[v] = wpc[v]
    BY <1>0, <1>2, <1>6 DEF TypeOK
  <1>8. IdleSilent'
    BY <1>0, <1>2, <1>7, IdleKept
  <1> QED BY <1>4, <1>5, <1>8 DEF Handshake

\* The events of a worker, from where it is.
LEMMA EventsOf ==
  ASSUME Base, NEW w \in Workers, NEW i \in 1..Len(queue), queue[i].worker = w
  PROVE  /\ queue[i] \in Events /\ wpc[w] \in Places(queue[i].type)
         /\ wpc[w] # "given"
         /\ wpc[w] = "prepare" => queue[i].type = "LOAD_START"
         /\ wpc[w] \in {"load", "report", "end"} => queue[i].type \in {"LOAD_START", "LOAD_SUBCHUNK_END"}
         /\ wpc[w] = "ready" => queue[i].type \in LoadEvents
  <1>1. queue[i] \in Events
    BY DEF Base, TypeOK
  <1>2. wpc[w] \in Places(queue[i].type)
    BY DEF Base, Handshake, EventPlace
  <1>3. queue[i].type \in LoadEvents \cup {"READY", "FATAL_ERROR", "EXIT"}
    BY <1>1 DEF Events, LoadEvents
  <1> QED BY <1>1, <1>2, <1>3 DEF Places, LoadEvents

\* The sub-chunks that a worker has posted come before its next one.
LEMMA EarlierSubs ==
  ASSUME Base, NEW w \in Workers, wpc[w] \in {"load", "report"},
         NEW i \in 1..Len(queue), queue[i].worker = w, queue[i].type = "LOAD_SUBCHUNK_END"
  PROVE  queue[i].sub < task[w].sub
  <1>1. PICK c \in Chunks : c = task[w].chunk
    BY TaskOf DEF Busy
  <1>2. PICK v \in [0..MaxSub -> 0..NotDone], f \in 0..MaxSub : SubchunkInv(c, v, f)
    BY DEF Base, SubChunks
  <1>3. task[w].sub = f
    BY <1>1, <1>2 DEF SubchunkInv, SubCount
  <1>4. EventAt(i, "LOAD_SUBCHUNK_END", c)
    BY <1>1 DEF EventAt
  <1> QED BY <1>2, <1>3, <1>4 DEF SubchunkInv, SubView

\* The workers.
LEMMA HandshakeWorker ==
  ASSUME Base, NEW w \in Workers, WorkerStep(w)
  PROVE  Handshake'
  <1>0. TypeOK /\ wpc \in [Workers -> WorkerPlaces]
    BY DEF Base, TypeOK, WorkerPlaces
  <1>1. CASE WReady(w)
    <2>1. wpc[w] = "ready" /\ wpc'[w] = "wait" /\ queue' = Append(queue, Event("READY", w))
      BY <1>0, <1>1 DEF WReady
    <2>2. Event("READY", w).type = "READY" /\ wpc'[w] \in Places("READY")
      BY <1>0, <2>1, EventIs DEF Places
    <2>3. ASSUME NEW i \in 1..Len(queue), queue[i].worker = w
          PROVE  Follows(queue[i], Event("READY", w)) /\ wpc'[w] \in Places(queue[i].type)
      BY <2>1, <2>2, <2>3, EventsOf DEF Follows, LoadEvents, Places
    <2> QED BY <2>1, <2>2, <2>3, HandshakePush
  <1>2. CASE WStart(w)
    <2>1. wpc[w] = "given"
      BY <1>2 DEF WStart
    <2>2. \A i \in 1..Len(queue) : queue[i].worker # w
      BY <2>1, EventsOf
    <2>3. PICK t \in {"EXIT", "LOAD_START"} :
             /\ queue' = Append(queue, Event(t, w))
             /\ wpc'[w] = IF t = "EXIT" THEN "exited" ELSE "prepare"
      BY <1>0, <1>2 DEF WStart
    <2>4. wpc'[w] \in Places(t)
      BY <2>3 DEF Places
    <2> QED BY <2>2, <2>3, <2>4, HandshakePush
  <1>3. CASE WPrepare(w)
    <2>1. wpc[w] = "prepare" /\ wpc'[w] = "load" /\ queue' = queue
      BY <1>0, <1>3 DEF WPrepare
    <2>2. ASSUME NEW i \in 1..Len(queue), queue[i].worker = w
          PROVE  wpc'[w] \in Places(queue[i].type)
      BY <2>1, <2>2, EventsOf DEF Places
    <2> QED BY <2>1, <2>2, HandshakeMove
  <1>4. CASE WCommit(w)
    <2>1. wpc[w] = "load" /\ wpc'[w] \in {"end", "report"} /\ queue' = queue
      BY <1>0, <1>4 DEF WCommit
    <2>2. ASSUME NEW i \in 1..Len(queue), queue[i].worker = w
          PROVE  wpc'[w] \in Places(queue[i].type)
      BY <2>1, <2>2, EventsOf DEF Places
    <2> QED BY <2>1, <2>2, HandshakeMove
  <1>5. CASE WReport(w)
    <2>1. wpc[w] = "report" /\ wpc'[w] \in {"end", "load"}
          /\ queue' = Append(queue, Event("LOAD_SUBCHUNK_END", w))
      BY <1>0, <1>5 DEF WReport
    <2>2. /\ Event("LOAD_SUBCHUNK_END", w).type = "LOAD_SUBCHUNK_END"
          /\ Event("LOAD_SUBCHUNK_END", w).sub = task[w].sub
          /\ wpc'[w] \in Places("LOAD_SUBCHUNK_END")
      BY <1>0, <2>1, EventIs DEF Places
    <2>3. ASSUME NEW i \in 1..Len(queue), queue[i].worker = w
          PROVE  Follows(queue[i], Event("LOAD_SUBCHUNK_END", w)) /\ wpc'[w] \in Places(queue[i].type)
      <3>1. queue[i].type \in {"LOAD_START", "LOAD_SUBCHUNK_END"}
        BY <2>1, <2>3, EventsOf
      <3>2. queue[i].type = "LOAD_SUBCHUNK_END" => queue[i].sub < task[w].sub
        BY <2>1, <2>3, EarlierSubs
      <3> QED BY <2>1, <2>2, <3>1, <3>2 DEF Follows, LoadEvents, Places
    <2> QED BY <2>1, <2>2, <2>3, HandshakePush
  <1>6. CASE WEnd(w)
    <2>1. wpc[w] = "end" /\ wpc'[w] = "ready" /\ queue' = Append(queue, Event("LOAD_END", w))
      BY <1>0, <1>6 DEF WEnd
    <2>2. Event("LOAD_END", w).type = "LOAD_END" /\ wpc'[w] \in Places("LOAD_END")
      BY <1>0, <2>1, EventIs DEF Places
    <2>3. ASSUME NEW i \in 1..Len(queue), queue[i].worker = w
          PROVE  Follows(queue[i], Event("LOAD_END", w)) /\ wpc'[w] \in Places(queue[i].type)
      BY <2>1, <2>2, <2>3, EventsOf DEF Follows, LoadEvents, Places
    <2> QED BY <2>1, <2>2, <2>3, HandshakePush
  <1>7. CASE WFail(w)
    <2>1. wpc[w] \in {"prepare", "load"} /\ wpc'[w] = "exited"
          /\ queue' = Append(queue, Event("FATAL_ERROR", w))
      BY <1>0, <1>7 DEF WFail
    <2>2. Event("FATAL_ERROR", w).type = "FATAL_ERROR" /\ wpc'[w] \in Places("FATAL_ERROR")
      BY <1>0, <2>1, EventIs DEF Places
    <2>3. ASSUME NEW i \in 1..Len(queue), queue[i].worker = w
          PROVE  Follows(queue[i], Event("FATAL_ERROR", w)) /\ wpc'[w] \in Places(queue[i].type)
      BY <2>1, <2>2, <2>3, EventsOf DEF Follows, LoadEvents, Places
    <2> QED BY <2>1, <2>2, <2>3, HandshakePush
  <1> QED BY <1>1, <1>2, <1>3, <1>4, <1>5, <1>6, <1>7 DEF WorkerStep

\* A process that is gone.
LEMMA EndIs ==
  ASSUME EndProcess
  PROVE  /\ queue' = <<>> /\ Len(queue') = 0 /\ live' = Workers /\ idle' = {}
         /\ last' = EmptyLog /\ \A p \in Parts : consumed'[p] = 0
         /\ \A w \in Workers : wpc'[w] = "ready" /\ task'[w] = NoTask
         /\ \A w \in Workers : task'[w].chunk = <<>> /\ ~Busy(w)'
         /\ ~interrupt'
  <1>1. /\ queue' = <<>> /\ live' = Workers /\ idle' = {} /\ last' = EmptyLog
        /\ \A p \in Parts : consumed'[p] = 0
        /\ \A w \in Workers : wpc'[w] = "ready" /\ task'[w] = NoTask
    BY DEF EndProcess
  <1>2. \A w \in Workers : task'[w].chunk = <<>> /\ ~Busy(w)'
    BY <1>1 DEF NoTask, Busy
  <1>3. interrupt' = FALSE
    BY DEF EndProcess
  <1>4. ~interrupt'
    BY <1>3, Zenon
  <1> QED BY <1>1, <1>2, <1>4, NoEvents

\* The order and the places of the events hold after every step.
LEMMA HandshakeStep ==
  ASSUME Base, [Next]_vars
  PROVE  Handshake'
  <1>0. Handshake
    BY DEF Base
  <1>1. ASSUME UNCHANGED <<queue, wpc, idle, live>> PROVE Handshake'
    BY <1>0, <1>1 DEF Handshake, EventOrder, EventPlace, IdleSilent, Silent, Follows
  <1>2. CASE UNCHANGED vars
    BY <1>1, <1>2 DEF vars, mainVars
  <1>3. CASE ReadLog \/ RewriteLog \/ CheckObjects \/ Begin \/ Restart \/ Interrupt \/ MainError
    <2>1. UNCHANGED <<queue, wpc, idle, live>>
      BY <1>3 DEF ReadLog, RewriteLog, CheckObjects, Begin, Restart, Interrupt, MainError, mainVars
    <2> QED BY <1>1, <2>1
  <1>4. CASE Finish \/ Join \/ Crash
    <2>1. EndProcess
      BY <1>4 DEF Finish, Join, Crash
    <2> QED BY <2>1, EndIs DEF Handshake, EventOrder, EventPlace, IdleSilent
  <1> QED BY <1>2, <1>3, <1>4, HandshakeMain, HandshakeWorker, MainPlaces

----------------------------------------------------------------------------
(* Chunks and their workers.                                                *)

\* The chunk and the other facts about a task that a worker was given.
LEMMA GivenTask ==
  ASSUME TypeOK, NEW w \in Workers, NEW c \in Chunks, NEW off \in Nat, NEW sub \in 0..MaxSub,
         Scheduled(w, c, off, sub)
  PROVE  /\ task'[w].chunk = c /\ task'[w].off = off /\ task'[w].sub = sub /\ task'[w].trx = 0
         /\ task'[w].resume <=> last.chunk[c] = "INTERRUPTED"
         /\ wpc'[w] = "given" /\ \A v \in Workers : v # w => task'[v] = task[v] /\ wpc'[v] = wpc[v]
         /\ consumed'[c[1]] = consumed[c[1]] + 1
         /\ \A p \in Parts : p # c[1] => consumed'[p] = consumed[p]
         /\ mpc = "load" /\ mpc' = "load" /\ queue # <<>> /\ queue \in Seq(Events)
         /\ queue' = Tail(queue) /\ 1 \in 1..Len(queue) /\ queue[1].worker = w
         /\ queue[1].type = "READY"
  <1>1. PICK a : a = [chunk |-> c, resume |-> last.chunk[c] = "INTERRUPTED",
                      off |-> off, sub |-> sub, trx |-> 0]
    OBVIOUS
  <1>2. a.chunk = c /\ a.off = off /\ a.sub = sub /\ a.trx = 0
    BY <1>1
  <1>3. a.resume <=> last.chunk[c] = "INTERRUPTED"
    BY <1>1, Zenon
  <1>4. task' = [task EXCEPT ![w] = a]
    BY <1>1 DEF Scheduled
  <1>5. task'[w] = a /\ \A v \in Workers : v # w => task'[v] = task[v]
    BY <1>4 DEF TypeOK
  <1>6. wpc'[w] = "given" /\ \A v \in Workers : v # w => wpc'[v] = wpc[v]
    BY DEF Scheduled, TypeOK
  <1>7. /\ consumed'[c[1]] = consumed[c[1]] + 1
        /\ \A p \in Parts : p # c[1] => consumed'[p] = consumed[p]
    BY DEF Scheduled, TypeOK
  <1>8. Handling("READY") /\ queue' = Tail(queue) /\ w = queue[1].worker /\ mpc' = mpc
    BY DEF Scheduled
  <1>9. mpc = "load" /\ queue # <<>> /\ queue \in Seq(Events) /\ 1 \in 1..Len(queue)
        /\ queue[1].type = "READY"
    BY <1>8, Handled
  <1>10. task'[w].chunk = c /\ task'[w].off = off /\ task'[w].sub = sub /\ task'[w].trx = 0
    BY <1>2, <1>5
  <1>11. task'[w].resume <=> last.chunk[c] = "INTERRUPTED"
    BY <1>3, <1>5, Zenon
  <1> QED BY <1>5, <1>6, <1>7, <1>8, <1>9, <1>10, <1>11

----------------------------------------------------------------------------
(* Who loads what.                                                          *)

AllEvents == {"READY", "LOAD_START", "LOAD_SUBCHUNK_END", "LOAD_END", "FATAL_ERROR", "EXIT"}

\* What a worker's step posts, if anything.
LEMMA WorkerPosts ==
  ASSUME TypeOK, NEW w \in Workers, WorkerStep(w)
  PROVE  /\ Busy(w)' => Busy(w)
         /\ \/ queue' = queue
            \/ \E t \in AllEvents :
                 queue' = Append(queue, Event(t, w)) /\ (t \in LoadEvents => Busy(w))
  <1>0. wpc \in [Workers -> WorkerPlaces]
    BY DEF TypeOK, WorkerPlaces
  <1> USE <1>0 DEF Busy, AllEvents, LoadEvents
  <1>1. CASE WReady(w)
    BY <1>1 DEF WReady
  <1>2. CASE WStart(w)
    BY <1>2 DEF WStart
  <1>3. CASE WPrepare(w)
    BY <1>3 DEF WPrepare
  <1>4. CASE WCommit(w)
    BY <1>4 DEF WCommit
  <1>5. CASE WReport(w)
    BY <1>5 DEF WReport
  <1>6. CASE WEnd(w)
    BY <1>6 DEF WEnd
  <1>7. CASE WFail(w)
    BY <1>7 DEF WFail
  <1> QED BY <1>1, <1>2, <1>3, <1>4, <1>5, <1>6, <1>7 DEF WorkerStep

\* The queue with one more event of a worker.
LEMMA PushedBy ==
  ASSUME TypeOK, NEW w \in Workers, NEW t \in AllEvents, queue' = Append(queue, Event(t, w))
  PROVE  /\ Len(queue) \in Nat /\ Len(queue') = Len(queue) + 1
         /\ \A i \in 1..Len(queue) : i \in 1..Len(queue') /\ queue'[i] = queue[i]
         /\ \A i \in 1..Len(queue') : i \in 1..Len(queue) \/ i = Len(queue) + 1
         /\ Len(queue) + 1 \in 1..Len(queue')
         /\ queue'[Len(queue) + 1].type = t /\ queue'[Len(queue) + 1].worker = w
         /\ queue'[Len(queue) + 1].sub = task[w].sub
         /\ queue'[Len(queue) + 1].bytes = task[w].trx
  <1>1. queue \in Seq(Events)
    BY DEF TypeOK
  <1>2. /\ Event(t, w) \in Events /\ Event(t, w).type = t /\ Event(t, w).worker = w
        /\ Event(t, w).sub = task[w].sub /\ Event(t, w).bytes = task[w].trx
    BY EventIs DEF AllEvents
  <1>3. PICK n \in Nat : n = Len(queue) /\ Len(queue') = n + 1
    BY <1>1, <1>2, Pushed
  <1>4. queue'[n + 1] = Event(t, w) /\ \A i \in 1..n : queue'[i] = queue[i]
    BY <1>1, <1>2, <1>3, Pushed
  <1>5. \A i \in 1..Len(queue) : i \in 1..Len(queue')
    BY <1>3
  <1>6. \A i \in 1..Len(queue') : i \in 1..Len(queue) \/ i = Len(queue) + 1
    BY <1>3
  <1>7. Len(queue) + 1 \in 1..Len(queue')
    BY <1>3
  <1> QED BY <1>2, <1>3, <1>4, <1>5, <1>6, <1>7

\* The queue without its first event.
LEMMA PoppedOne ==
  ASSUME TypeOK, queue # <<>>, queue' = Tail(queue)
  PROVE  /\ Len(queue) \in Nat /\ Len(queue') = Len(queue) - 1
         /\ \A i \in 1..Len(queue') : i + 1 \in 2..Len(queue) /\ i + 1 \in 1..Len(queue)
                                      /\ queue'[i] = queue[i + 1]
         /\ \A i \in 2..Len(queue) : i - 1 \in 1..Len(queue') /\ queue'[i - 1] = queue[i]
         /\ \A i \in 1..Len(queue) : i = 1 \/ i \in 2..Len(queue)
  <1>1. queue \in Seq(Events)
    BY DEF TypeOK
  <1>2. PICK n \in Nat : n = Len(queue) /\ Len(queue') = n - 1 /\ n >= 1
    BY <1>1, Popped
  <1>3. \A i \in 1..(n - 1) : i + 1 \in 2..n /\ queue'[i] = queue[i + 1]
    BY <1>1, <1>2, Popped
  <1>4. ASSUME NEW i \in 2..n PROVE i - 1 \in 1..(n - 1) /\ queue'[i - 1] = queue[i]
    <2>1. i - 1 \in 1..(n - 1) /\ (i - 1) + 1 = i
      BY <1>2
    <2>2. queue'[i - 1] = queue[(i - 1) + 1]
      BY <1>3, <2>1
    <2> QED BY <2>1, <2>2
  <1>5. \A i \in 1..n : i = 1 \/ i \in 2..n
    OBVIOUS
  <1>6. \A i \in 1..(n - 1) : i + 1 \in 1..n
    OBVIOUS
  <1> QED BY <1>2, <1>3, <1>4, <1>5, <1>6

\* A chunk that was taken is not given back.
LEMMA StaysTouched ==
  ASSUME TypeOK, NEW d \in Chunks, ~Untouched(d),
         consumed'[d[1]] = consumed[d[1]] \/ consumed'[d[1]] = consumed[d[1]] + 1
  PROVE  ~Untouched(d)'
  <1>1. d[1] \in Parts /\ d[2] \in Nat
    BY ChunkShape
  <1>2. consumed[d[1]] \in Nat
    BY <1>1 DEF TypeOK
  <1> QED BY <1>1, <1>2 DEF Untouched

\* The worker of every event is a worker.
LEMMA EventWorker ==
  ASSUME TypeOK, NEW i \in 1..Len(queue)
  PROVE  queue[i] \in Events /\ queue[i].worker \in Workers
  <1>1. queue[i] \in Events
    BY DEF TypeOK
  <1> QED BY <1>1 DEF Events

\* A chunk is given to one worker.
LEMMA TakenStep ==
  ASSUME Base, [Next]_vars
  PROVE  Taken'
  <1>0. Taken /\ TypeOK /\ AtRest
    BY DEF Base
  <1>1. ASSUME UNCHANGED <<task, wpc, queue, consumed, last>> PROVE Taken'
    BY <1>0, <1>1 DEF Taken, Busy, Untouched
  <1>2. CASE UNCHANGED vars
    BY <1>1, <1>2 DEF vars, mainVars
  <1>3. CASE RewriteLog \/ CheckObjects \/ Begin \/ Restart \/ Interrupt \/ MainError
    <2>1. UNCHANGED <<task, wpc, queue, consumed, last>>
      BY <1>3 DEF RewriteLog, CheckObjects, Begin, Restart, Interrupt, MainError, mainVars
    <2> QED BY <1>1, <2>1
  <1>4. CASE ReadLog
    <2>1. UNCHANGED <<task, wpc, queue>> /\ ~Running
      BY <1>4 DEF ReadLog, Running
    <2>2. queue = <<>> /\ \A w \in Workers : wpc[w] = "ready" /\ task[w] = NoTask
      BY <1>0, <2>1 DEF AtRest
    <2>3. \A w \in Workers : task'[w].chunk = <<>> /\ ~Busy(w)'
      BY <2>1, <2>2 DEF NoTask, Busy
    <2>4. Len(queue') = 0
      BY <2>1, <2>2, NoEvents
    <2> QED BY <2>3, <2>4 DEF Taken
  <1>5. CASE Finish \/ Join \/ Crash
    <2>1. EndProcess
      BY <1>5 DEF Finish, Join, Crash
    <2> QED BY <2>1, EndIs DEF Taken
  <1>6. CASE SkipChunk
    <2>1. PICK p \in Remaining : consumed' = [consumed EXCEPT ![p] = @ + 1]
      BY <1>6 DEF SkipChunk
    <2>2. UNCHANGED <<task, wpc, queue, last>>
      BY <1>6 DEF SkipChunk
    <2>3. \A q \in Parts : consumed'[q] = consumed[q] \/ consumed'[q] = consumed[q] + 1
      BY <1>0, <2>1 DEF TypeOK
    <2>4. ASSUME NEW w \in Workers, task[w].chunk # <<>> PROVE ~Untouched(task[w].chunk)'
      <3>1. task[w] \in LoadTasks
        BY <1>0 DEF TypeOK
      <3>2. PICK d \in Chunks : d = task[w].chunk
        BY <2>4, <3>1 DEF LoadTasks
      <3>3. d[1] \in Parts /\ ~Untouched(d)
        BY <1>0, <2>4, <3>2, ChunkShape DEF Taken
      <3>4. ~Untouched(d)'
        BY <1>0, <2>3, <3>3, StaysTouched
      <3> QED BY <2>2, <3>2, <3>4 DEF Untouched
    <2> QED BY <1>0, <2>2, <2>4 DEF Taken, Busy
  <1>7. CASE ScheduleChunk
    <2>1. PICK w \in Workers, c \in Chunks, off \in Nat, sub \in 0..MaxSub :
            Scheduled(w, c, off, sub)
      BY <1>7, ScheduledTask
    <2>2. /\ task'[w].chunk = c /\ \A v \in Workers : v # w => task'[v] = task[v] /\ wpc'[v] = wpc[v]
          /\ consumed'[c[1]] = consumed[c[1]] + 1
          /\ \A p \in Parts : p # c[1] => consumed'[p] = consumed[p]
          /\ queue # <<>> /\ queue' = Tail(queue) /\ queue[1].worker = w
      BY <1>0, <2>1, GivenTask
    <2>3. /\ last' = last /\ last.chunk[c] # "DONE" /\ Untouched(c) /\ Handling("READY")
          /\ c[2] = consumed[c[1]] /\ c[1] \in Parts
      BY <2>1 DEF Scheduled
    <2>4. c # <<>> /\ c[2] \in Nat
      BY ChunkShape
    <2>5. ~Untouched(c)'
      BY <2>2, <2>3, <2>4 DEF Untouched
    <2>6. ASSUME NEW v \in Workers, task'[v].chunk # <<>>
          PROVE  /\ ~Untouched(task[v].chunk)' /\ last'.chunk[task'[v].chunk] # "DONE"
                 /\ v # w => task'[v].chunk # c
      <3>1. CASE v = w
        BY <2>2, <2>3, <2>5, <3>1 DEF Untouched
      <3>2. CASE v # w
        <4>1. task'[v] = task[v] /\ task[v] \in LoadTasks
          BY <1>0, <2>2, <3>2 DEF TypeOK
        <4>2. PICK d \in Chunks : d = task[v].chunk
          BY <2>6, <4>1 DEF LoadTasks
        <4>3. d[1] \in Parts /\ ~Untouched(d) /\ last.chunk[d] # "DONE"
          BY <1>0, <2>6, <4>1, <4>2, ChunkShape DEF Taken
        <4>4. ~Untouched(d)'
          BY <1>0, <2>2, <4>3, StaysTouched
        <4>5. d # c
          BY <2>3, <4>3
        <4> QED BY <2>3, <4>1, <4>2, <4>3, <4>4, <4>5 DEF Untouched
      <3> QED BY <3>1, <3>2
    <2>7. ASSUME NEW v \in Workers, Busy(v)' PROVE task'[v].chunk # <<>>
      BY <1>0, <2>2, <2>4, <2>7 DEF Taken, Busy
    <2>8. ASSUME NEW i \in 1..Len(queue'), queue'[i].type \in LoadEvents
          PROVE  task'[queue'[i].worker].chunk # <<>>
      <3>1. i + 1 \in 2..Len(queue) /\ i + 1 \in 1..Len(queue) /\ queue'[i] = queue[i + 1]
        BY <1>0, <2>2, PoppedOne
      <3>2. queue[i + 1].worker \in Workers
        BY <1>0, <3>1, EventWorker
      <3>3. queue[i + 1].worker # w
        BY <2>2, <2>3, <3>1, HeadLast DEF LoadEvents, Base, Handshake
      <3> QED BY <1>0, <2>2, <2>8, <3>1, <3>2, <3>3 DEF Taken
    <2>9. ASSUME NEW u \in Workers, NEW v \in Workers,
                 task'[v].chunk = task'[u].chunk, task'[v].chunk # <<>>
          PROVE  v = u
      <3>1. CASE v = w \/ u = w
        BY <2>2, <2>4, <2>6, <2>9, <3>1
      <3>2. CASE v # w /\ u # w
        BY <1>0, <2>2, <2>9, <3>2 DEF Taken
      <3> QED BY <3>1, <3>2
    <2> QED BY <2>6, <2>7, <2>8, <2>9 DEF Taken
  <1>8. CASE NothingToDo \/ HandleLoadEvent \/ HandleExit
    <2>1. UNCHANGED <<task, wpc, consumed, last>> /\ queue' = Tail(queue)
      BY <1>8 DEF NothingToDo, HandleLoadEvent, HandleExit, mainVars
    <2>2. PICK t : Handling(t)
      BY <1>8 DEF NothingToDo, HandleLoadEvent, HandleExit
    <2>3. queue # <<>>
      BY <1>0, <2>2, Handled
    <2>4. ASSUME NEW i \in 1..Len(queue'), queue'[i].type \in LoadEvents
          PROVE  task'[queue'[i].worker].chunk # <<>>
      <3>1. i + 1 \in 1..Len(queue) /\ queue'[i] = queue[i + 1]
        BY <1>0, <2>1, <2>3, PoppedOne
      <3> QED BY <1>0, <2>1, <2>4, <3>1 DEF Taken
    <2> QED BY <1>0, <2>1, <2>4 DEF Taken, Busy, Untouched
  <1>9. ASSUME NEW w \in Workers, WorkerStep(w) PROVE Taken'
    <2>1. /\ UNCHANGED <<last, consumed>>
          /\ \A v \in Workers : v # w => wpc'[v] = wpc[v] /\ task'[v] = task[v]
          /\ task'[w].chunk = task[w].chunk
      BY <1>0, <1>9, WorkerKeeps
    <2>2. \A v \in Workers : task'[v].chunk = task[v].chunk
      BY <2>1
    <2>3. \A v \in Workers : Busy(v)' => Busy(v)
      BY <1>0, <1>9, <2>1, WorkerPosts DEF Busy
    <2>4. ASSUME NEW i \in 1..Len(queue'), queue'[i].type \in LoadEvents
          PROVE  task'[queue'[i].worker].chunk # <<>>
      <3>1. CASE queue' = queue
        BY <1>0, <2>2, <2>4, <3>1, EventWorker DEF Taken
      <3>2. CASE queue' # queue
        <4>1. PICK t \in AllEvents :
                queue' = Append(queue, Event(t, w)) /\ (t \in LoadEvents => Busy(w))
          BY <1>0, <1>9, <3>2, WorkerPosts
        <4>2. CASE i \in 1..Len(queue)
          BY <1>0, <2>2, <2>4, <4>1, <4>2, EventWorker, PushedBy DEF Taken
        <4>3. CASE i = Len(queue) + 1
          BY <1>0, <2>2, <2>4, <4>1, <4>3, PushedBy DEF Taken
        <4> QED BY <1>0, <4>1, <4>2, <4>3, PushedBy
      <3> QED BY <3>1, <3>2
    <2>5. \A v \in Workers : Busy(v)' => task'[v].chunk # <<>>
      BY <1>0, <2>2, <2>3 DEF Taken
    <2>6. \A v \in Workers : task'[v].chunk # <<>> =>
             ~Untouched(task[v].chunk)' /\ last'.chunk[task'[v].chunk] # "DONE"
      BY <1>0, <2>1, <2>2 DEF Taken, Untouched
    <2>7. \A u, v \in Workers : task'[u].chunk = task'[v].chunk /\ task'[u].chunk # <<>> => u = v
      BY <1>0, <2>2 DEF Taken
    <2> QED BY <2>4, <2>5, <2>6, <2>7 DEF Taken
  <1> QED BY <1>2, <1>3, <1>4, <1>5, <1>6, <1>7, <1>8, <1>9, MainPlaces

----------------------------------------------------------------------------
(* The progress file.                                                       *)

\* A run that is not loading yet.
LEMMA StillAtRest ==
  ASSUME AtRest, ReadLog \/ RewriteLog \/ CheckObjects \/ Begin \/ Restart
  PROVE  /\ queue = <<>> /\ queue' = <<>> /\ Len(queue) = 0 /\ Len(queue') = 0
         /\ \A p \in Parts : consumed'[p] = 0
         /\ \A w \in Workers : wpc'[w] = "ready" /\ task'[w] = NoTask
         /\ \A w \in Workers : task'[w].chunk = <<>> /\ ~Busy(w)'
         /\ UNCHANGED <<queue, wpc, task, consumed>>
  <1>1. ~Running
    BY DEF ReadLog, RewriteLog, CheckObjects, Begin, Restart, Running
  <1>2. UNCHANGED <<queue, wpc, task, consumed>>
    BY DEF ReadLog, RewriteLog, CheckObjects, Begin, Restart
  <1>3. /\ queue = <<>> /\ \A w \in Workers : wpc[w] = "ready" /\ task[w] = NoTask
        /\ \A p \in Parts : consumed[p] = 0
    BY <1>1 DEF AtRest
  <1>4. \A w \in Workers : task'[w].chunk = <<>> /\ ~Busy(w)'
    BY <1>2, <1>3 DEF NoTask, Busy
  <1> QED BY <1>2, <1>3, <1>4, NoEvents

\* The events about a chunk, without the first one.
LEMMA EventsPopped ==
  ASSUME TypeOK, queue # <<>>, queue' = Tail(queue),
         \A i \in 2..Len(queue) :
           task'[queue[i].worker].chunk = task[queue[i].worker].chunk,
         NEW t, NEW d
  PROVE  /\ \A i \in 1..Len(queue') : i + 1 \in 1..Len(queue) /\ queue'[i] = queue[i + 1]
              /\ (EventAt(i, t, d)' <=> EventAt(i + 1, t, d))
         /\ \A i \in 2..Len(queue) : i - 1 \in 1..Len(queue') /\ queue'[i - 1] = queue[i]
              /\ (EventAt(i - 1, t, d)' <=> EventAt(i, t, d))
         /\ Posted(t, d)' => Posted(t, d)
         /\ Posted(t, d) /\ ~EventAt(1, t, d) => Posted(t, d)'
  <1>1. ASSUME NEW i \in 1..Len(queue')
        PROVE  i + 1 \in 1..Len(queue) /\ queue'[i] = queue[i + 1]
               /\ (EventAt(i, t, d)' <=> EventAt(i + 1, t, d))
    <2>1. i + 1 \in 2..Len(queue) /\ i + 1 \in 1..Len(queue) /\ queue'[i] = queue[i + 1]
      BY PoppedOne
    <2> QED BY <2>1 DEF EventAt
  <1>2. ASSUME NEW i \in 2..Len(queue)
        PROVE  i - 1 \in 1..Len(queue') /\ queue'[i - 1] = queue[i]
               /\ (EventAt(i - 1, t, d)' <=> EventAt(i, t, d))
    <2>1. i - 1 \in 1..Len(queue') /\ queue'[i - 1] = queue[i]
      BY PoppedOne
    <2> QED BY <2>1 DEF EventAt
  <1>3. Posted(t, d)' => Posted(t, d)
    BY <1>1 DEF Posted
  <1>4. ASSUME Posted(t, d), ~EventAt(1, t, d) PROVE Posted(t, d)'
    <2>1. PICK i \in 1..Len(queue) : EventAt(i, t, d)
      BY <1>4 DEF Posted
    <2>2. i \in 2..Len(queue)
      BY <1>4, <2>1, PoppedOne
    <2>3. i - 1 \in 1..Len(queue') /\ EventAt(i - 1, t, d)'
      BY <1>2, <2>1, <2>2
    <2> QED BY <2>3 DEF Posted
  <1> QED BY <1>1, <1>2, <1>3, <1>4

\* The events about a chunk, after a worker's step.
LEMMA EventsPushed ==
  ASSUME TypeOK, NEW w \in Workers, WorkerStep(w), NEW t, NEW d
  PROVE  /\ \A i \in 1..Len(queue) : i \in 1..Len(queue') /\ queue'[i] = queue[i]
              /\ (EventAt(i, t, d)' <=> EventAt(i, t, d))
         /\ \A i \in 1..Len(queue') : i \notin 1..Len(queue) => queue'[i].worker = w
         /\ Posted(t, d) => Posted(t, d)'
         /\ Posted(t, d)' => Posted(t, d) \/ task[w].chunk = d
  <1>1. \A v \in Workers : task'[v].chunk = task[v].chunk
    BY WorkerKeeps
  <1>2. /\ \A i \in 1..Len(queue) : i \in 1..Len(queue') /\ queue'[i] = queue[i]
        /\ \A i \in 1..Len(queue') : i \notin 1..Len(queue) => queue'[i].worker = w
    <2>1. CASE queue' = queue
      BY <2>1
    <2>2. CASE queue' # queue
      <3>1. PICK e \in AllEvents : queue' = Append(queue, Event(e, w))
        BY <2>2, WorkerPosts
      <3>2. \A i \in 1..Len(queue) : i \in 1..Len(queue') /\ queue'[i] = queue[i]
        BY <3>1, PushedBy
      <3>3. \A i \in 1..Len(queue') : i \notin 1..Len(queue) => queue'[i].worker = w
        BY <3>1, PushedBy
      <3> QED BY <3>2, <3>3
    <2> QED BY <2>1, <2>2
  <1>3. ASSUME NEW i \in 1..Len(queue) PROVE EventAt(i, t, d)' <=> EventAt(i, t, d)
    <2>1. queue[i].worker \in Workers
      BY EventWorker
    <2> QED BY <1>1, <1>2, <2>1 DEF EventAt
  <1>4. Posted(t, d) => Posted(t, d)'
    BY <1>2, <1>3 DEF Posted
  <1>5. ASSUME Posted(t, d)' PROVE Posted(t, d) \/ task[w].chunk = d
    <2>1. PICK i \in 1..Len(queue') : EventAt(i, t, d)'
      BY <1>5 DEF Posted
    <2>2. CASE i \in 1..Len(queue)
      BY <1>3, <2>1, <2>2 DEF Posted
    <2>3. CASE i \notin 1..Len(queue)
      BY <1>1, <1>2, <2>1, <2>3 DEF EventAt
    <2> QED BY <2>2, <2>3
  <1> QED BY <1>2, <1>3, <1>4, <1>5

\* What a chunk's schedule leaves of the events.
LEMMA EventsScheduled ==
  ASSUME Base, NEW w \in Workers, NEW c \in Chunks, NEW off \in Nat, NEW sub \in 0..MaxSub,
         Scheduled(w, c, off, sub)
  PROVE  /\ queue # <<>> /\ queue' = Tail(queue)
         /\ \A i \in 2..Len(queue) : queue[i].worker # w
         /\ \A i \in 2..Len(queue) : task'[queue[i].worker].chunk = task[queue[i].worker].chunk
  <1>1. /\ queue # <<>> /\ queue' = Tail(queue) /\ queue[1].worker = w /\ queue \in Seq(Events)
        /\ \A v \in Workers : v # w => task'[v] = task[v]
    BY GivenTask DEF Base
  <1>2. Handling("READY")
    BY DEF Scheduled
  <1>3. \A i \in 2..Len(queue) : queue[i].worker # w
    BY <1>1, <1>2, HeadLast DEF LoadEvents, Base, Handshake
  <1>4. ASSUME NEW i \in 2..Len(queue) PROVE queue[i].worker \in Workers
    <2>1. i \in 1..Len(queue)
      BY <1>1, Popped
    <2> QED BY <2>1, EventWorker DEF Base
  <1> QED BY <1>1, <1>3, <1>4

----------------------------------------------------------------------------
(* The progress file.                                                       *)

\* The file is what the run found, and what it added.
LEMMA LogKeptStep ==
  ASSUME Base, [Next]_vars
  PROVE  LogKept'
  <1>0. LogKept /\ TypeOK /\ AtRest /\ Taken
    BY DEF Base
  <1>1. CASE UNCHANGED vars
    BY <1>0, <1>1 DEF vars, mainVars, LogKept, Untouched
  <1>2. CASE ReadLog
    <2>1. mpc' = "opened" /\ last' = file /\ file' \in {EmptyLog, file}
      BY <1>2 DEF ReadLog
    <2> QED BY <2>1 DEF LogKept
  <1>3. CASE RewriteLog
    <2>1. mpc' = "check" /\ last' = last /\ file' = last
      BY <1>3 DEF RewriteLog
    <2> QED BY <2>1 DEF LogKept
  <1>4. CASE CheckObjects
    <2>1. mpc = "check" /\ mpc' \in {"refused", "begin"} /\ UNCHANGED <<last, file, consumed>>
      BY <1>4 DEF CheckObjects
    <2> QED BY <1>0, <2>1 DEF LogKept, Untouched
  <1>5. CASE Begin
    <2>1. mpc = "begin" /\ mpc' = "load" /\ UNCHANGED <<last, consumed>>
          /\ file' = [file EXCEPT !.begun = TRUE]
      BY <1>5 DEF Begin
    <2>2. file'.chunk = file.chunk /\ file'.sub = file.sub
      BY <1>0, <2>1 DEF TypeOK, Logs
    <2> QED BY <1>0, <2>1, <2>2 DEF LogKept, Untouched
  <1>6. CASE Restart \/ Finish \/ Join \/ Crash
    <2>1. mpc' \in {"init", "down", "complete"}
      BY <1>6 DEF Restart, Finish, Join, Crash
    <2> QED BY <2>1 DEF LogKept
  <1>7. CASE NothingToDo \/ HandleExit \/ Interrupt \/ MainError
    <2>1. mpc = "load" /\ mpc' \in {"load", "join"} /\ UNCHANGED <<last, consumed, file>>
      BY <1>7 DEF NothingToDo, HandleExit, Interrupt, MainError, Handling, mainVars
    <2> QED BY <1>0, <2>1 DEF LogKept, Untouched
  <1>8. CASE SkipChunk \/ ScheduleChunk
    <2>1. mpc = "load" /\ mpc' = "load" /\ UNCHANGED <<last, file>>
      BY <1>8 DEF SkipChunk, ScheduleChunk, Handling
    <2>2. PICK p \in Remaining : consumed' = [consumed EXCEPT ![p] = @ + 1]
      BY <1>8 DEF SkipChunk, ScheduleChunk
    <2>3. \A q \in Parts : consumed'[q] = consumed[q] \/ consumed'[q] = consumed[q] + 1
      BY <1>0, <2>2 DEF TypeOK
    <2>4. ASSUME NEW c \in Chunks, Untouched(c)' PROVE Untouched(c)
      <3>1. c[1] \in Parts
        BY ChunkShape
      <3> QED BY <1>0, <2>3, <2>4, <3>1, StaysTouched
    <2> QED BY <1>0, <2>1, <2>4 DEF LogKept
  <1>9. CASE HandleLoadEvent
    <2>1. PICK t \in LoadEvents, c \in Chunks :
           /\ Handling(t) /\ c = task[queue[1].worker].chunk
           /\ UNCHANGED <<mpc, last, consumed>>
           /\ t = "LOAD_START" => LogChunk(c, "INTERRUPTED")
           /\ t = "LOAD_END" => LogChunk(c, "DONE")
           /\ t = "LOAD_SUBCHUNK_END" => LogSubchunk(c, queue[1].sub, queue[1].bytes)
      BY <1>0, <1>9, LoadEventCases
    <2>2. mpc = "load" /\ queue[1].worker \in Workers /\ queue[1].sub \in 0..MaxSub
          /\ queue[1].bytes \in 0..NumRows
      BY <1>0, <2>1, Handled
    <2>3. ~Untouched(c) /\ last.chunk[c] # "DONE"
      BY <1>0, <2>1, <2>2, ChunkShape DEF Taken
    <2>4. file \in Logs /\ last \in Logs
      BY <1>0 DEF TypeOK
    <2>a. ASSUME NEW d \in Chunks
          PROVE  /\ Untouched(d) => d # c /\ file.chunk[d] = last.chunk[d] /\ file.sub[d] = last.sub[d]
                 /\ last.chunk[d] = "DONE" => d # c /\ file.chunk[d] = "DONE"
                 /\ \A k \in 0..MaxSub :
                      last.sub[d][k] # NotDone => file.sub[d][k] = last.sub[d][k]
      BY <1>0, <2>2, <2>3 DEF LogKept
    <2>b. ASSUME \A d \in Chunks :
                   /\ Untouched(d) => file'.chunk[d] = last.chunk[d] /\ file'.sub[d] = last.sub[d]
                   /\ last.chunk[d] = "DONE" => file'.chunk[d] = "DONE"
                   /\ \A k \in 0..MaxSub :
                        last.sub[d][k] # NotDone => file'.sub[d][k] = last.sub[d][k]
          PROVE  LogKept'
      BY <2>1, <2>2, <2>b DEF LogKept, Untouched
    <2>5. CASE t \in {"LOAD_START", "LOAD_END"}
      <3>1. PICK s \in {"INTERRUPTED", "DONE"} : LogChunk(c, s)
        BY <2>1, <2>5
      <3>2. /\ file'.sub = file.sub
            /\ \A d \in Chunks : d # c => file'.chunk[d] = file.chunk[d]
        BY <2>4, <3>1, ChunkWritten
      <3> QED BY <2>a, <2>b, <3>2
    <2>6. CASE t = "LOAD_SUBCHUNK_END"
      <3>1. LogSubchunk(c, queue[1].sub, queue[1].bytes)
        BY <2>1, <2>6
      <3>2. PICK k \in 0..MaxSub : k = queue[1].sub
        BY <2>2
      <3>3. /\ file'.chunk = file.chunk
            /\ \A d \in Chunks : d # c => file'.sub[d] = file.sub[d]
            /\ \A j \in 0..MaxSub : j # k => file'.sub[c][j] = file.sub[c][j]
            /\ last.sub[c][k] # NotDone => file'.sub[c][k] = file.sub[c][k]
        BY <2>2, <2>4, <3>1, <3>2, SubWritten
      <3>4. ASSUME NEW d \in Chunks, NEW j \in 0..MaxSub, last.sub[d][j] # NotDone
            PROVE  file'.sub[d][j] = last.sub[d][j]
        <4>1. file.sub[d][j] = last.sub[d][j]
          BY <2>a, <3>4
        <4>2. file'.sub[d][j] = file.sub[d][j]
          BY <3>2, <3>3, <3>4
        <4> QED BY <4>1, <4>2
      <3> QED BY <2>a, <2>b, <3>3, <3>4
    <2> QED BY <2>5, <2>6 DEF LoadEvents
  <1>10. ASSUME NEW w \in Workers, WorkerStep(w) PROVE LogKept'
    <2>1. UNCHANGED <<file, last, consumed, mpc>>
      BY <1>0, <1>10, WorkerKeeps
    <2> QED BY <1>0, <2>1 DEF LogKept, Untouched
  <1> QED BY <1>1, <1>2, <1>3, <1>4, <1>5, <1>6, <1>7, <1>8, <1>9, <1>10, MainPlaces

\* HandleLoadEvent, with its choices named.
LogsEvent(t, c) ==
  /\ Handling(t) /\ c = task[queue[1].worker].chunk /\ queue' = Tail(queue)
  /\ UNCHANGED <<server, created, runs, mpc, last, consumed, live, idle, interrupt, wpc, task>>
  /\ t = "LOAD_START" => LogChunk(c, "INTERRUPTED")
  /\ t = "LOAD_END" => LogChunk(c, "DONE")
  /\ t = "LOAD_SUBCHUNK_END" => LogSubchunk(c, queue[1].sub, queue[1].bytes)

\* What an event adds to the file.
LEMMA EventLogged ==
  ASSUME Base, NEW t \in LoadEvents, NEW c \in Chunks, LogsEvent(t, c)
  PROVE  /\ mpc = "load" /\ mpc' = "load" /\ queue # <<>> /\ queue[1].worker \in Workers
         /\ queue[1].type = t /\ 1 \in 1..Len(queue) /\ task[queue[1].worker].chunk = c
         /\ queue[1].sub \in 0..MaxSub /\ queue[1].bytes \in 0..NumRows
         /\ ~Untouched(c) /\ last.chunk[c] # "DONE"
         /\ \A d \in Chunks : d # c => file'.chunk[d] = file.chunk[d] /\ file'.sub[d] = file.sub[d]
         /\ t = "LOAD_START" => file'.chunk[c] = (IF file.chunk[c] = "DONE" THEN "DONE" ELSE "INTERRUPTED")
                                /\ file'.sub[c] = file.sub[c]
         /\ t = "LOAD_END" => file'.chunk[c] = "DONE" /\ file'.sub[c] = file.sub[c]
         /\ t = "LOAD_SUBCHUNK_END" =>
              /\ file'.chunk[c] = file.chunk[c]
              /\ \A k \in 0..MaxSub : k # queue[1].sub => file'.sub[c][k] = file.sub[c][k]
              /\ last.sub[c][queue[1].sub] = NotDone => file'.sub[c][queue[1].sub] = queue[1].bytes
  <1>0. TypeOK /\ Taken /\ file \in Logs /\ last \in Logs
    BY DEF Base, TypeOK
  <1>1. /\ mpc = "load" /\ queue # <<>> /\ queue[1].worker \in Workers /\ queue[1].type = t
        /\ 1 \in 1..Len(queue) /\ queue[1].sub \in 0..MaxSub /\ queue[1].bytes \in 0..NumRows
    BY <1>0, Handled DEF LogsEvent
  <1>2. task[queue[1].worker].chunk = c /\ mpc' = mpc
    BY DEF LogsEvent
  <1>3. ~Untouched(c) /\ last.chunk[c] # "DONE"
    BY <1>0, <1>1, <1>2, ChunkShape DEF Taken
  <1>4. ASSUME NEW s \in {"INTERRUPTED", "DONE"}, LogChunk(c, s)
        PROVE  /\ file'.sub = file.sub /\ \A d \in Chunks : d # c => file'.chunk[d] = file.chunk[d]
               /\ file'.chunk[c] = IF file.chunk[c] = "DONE" THEN "DONE" ELSE s
    BY <1>0, <1>3, <1>4, ChunkWritten
  <1>5. CASE t = "LOAD_START"
    <2>1. LogChunk(c, "INTERRUPTED")
      BY <1>5 DEF LogsEvent
    <2> QED BY <1>1, <1>2, <1>3, <1>4, <1>5, <2>1
  <1>6. CASE t = "LOAD_END"
    <2>1. LogChunk(c, "DONE")
      BY <1>6 DEF LogsEvent
    <2> QED BY <1>1, <1>2, <1>3, <1>4, <1>6, <2>1
  <1>7. CASE t = "LOAD_SUBCHUNK_END"
    <2>1. LogSubchunk(c, queue[1].sub, queue[1].bytes)
      BY <1>7 DEF LogsEvent
    <2>2. PICK k \in 0..MaxSub, n \in 0..NumRows : k = queue[1].sub /\ n = queue[1].bytes
      BY <1>1
    <2>3. LogSubchunk(c, k, n)
      BY <2>1, <2>2
    <2>4. /\ file'.chunk = file.chunk
          /\ \A d \in Chunks : d # c => file'.sub[d] = file.sub[d]
          /\ \A j \in 0..MaxSub : j # k => file'.sub[c][j] = file.sub[c][j]
          /\ last.sub[c][k] = NotDone => file'.sub[c][k] = n
      BY <1>0, <2>3, SubWritten
    <2> QED BY <1>1, <1>2, <1>3, <1>7, <2>2, <2>4
  <1> QED BY <1>5, <1>6, <1>7 DEF LoadEvents

\* HandleLoadEvent is LogsEvent.
LEMMA SomeEventLogged ==
  ASSUME Base, HandleLoadEvent
  PROVE  \E t \in LoadEvents, c \in Chunks : LogsEvent(t, c)
  BY LoadEventCases DEF LogsEvent, Base

\* Steps of a load that leave the queue, or only take away its first event.
LEMMA MainTakes ==
  ASSUME Base,
         SkipChunk \/ NothingToDo \/ HandleExit \/ HandleLoadEvent \/ Interrupt \/ MainError
  PROVE  /\ UNCHANGED <<server, runs, last, wpc, task>> /\ mpc = "load" /\ mpc' \in {"load", "join"}
         /\ queue' = queue \/ (queue # <<>> /\ queue' = Tail(queue))
  <1>1. UNCHANGED <<server, runs, last, wpc, task>> /\ mpc' \in {"load", "join"} /\ mpc = "load"
    BY DEF SkipChunk, NothingToDo, HandleExit, HandleLoadEvent, Interrupt, MainError, Handling,
           serverVars, mainVars
  <1>2. queue' = queue \/ (queue # <<>> /\ queue' = Tail(queue))
    BY DEF SkipChunk, NothingToDo, HandleExit, HandleLoadEvent, Interrupt, MainError, Handling
  <1> QED BY <1>1, <1>2

\* The start of a chunk stays known.
LEMMA StartStaysKnown ==
  ASSUME Base, mpc \in {"load", "join"}, mpc' \in {"load", "join"}, [Next]_vars,
         NEW d \in Chunks, StartKnown(d)
  PROVE  StartKnown(d)'
  <1>0. TypeOK /\ Taken
    BY DEF Base
  <1>1. CASE UNCHANGED vars
    BY <1>1 DEF vars, mainVars, StartKnown, Posted, EventAt
  <1>2. CASE SkipChunk \/ Interrupt \/ MainError
    <2>1. UNCHANGED <<file, queue, task>>
      BY <1>2 DEF SkipChunk, Interrupt, MainError
    <2> QED BY <2>1 DEF StartKnown, Posted, EventAt
  <1>3. CASE NothingToDo \/ HandleExit
    <2>1. UNCHANGED <<file, task>> /\ queue' = Tail(queue)
      BY <1>3 DEF NothingToDo, HandleExit
    <2>2. PICK t : Handling(t) /\ t # "LOAD_START"
      BY <1>3 DEF NothingToDo, HandleExit
    <2>3. queue # <<>> /\ queue[1].type # "LOAD_START"
      BY <1>0, <2>2, Handled
    <2>4. ~EventAt(1, "LOAD_START", d)
      BY <2>3 DEF EventAt
    <2>5. Posted("LOAD_START", d) => Posted("LOAD_START", d)'
      BY <1>0, <2>1, <2>3, <2>4, EventsPopped
    <2> QED BY <2>1, <2>5 DEF StartKnown
  <1>4. CASE HandleLoadEvent
    <2>1. PICK t \in LoadEvents, c \in Chunks : LogsEvent(t, c)
      BY <1>4, SomeEventLogged
    <2>2. file.chunk[d] # "PENDING" => file'.chunk[d] # "PENDING"
      BY <2>1, EventLogged DEF LoadEvents
    <2>3. queue # <<>> /\ queue' = Tail(queue) /\ UNCHANGED task
      BY <2>1, EventLogged DEF LogsEvent
    <2>4. CASE EventAt(1, "LOAD_START", d)
      <3>1. t = "LOAD_START" /\ c = d
        BY <2>1, <2>4, EventLogged DEF EventAt
      <3>2. file'.chunk[d] # "PENDING"
        BY <2>1, <3>1, EventLogged
      <3> QED BY <3>2 DEF StartKnown
    <2>5. CASE ~EventAt(1, "LOAD_START", d)
      <3>1. Posted("LOAD_START", d) => Posted("LOAD_START", d)'
        BY <1>0, <2>3, <2>5, EventsPopped
      <3> QED BY <2>2, <3>1 DEF StartKnown
    <2> QED BY <2>4, <2>5
  <1>5. CASE ScheduleChunk
    <2>1. PICK w \in Workers, c \in Chunks, off \in Nat, sub \in 0..MaxSub :
            Scheduled(w, c, off, sub)
      BY <1>5, ScheduledTask
    <2>2. file' = file /\ queue[1].type = "READY"
      BY <1>0, <2>1, GivenTask DEF Scheduled
    <2>3. ~EventAt(1, "LOAD_START", d)
      BY <2>2 DEF EventAt
    <2>4. Posted("LOAD_START", d) => Posted("LOAD_START", d)'
      BY <1>0, <2>1, <2>3, EventsScheduled, EventsPopped
    <2> QED BY <2>2, <2>4 DEF StartKnown
  <1>6. ASSUME NEW w \in Workers, WorkerStep(w) PROVE StartKnown(d)'
    <2>1. file' = file
      BY <1>0, <1>6, WorkerKeeps
    <2>2. Posted("LOAD_START", d) => Posted("LOAD_START", d)'
      BY <1>0, <1>6, EventsPushed
    <2> QED BY <2>1, <2>2 DEF StartKnown
  <1> QED BY <1>1, <1>2, <1>3, <1>4, <1>5, <1>6, MainPlaces

\* What is known of the earlier runs does not change, unless an event is
\* handled, or the process dies while the file is empty.
LEMMA LogSame ==
  ASSUME Base, [Next]_vars, ~HandleLoadEvent
  PROVE  \/ Log'.chunk = Log.chunk /\ Log'.sub = Log.sub
         \/ Log' = EmptyLog /\ Crash
  <1>0. LogKept /\ TypeOK
    BY DEF Base
  <1>1. CASE UNCHANGED vars
    BY <1>1 DEF vars, mainVars, Log
  <1>2. CASE ReadLog
    BY <1>2 DEF ReadLog, Log
  <1>3. CASE RewriteLog
    BY <1>3 DEF RewriteLog, Log
  <1>4. CASE CheckObjects \/ Restart
    BY <1>4 DEF CheckObjects, Restart, Log
  <1>5. CASE Begin
    BY <1>0, <1>5 DEF Begin, Log, TypeOK, Logs
  <1>6. CASE Finish \/ Join
    BY <1>6 DEF Finish, Join, Log
  <1>7. CASE Crash
    <2>1. file' = file /\ mpc' = "down"
      BY <1>7 DEF Crash
    <2>2. CASE mpc = "opened"
      BY <1>0, <1>7, <2>1, <2>2 DEF LogKept, Log
    <2>3. CASE mpc # "opened"
      BY <2>1, <2>3 DEF Log
    <2> QED BY <2>2, <2>3
  <1>8. CASE SkipChunk \/ ScheduleChunk \/ NothingToDo \/ HandleExit \/ Interrupt \/ MainError
    <2>1. mpc = "load" /\ mpc' \in {"load", "join"} /\ file' = file
      BY <1>8 DEF SkipChunk, ScheduleChunk, NothingToDo, HandleExit, Interrupt, MainError,
                  Handling, mainVars
    <2> QED BY <2>1 DEF Log
  <1>9. ASSUME NEW w \in Workers, WorkerStep(w) PROVE Log'.chunk = Log.chunk /\ Log'.sub = Log.sub
    <2>1. UNCHANGED <<mpc, file, last>>
      BY <1>0, <1>9, WorkerKeeps
    <2> QED BY <2>1 DEF Log
  <1> QED BY <1>1, <1>2, <1>3, <1>4, <1>5, <1>6, <1>7, <1>8, <1>9, MainPlaces

\* A sub-chunk is logged after the start of its chunk.
LEMMA SubAfterStart ==
  ASSUME Base, NEW c \in Chunks, LogsEvent("LOAD_SUBCHUNK_END", c)
  PROVE  file.chunk[c] # "PENDING"
  <1>1. /\ queue[1].type = "LOAD_SUBCHUNK_END" /\ 1 \in 1..Len(queue) /\ queue # <<>>
        /\ task[queue[1].worker].chunk = c /\ queue[1].worker \in Workers
    BY EventLogged DEF LoadEvents
  <1>2. StartKnown(c)
    BY <1>1 DEF Base, ChunkLogged
  <1>3. ASSUME Posted("LOAD_START", c) PROVE FALSE
    <2>1. PICK j \in 1..Len(queue) : EventAt(j, "LOAD_START", c)
      BY <1>3 DEF Posted
    <2>2. queue[j].worker \in Workers /\ queue[j].type = "LOAD_START"
      BY <2>1, EventWorker DEF Base, EventAt
    <2>3. c # <<>> /\ task[queue[j].worker].chunk = c
      BY <2>1, ChunkShape DEF EventAt
    <2>4. queue[j].worker = queue[1].worker
      BY <1>1, <2>2, <2>3 DEF Base, Taken
    <2>5. Len(queue) \in Nat
      BY LenProperties DEF Base, TypeOK
    <2>6. 1 < j
      BY <1>1, <2>1, <2>2, <2>5
    <2>7. Follows(queue[1], queue[j])
      BY <1>1, <2>4, <2>6 DEF Base, Handshake, EventOrder
    <2> QED BY <2>2, <2>7 DEF Follows
  <1> QED BY <1>2, <1>3 DEF StartKnown

\* A chunk with sub-chunks in the log is in the log.
LEMMA SubsLoggedStep ==
  ASSUME Base, [Next]_vars
  PROVE  \A c \in Chunks : Log'.chunk[c] = "PENDING" =>
           \A k \in 0..MaxSub : Log'.sub[c][k] = NotDone
  <1>0. \A c \in Chunks : Log.chunk[c] = "PENDING" => \A k \in 0..MaxSub : Log.sub[c][k] = NotDone
    BY DEF Base, ChunkLogged
  <1>1. CASE HandleLoadEvent
    <2>1. PICK t \in LoadEvents, c \in Chunks : LogsEvent(t, c)
      BY <1>1, SomeEventLogged
    <2>2. mpc = "load" /\ mpc' = "load"
      BY <2>1, EventLogged
    <2>3. Log = file /\ Log' = file'
      BY <2>2 DEF Log
    <2>4. \A d \in Chunks : d # c => file'.chunk[d] = file.chunk[d] /\ file'.sub[d] = file.sub[d]
      BY <2>1, EventLogged
    <2>5. file'.chunk[c] # "PENDING"
      <3>1. CASE t = "LOAD_SUBCHUNK_END"
        BY <2>1, <3>1, EventLogged, SubAfterStart
      <3>2. CASE t = "LOAD_START"
        BY <2>1, <3>2, EventLogged
      <3>3. CASE t = "LOAD_END"
        BY <2>1, <3>3, EventLogged
      <3> QED BY <3>1, <3>2, <3>3 DEF LoadEvents
    <2> QED BY <1>0, <2>3, <2>4, <2>5
  <1>2. CASE ~HandleLoadEvent
    BY <1>0, <1>2, LogSame, EmptyLogIs
  <1> QED BY <1>1, <1>2

\* The rest of ChunkLogged, in a load.
LEMMA ChunkLoggedLoad ==
  ASSUME Base, Next, mpc \in {"load", "join"}, mpc' \in {"load", "join"}
  PROVE  /\ \A w \in Workers : Started(w)' => StartKnown(task[w].chunk)'
         /\ \A i \in 1..Len(queue') : queue'[i].type \in {"LOAD_SUBCHUNK_END", "LOAD_END"} =>
              StartKnown(task[queue[i].worker].chunk)'
         /\ \A w \in Workers : Busy(w)' => file'.chunk[task'[w].chunk] # "DONE"
  <1>0. TypeOK /\ Taken /\ ChunkLogged
    BY DEF Base
  <1>a. \A d \in Chunks : StartKnown(d) => StartKnown(d)'
    BY StartStaysKnown
  <1>b. \A w \in Workers : Busy(w) => task[w].chunk \in Chunks
    BY TaskOf
  <1>c. ASSUME NEW i \in 1..Len(queue), queue[i].type \in {"LOAD_SUBCHUNK_END", "LOAD_END"}
        PROVE  task[queue[i].worker].chunk \in Chunks /\ StartKnown(task[queue[i].worker].chunk)
    <2>1. task[queue[i].worker] \in LoadTasks
      BY <1>0, EventWorker DEF TypeOK
    <2>2. task[queue[i].worker].chunk # <<>>
      BY <1>0, <1>c DEF Taken, LoadEvents
    <2> QED BY <1>0, <1>c, <2>1, <2>2 DEF LoadTasks, ChunkLogged
  <1>1. CASE SkipChunk \/ NothingToDo \/ HandleExit \/ HandleLoadEvent \/ Interrupt \/ MainError
    <2>1. /\ UNCHANGED <<wpc, task>>
          /\ queue' = queue \/ (queue # <<>> /\ queue' = Tail(queue))
      BY <1>1, MainTakes
    <2>2. ASSUME NEW w \in Workers, Started(w)' PROVE StartKnown(task[w].chunk)'
      <3>1. Started(w) /\ Busy(w)
        BY <2>1, <2>2 DEF Started, Busy
      <3>2. PICK d \in Chunks : d = task[w].chunk
        BY <1>b, <3>1
      <3>3. StartKnown(d)'
        BY <1>0, <1>a, <3>1, <3>2 DEF ChunkLogged
      <3>4. task'[w].chunk = d
        BY <2>1, <3>2
      <3> QED BY <3>3, <3>4 DEF StartKnown, Posted, EventAt
    <2>3. ASSUME NEW i \in 1..Len(queue'), queue'[i].type \in {"LOAD_SUBCHUNK_END", "LOAD_END"}
          PROVE  StartKnown(task[queue[i].worker].chunk)'
      <3>1. PICK j \in 1..Len(queue) : queue'[i] = queue[j]
        BY <1>0, <2>1, PoppedOne
      <3>2. PICK d \in Chunks : d = task[queue[j].worker].chunk /\ StartKnown(d)
        BY <1>c, <2>3, <3>1
      <3>3. StartKnown(d)'
        BY <1>a, <3>2
      <3>4. task'[queue'[i].worker].chunk = d
        BY <2>1, <3>1, <3>2
      <3> QED BY <3>3, <3>4 DEF StartKnown, Posted, EventAt
    <2>4. ASSUME NEW w \in Workers, Busy(w)' PROVE file'.chunk[task'[w].chunk] # "DONE"
      <3>1. Busy(w) /\ task' = task
        BY <2>1, <2>4 DEF Busy
      <3>2. file.chunk[task[w].chunk] # "DONE"
        BY <1>0, <3>1 DEF ChunkLogged
      <3>3. CASE HandleLoadEvent
        <4>1. PICK t \in LoadEvents, c \in Chunks : LogsEvent(t, c)
          BY <3>3, SomeEventLogged
        <4>2. CASE task[w].chunk = c
          <5>1. w = queue[1].worker
            BY <1>0, <4>1, <4>2, EventLogged, ChunkShape DEF Taken
          <5>2. t # "LOAD_END"
            BY <3>1, <4>1, <5>1, EventLogged, EventsOf DEF Busy
          <5> QED BY <3>1, <3>2, <4>1, <4>2, <5>2, EventLogged DEF LoadEvents
        <4>3. CASE task[w].chunk # c
          BY <1>b, <3>1, <3>2, <4>1, <4>3, EventLogged
        <4> QED BY <4>2, <4>3
      <3>4. CASE ~HandleLoadEvent
        <4>1. file' = file
          BY <1>1, <3>4 DEF SkipChunk, NothingToDo, HandleExit, Interrupt, MainError
        <4> QED BY <3>1, <3>2, <4>1
      <3> QED BY <3>3, <3>4
    <2> QED BY <2>2, <2>3, <2>4
  <1>2. CASE ScheduleChunk
    <2>1. PICK w \in Workers, c \in Chunks, off \in Nat, sub \in 0..MaxSub :
            Scheduled(w, c, off, sub)
      BY <1>2, ScheduledTask
    <2>2. /\ task'[w].chunk = c /\ wpc'[w] = "given"
          /\ \A v \in Workers : v # w => task'[v] = task[v] /\ wpc'[v] = wpc[v]
      BY <1>0, <2>1, GivenTask
    <2>3. /\ queue # <<>> /\ queue' = Tail(queue) /\ \A i \in 2..Len(queue) : queue[i].worker # w
      BY <2>1, EventsScheduled
    <2>4. file' = file /\ file.chunk[c] # "DONE"
      BY <2>1 DEF Scheduled, Base, LogKept, Handling
    <2>5. ASSUME NEW v \in Workers, Started(v)' PROVE StartKnown(task[v].chunk)'
      <3>1. v # w /\ Started(v) /\ Busy(v)
        BY <2>2, <2>5 DEF Started, Busy
      <3>2. PICK d \in Chunks : d = task[v].chunk
        BY <1>b, <3>1
      <3>3. StartKnown(d)'
        BY <1>0, <1>a, <3>1, <3>2 DEF ChunkLogged
      <3>4. task'[v].chunk = d
        BY <2>2, <3>1, <3>2
      <3> QED BY <3>3, <3>4 DEF StartKnown, Posted, EventAt
    <2>6. ASSUME NEW i \in 1..Len(queue'), queue'[i].type \in {"LOAD_SUBCHUNK_END", "LOAD_END"}
          PROVE  StartKnown(task[queue[i].worker].chunk)'
      <3>1. PICK j \in 2..Len(queue) : j \in 1..Len(queue) /\ queue'[i] = queue[j]
        BY <1>0, <2>3, PoppedOne
      <3>2. PICK d \in Chunks : d = task[queue[j].worker].chunk /\ StartKnown(d)
        BY <1>c, <2>6, <3>1
      <3>3. StartKnown(d)'
        BY <1>a, <3>2
      <3>4. task'[queue'[i].worker].chunk = d
        BY <1>0, <2>2, <2>3, <3>1, <3>2, EventWorker
      <3> QED BY <3>3, <3>4 DEF StartKnown, Posted, EventAt
    <2>7. ASSUME NEW v \in Workers, Busy(v)' PROVE file'.chunk[task'[v].chunk] # "DONE"
      BY <1>0, <2>2, <2>4, <2>7 DEF ChunkLogged, Busy
    <2> QED BY <2>5, <2>6, <2>7
  <1>3. ASSUME NEW w \in Workers, WorkerStep(w)
        PROVE  /\ \A v \in Workers : Started(v)' => StartKnown(task[v].chunk)'
               /\ \A i \in 1..Len(queue') : queue'[i].type \in {"LOAD_SUBCHUNK_END", "LOAD_END"} =>
                    StartKnown(task[queue[i].worker].chunk)'
               /\ \A v \in Workers : Busy(v)' => file'.chunk[task'[v].chunk] # "DONE"
    <2>1. /\ \A v \in Workers : v # w => wpc'[v] = wpc[v]
          /\ \A v \in Workers : task'[v].chunk = task[v].chunk
          /\ file' = file
      BY <1>0, <1>3, WorkerKeeps
    <2>2. ASSUME NEW v \in Workers, Started(v)' PROVE StartKnown(task[v].chunk)'
      <3>1. Busy(v)
        <4>1. Busy(v)'
          BY <2>2 DEF Started, Busy
        <4> QED BY <1>0, <1>3, <2>1, <4>1, WorkerPosts DEF Busy
      <3>2. PICK d \in Chunks : d = task[v].chunk
        BY <1>b, <3>1
      <3>3. StartKnown(d)'
        <4>1. CASE Started(v)
          BY <1>0, <1>a, <3>2, <4>1 DEF ChunkLogged
        <4>2. CASE ~Started(v)
          <5>1. v = w /\ wpc[w] = "given"
            BY <2>1, <2>2, <3>1, <4>2 DEF Started, Busy
          <5>2. WStart(w)
            BY <1>3, <5>1 DEF WorkerStep, WReady, WPrepare, WCommit, WReport, WEnd, WFail
          <5>3. wpc'[w] = "prepare" => queue' = Append(queue, Event("LOAD_START", w))
            BY <1>0, <5>2 DEF WStart, TypeOK
          <5>4. wpc'[w] \in {"exited", "prepare"}
            BY <1>0, <5>2 DEF WStart, TypeOK
          <5>5. queue' = Append(queue, Event("LOAD_START", w))
            BY <2>2, <5>1, <5>3, <5>4 DEF Started
          <5>6. PICK i \in 1..Len(queue') : queue'[i].type = "LOAD_START" /\ queue'[i].worker = w
            BY <1>0, <5>5, PushedBy DEF AllEvents
          <5>7. EventAt(i, "LOAD_START", d)'
            BY <2>1, <3>2, <5>1, <5>6 DEF EventAt
          <5> QED BY <5>6, <5>7 DEF StartKnown, Posted
        <4> QED BY <4>1, <4>2
      <3>4. task'[v].chunk = d
        BY <2>1, <3>2
      <3> QED BY <3>3, <3>4 DEF StartKnown, Posted, EventAt
    <2>3. ASSUME NEW i \in 1..Len(queue'), queue'[i].type \in {"LOAD_SUBCHUNK_END", "LOAD_END"}
          PROVE  StartKnown(task[queue[i].worker].chunk)'
      <3>1. \E d \in Chunks : d = task'[queue'[i].worker].chunk /\ StartKnown(d)
        <4>1. CASE i \in 1..Len(queue)
          <5>1. queue'[i] = queue[i] /\ queue[i].worker \in Workers
            BY <1>0, <1>3, <4>1, EventsPushed, EventWorker
          <5> QED BY <1>c, <2>1, <2>3, <4>1, <5>1
        <4>2. CASE i \notin 1..Len(queue)
          <5>1. queue'[i].worker = w
            BY <1>0, <1>3, <4>2, EventsPushed
          <5>2. queue' # queue
            BY <4>2
          <5>3. PICK t \in AllEvents : queue' = Append(queue, Event(t, w))
            BY <1>0, <1>3, <5>2, WorkerPosts
          <5>4. queue'[i].type = t
            BY <1>0, <4>2, <5>3, PushedBy
          <5>5. CASE WReport(w) \/ WEnd(w)
            <6>1. Started(w) /\ Busy(w)
              BY <5>5 DEF WReport, WEnd, Started, Busy
            <6> QED BY <1>0, <1>b, <2>1, <5>1, <6>1 DEF ChunkLogged
          <5>6. CASE ~(WReport(w) \/ WEnd(w))
            <6>1. \E e \in {"READY", "LOAD_START", "EXIT", "FATAL_ERROR"} :
                    queue' = Append(queue, Event(e, w))
              BY <1>3, <5>2, <5>6 DEF WorkerStep, WReady, WStart, WPrepare, WCommit, WFail
            <6>2. PICK e \in {"READY", "LOAD_START", "EXIT", "FATAL_ERROR"} :
                    queue' = Append(queue, Event(e, w))
              BY <6>1
            <6>3. queue'[i].type = e
              BY <1>0, <4>2, <6>2, PushedBy DEF AllEvents
            <6> QED BY <2>3, <6>2, <6>3
          <5> QED BY <5>5, <5>6
        <4> QED BY <4>1, <4>2
      <3>2. PICK d \in Chunks : d = task'[queue'[i].worker].chunk /\ StartKnown(d)
        BY <3>1
      <3>3. StartKnown(d)'
        BY <1>a, <3>2
      <3> QED BY <3>2, <3>3 DEF StartKnown, Posted, EventAt
    <2>4. ASSUME NEW v \in Workers, Busy(v)' PROVE file'.chunk[task'[v].chunk] # "DONE"
      <3>1. Busy(v)
        BY <1>0, <1>3, <2>1, <2>4, WorkerPosts DEF Busy
      <3> QED BY <1>0, <2>1, <3>1 DEF ChunkLogged
    <2> QED BY <2>2, <2>3, <2>4
  <1>4. ASSUME UNCHANGED vars
        PROVE  /\ \A w \in Workers : Started(w)' => StartKnown(task[w].chunk)'
               /\ \A i \in 1..Len(queue') : queue'[i].type \in {"LOAD_SUBCHUNK_END", "LOAD_END"} =>
                    StartKnown(task[queue[i].worker].chunk)'
               /\ \A w \in Workers : Busy(w)' => file'.chunk[task'[w].chunk] # "DONE"
    BY <1>0, <1>4 DEF vars, mainVars, ChunkLogged, Started, StartKnown, Posted, EventAt, Busy
  <1> QED BY <1>1, <1>2, <1>3, <1>4, MainPlaces

\* Chunks are in the file in time.
LEMMA ChunkLoggedStep ==
  ASSUME Base, [Next]_vars
  PROVE  ChunkLogged'
  <1>0. AtRest /\ ChunkLogged /\ TypeOK
    BY DEF Base
  <1>1. \A c \in Chunks : Log'.chunk[c] = "PENDING" =>
          \A k \in 0..MaxSub : Log'.sub[c][k] = NotDone
    BY SubsLoggedStep
  <1>2. CASE UNCHANGED vars
    BY <1>0, <1>2 DEF vars, mainVars, ChunkLogged, Started, StartKnown, Posted, EventAt, Busy, Log
  <1>3. CASE Next /\ mpc \in {"load", "join"} /\ mpc' \in {"load", "join"}
    BY <1>1, <1>3, ChunkLoggedLoad DEF ChunkLogged
  <1>4. ASSUME Len(queue') = 0, \A w \in Workers : ~Busy(w)' PROVE ChunkLogged'
    <2>1. \A w \in Workers : ~Started(w)'
      BY <1>4 DEF Busy, Started
    <2> QED BY <1>1, <1>4, <2>1 DEF ChunkLogged
  <1>5. CASE ReadLog \/ RewriteLog \/ CheckObjects \/ Begin \/ Restart
    BY <1>0, <1>4, <1>5, StillAtRest
  <1>6. CASE Finish \/ Join \/ Crash
    <2>1. EndProcess
      BY <1>6 DEF Finish, Join, Crash
    <2> QED BY <1>4, <2>1, EndIs
  <1>7. ASSUME NEW w \in Workers, WorkerStep(w) PROVE mpc \in {"load", "join"} /\ mpc' = mpc
    BY <1>0, <1>7, WorkerKeeps
  <1> QED BY <1>2, <1>3, <1>5, <1>6, <1>7, MainPlaces

----------------------------------------------------------------------------
(* Offsets.                                                                 *)

----------------------------------------------------------------------------
(* Offsets and sub-chunks.                                                  *)

\* The sub-chunks of the chunk that a worker loads.
LEMMA SubsOf ==
  ASSUME Base, NEW w \in Workers, Busy(w)
  PROVE  \E v \in [0..MaxSub -> 0..NotDone], f \in 0..MaxSub :
           SubchunkInv(task[w].chunk, v, f)
  BY TaskOf DEF Base, SubChunks

\* The fields of a task, after WPrepare, WCommit and WReport.
LEMMA TaskFields ==
  ASSUME Base, NEW w \in Workers
  PROVE  /\ WPrepare(w) => /\ task'[w].sub = task[w].sub /\ task'[w].trx = task[w].trx
                           /\ \/ task' = task /\ server' = server
                                 /\ ~(task[w].resume /\ TableOf[task[w].chunk[1]] \notin Pke)
                              \/ /\ task[w].resume /\ TableOf[task[w].chunk[1]] \notin Pke
                                 /\ task'[w].off = 0
                                 /\ server' = Truncate(TableOf[task[w].chunk[1]])
         /\ WCommit(w) => \E n \in TrxSizes(w) :
              /\ n \in 0..NumRows /\ task[w].off + n <= NumRows
              /\ MaxTrx = 0 => task[w].off + n = NumRows
              /\ server' = LoadRows(task[w].chunk, task[w].off, task[w].off + n)
              /\ task'[w].off = task[w].off + n /\ task'[w].trx = n /\ task'[w].sub = task[w].sub
         /\ WReport(w) => /\ task'[w].off = task[w].off /\ task'[w].trx = task[w].trx
                          /\ task'[w].sub = task[w].sub + 1 /\ server' = server
  <1>0. task \in [Workers -> LoadTasks] /\ task[w] \in LoadTasks
    BY DEF Base, TypeOK
  <1>1. ASSUME WPrepare(w)
        PROVE  /\ task'[w].sub = task[w].sub /\ task'[w].trx = task[w].trx
               /\ \/ task' = task /\ server' = server
                     /\ ~(task[w].resume /\ TableOf[task[w].chunk[1]] \notin Pke)
                  \/ /\ task[w].resume /\ TableOf[task[w].chunk[1]] \notin Pke
                     /\ task'[w].off = 0
                     /\ server' = Truncate(TableOf[task[w].chunk[1]])
    <2>1. CASE task[w].resume /\ TableOf[task[w].chunk[1]] \notin Pke
      <3>1. task' = [task EXCEPT ![w].off = 0] /\ server' = Truncate(TableOf[task[w].chunk[1]])
        BY <1>1, <2>1 DEF WPrepare
      <3> QED BY <1>0, <2>1, <3>1, TaskStartsOver
    <2>2. CASE ~(task[w].resume /\ TableOf[task[w].chunk[1]] \notin Pke)
      <3>1. task' = task /\ server' = server
        BY <1>1, <2>2 DEF WPrepare
      <3> QED BY <2>2, <3>1
    <2> QED BY <2>1, <2>2
  <1>2. ASSUME WCommit(w)
        PROVE  \E n \in TrxSizes(w) :
              /\ n \in 0..NumRows /\ task[w].off + n <= NumRows
              /\ MaxTrx = 0 => task[w].off + n = NumRows
              /\ server' = LoadRows(task[w].chunk, task[w].off, task[w].off + n)
              /\ task'[w].off = task[w].off + n /\ task'[w].trx = n /\ task'[w].sub = task[w].sub
    <2>1. PICK n \in TrxSizes(w) :
            /\ server' = LoadRows(task[w].chunk, task[w].off, task[w].off + n)
            /\ task' = [task EXCEPT ![w].off = @ + n, ![w].trx = n]
      BY <1>2 DEF WCommit
    <2>2. task[w].off \in Nat /\ task[w].off <= NumRows
      BY <1>2, TaskOf DEF Base, OffsetInv, WCommit, Busy
    <2>3. n \in Nat /\ n <= NumRows /\ task[w].off + n <= NumRows
          /\ (MaxTrx = 0 => task[w].off + n = NumRows)
      BY <2>2, TrxSize
    <2>4. n \in 0..NumRows
      BY <2>3, Sizes
    <2>5. task'[w].off = task[w].off + n /\ task'[w].trx = n /\ task'[w].sub = task[w].sub
      BY <1>0, <2>1, <2>4, TaskLoads
    <2> QED BY <2>1, <2>3, <2>4, <2>5
  <1>3. ASSUME WReport(w)
        PROVE  /\ task'[w].off = task[w].off /\ task'[w].trx = task[w].trx
               /\ task'[w].sub = task[w].sub + 1 /\ server' = server
    <2>1. task' = [task EXCEPT ![w].sub = @ + 1] /\ server' = server
      BY <1>3 DEF WReport, serverVars
    <2>2. task'[w] = [task[w] EXCEPT !.sub = @ + 1]
      BY <1>0, <2>1
    <2> QED BY <1>0, <2>1, <2>2 DEF LoadTasks
  <1> QED BY <1>1, <1>2, <1>3

\* A task stays within its file.
LEMMA OffsetStep ==
  ASSUME Base, [Next]_vars
  PROVE  OffsetInv'
  <1>0. OffsetInv /\ TypeOK /\ AtRest
    BY DEF Base
  <1>1. ASSUME UNCHANGED <<wpc, task>> PROVE OffsetInv'
    BY <1>0, <1>1 DEF OffsetInv
  <1>2. CASE UNCHANGED vars
    BY <1>1, <1>2 DEF vars
  <1>3. ASSUME \A w \in Workers : ~Busy(w)' PROVE OffsetInv'
    BY <1>3 DEF OffsetInv, Busy
  <1>4. CASE ReadLog \/ RewriteLog \/ CheckObjects \/ Begin \/ Restart
    BY <1>0, <1>3, <1>4, StillAtRest
  <1>5. CASE Finish \/ Join \/ Crash
    <2>1. EndProcess
      BY <1>5 DEF Finish, Join, Crash
    <2> QED BY <1>3, <2>1, EndIs
  <1>6. CASE SkipChunk \/ NothingToDo \/ HandleExit \/ HandleLoadEvent \/ Interrupt \/ MainError
    BY <1>1, <1>6, MainTakes
  <1>7. CASE ScheduleChunk
    <2>1. PICK w \in Workers, c \in Chunks, off \in Nat, sub \in 0..MaxSub :
            Scheduled(w, c, off, sub)
      BY <1>7, ScheduledTask
    <2>2. /\ task'[w].off = off /\ (task'[w].resume <=> last.chunk[c] = "INTERRUPTED")
          /\ wpc'[w] = "given" /\ \A v \in Workers : v # w => task'[v] = task[v] /\ wpc'[v] = wpc[v]
      BY <1>0, <2>1, GivenTask
    <2>3. ~task'[w].resume => task'[w].off = 0
      BY <2>1, <2>2 DEF Scheduled
    <2> QED BY <1>0, <2>2, <2>3 DEF OffsetInv
  <1>8. ASSUME NEW w \in Workers, WorkerStep(w) PROVE OffsetInv'
    <2>0. \A v \in Workers : v # w => wpc'[v] = wpc[v] /\ task'[v] = task[v]
      BY <1>0, <1>8, WorkerKeeps
    <2> SUFFICES /\ wpc'[w] \in {"given", "prepare"} /\ ~task'[w].resume => task'[w].off = 0
                 /\ wpc'[w] \in {"load", "report", "end"} => task'[w].off <= NumRows
                 /\ wpc'[w] = "end" => task'[w].off = NumRows
      BY <1>0, <2>0 DEF OffsetInv
    <2>a. wpc \in [Workers -> WorkerPlaces]
      BY <1>0 DEF TypeOK, WorkerPlaces
    <2>1. CASE WReady(w) \/ WEnd(w) \/ WFail(w)
      BY <2>a, <2>1 DEF WReady, WEnd, WFail
    <2>2. CASE WStart(w)
      <3>1. wpc[w] = "given" /\ task' = task /\ wpc'[w] \in {"exited", "prepare"}
        BY <2>a, <2>2 DEF WStart
      <3> QED BY <1>0, <3>1 DEF OffsetInv
    <2>3. CASE WPrepare(w)
      <3>1. wpc[w] = "prepare" /\ wpc'[w] = "load" /\ Busy(w)
        BY <2>a, <2>3 DEF WPrepare, Busy
      <3>2. PICK v \in [0..MaxSub -> 0..NotDone], f \in 0..MaxSub : SubchunkInv(task[w].chunk, v, f)
        BY <3>1, SubsOf
      <3>3. CASE task[w].resume /\ TableOf[task[w].chunk[1]] \notin Pke
        BY <2>3, <3>1, <3>3, TaskFields, Sizes
      <3>4. CASE ~(task[w].resume /\ TableOf[task[w].chunk[1]] \notin Pke)
        <4>1. task'[w].off = task[w].off
          BY <2>3, <3>4, TaskFields
        <4>2. task[w].off <= NumRows
          BY <1>0, <3>1, <3>2, <3>4, Sizes DEF OffsetInv, SubchunkInv, SubRows
        <4> QED BY <3>1, <4>1, <4>2
      <3> QED BY <3>3, <3>4
    <2>4. CASE WCommit(w)
      <3>1. wpc'[w] = IF MaxTrx = 0 THEN "end" ELSE "report"
        BY <2>a, <2>4 DEF WCommit
      <3> QED BY <2>4, <3>1, TaskFields
    <2>5. CASE WReport(w)
      <3>1. wpc[w] = "report" /\ wpc'[w] \in {"end", "load"} /\ (wpc'[w] = "end" => task[w].off = NumRows)
        BY <2>a, <2>5 DEF WReport
      <3> QED BY <1>0, <2>5, <3>1, TaskFields DEF OffsetInv
    <2> QED BY <1>8, <2>1, <2>2, <2>3, <2>4, <2>5 DEF WorkerStep
  <1> QED BY <1>2, <1>4, <1>5, <1>6, <1>7, <1>8, MainPlaces

----------------------------------------------------------------------------
(* Sub-chunks.                                                              *)

\* The end of a sub-chunk of c is the event at i.
SubAt(i, c) == EventAt(i, "LOAD_SUBCHUNK_END", c)

\* Nothing changes about the sub-chunks of c: neither in the log nor in the
\* queue.
LEMMA ViewKept ==
  ASSUME NEW c \in Chunks, NEW v \in [0..MaxSub -> 0..NotDone], NEW f \in 0..MaxSub,
         SubView(c, v, f), Log'.sub[c] = Log.sub[c],
         \A i \in 1..Len(queue) : SubAt(i, c) =>
           \E j \in 1..Len(queue') : SubAt(j, c)' /\ queue'[j] = queue[i],
         \A j \in 1..Len(queue') : SubAt(j, c)' =>
           \E i \in 1..Len(queue) : SubAt(i, c) /\ queue[i] = queue'[j]
  PROVE  SubView(c, v, f)'
  <1>1. ASSUME NEW k \in 0..MaxSub, k < f, Log'.sub[c][k] = NotDone
        PROVE  \E j \in 1..Len(queue') : SubAt(j, c)' /\ queue'[j].sub = k
    <2>1. PICK i \in 1..Len(queue) : SubAt(i, c) /\ queue[i].sub = k
      BY <1>1 DEF SubView, SubAt
    <2> QED BY <2>1
  <1>2. ASSUME NEW j \in 1..Len(queue'), SubAt(j, c)'
        PROVE  /\ queue'[j].sub < f /\ queue'[j].bytes = v[queue'[j].sub]
               /\ Log'.sub[c][queue'[j].sub] = NotDone
    <2>1. PICK i \in 1..Len(queue) : SubAt(i, c) /\ queue[i] = queue'[j]
      BY <1>2
    <2>2. /\ queue[i].sub < f /\ queue[i].bytes = v[queue[i].sub]
          /\ Log.sub[c][queue[i].sub] = NotDone
      BY <2>1 DEF SubView, SubAt
    <2> QED BY <2>1, <2>2
  <1> QED BY <1>1, <1>2 DEF SubView, SubAt

\* The first event goes, and it is no sub-chunk of c.
LEMMA ViewPopped ==
  ASSUME TypeOK, NEW c \in Chunks, NEW v \in [0..MaxSub -> 0..NotDone], NEW f \in 0..MaxSub,
         SubView(c, v, f), Log'.sub[c] = Log.sub[c], queue # <<>>, queue' = Tail(queue),
         ~SubAt(1, c),
         \A i \in 2..Len(queue) :
           task'[queue[i].worker].chunk = task[queue[i].worker].chunk
  PROVE  SubView(c, v, f)'
  <1>1. ASSUME NEW i \in 1..Len(queue), SubAt(i, c)
        PROVE  \E j \in 1..Len(queue') : SubAt(j, c)' /\ queue'[j] = queue[i]
    <2>1. i \in 2..Len(queue)
      BY <1>1, PoppedOne
    <2>2. i - 1 \in 1..Len(queue') /\ queue'[i - 1] = queue[i] /\ SubAt(i - 1, c)'
      BY <1>1, <2>1, EventsPopped DEF SubAt
    <2> QED BY <2>2
  <1>2. ASSUME NEW j \in 1..Len(queue'), SubAt(j, c)'
        PROVE  \E i \in 1..Len(queue) : SubAt(i, c) /\ queue[i] = queue'[j]
    <2>1. j + 1 \in 1..Len(queue) /\ queue'[j] = queue[j + 1] /\ SubAt(j + 1, c)
      BY <1>2, EventsPopped DEF SubAt
    <2> QED BY <2>1
  <1> QED BY <1>1, <1>2, ViewKept

\* A worker's step, and no sub-chunk of c ends.
LEMMA ViewPushed ==
  ASSUME TypeOK, NEW c \in Chunks, NEW v \in [0..MaxSub -> 0..NotDone], NEW f \in 0..MaxSub,
         SubView(c, v, f), Log'.sub[c] = Log.sub[c], NEW w \in Workers, WorkerStep(w),
         task[w].chunk # c \/ ~WReport(w)
  PROVE  SubView(c, v, f)'
  <1>1. ASSUME NEW i \in 1..Len(queue), SubAt(i, c)
        PROVE  \E j \in 1..Len(queue') : SubAt(j, c)' /\ queue'[j] = queue[i]
    BY <1>1, EventsPushed DEF SubAt
  <1>2. ASSUME NEW j \in 1..Len(queue'), SubAt(j, c)'
        PROVE  \E i \in 1..Len(queue) : SubAt(i, c) /\ queue[i] = queue'[j]
    <2>1. CASE j \in 1..Len(queue)
      BY <1>2, <2>1, EventsPushed DEF SubAt
    <2>2. CASE j \notin 1..Len(queue)
      <3>1. queue'[j].worker = w /\ task'[w].chunk = task[w].chunk
        BY <2>2, EventsPushed, WorkerKeeps
      <3>2. task[w].chunk = c /\ queue'[j].type = "LOAD_SUBCHUNK_END"
        BY <1>2, <3>1 DEF SubAt, EventAt
      <3>3. queue' # queue
        BY <2>2
      <3>4. PICK e \in {"READY", "LOAD_START", "LOAD_END", "EXIT", "FATAL_ERROR"} :
              queue' = Append(queue, Event(e, w))
        BY <3>2, <3>3 DEF WorkerStep, WReady, WStart, WPrepare, WCommit, WEnd, WFail
      <3>5. queue'[j].type = e
        BY <2>2, <3>4, PushedBy DEF AllEvents
      <3> QED BY <3>2, <3>4, <3>5
    <2> QED BY <2>1, <2>2
  <1> QED BY <1>1, <1>2, ViewKept

\* The sub-chunks of a chunk when the events are gone: those in the log.
LEMMA ViewEnds ==
  ASSUME Base, NEW c \in Chunks, NEW v \in [0..MaxSub -> 0..NotDone], NEW f \in 0..MaxSub,
         SubView(c, v, f), Len(queue') = 0, TypeOK', Log'.sub[c] = Log.sub[c]
  PROVE  \E u \in [0..MaxSub -> 0..NotDone], g \in 0..MaxSub :
           SubView(c, u, g)' /\ g <= f /\ Skip(u, g) <= Skip(v, f)
  <1>1. PICK u : u = Log.sub[c]
    OBVIOUS
  <1>2. u \in [0..MaxSub -> 0..NotDone]
    BY <1>1 DEF Base, TypeOK, Logs, Log
  <1>3. u[f] = NotDone
    BY <1>1 DEF SubView
  <1>4. PICK S : S = {k \in 0..MaxSub : u[k] = NotDone}
    OBVIOUS
  <1>5. f \in S /\ S \in SUBSET Nat
    BY <1>3, <1>4, Sizes
  <1>6. PICK g \in S : \A k \in S : g <= k
    BY <1>5, LeastExists
  <1>7. g \in 0..MaxSub /\ g <= f /\ u[g] = NotDone
    BY <1>4, <1>5, <1>6
  <1>8. ASSUME NEW k \in 0..MaxSub PROVE u[k] = NotDone <=> k >= g
    <2>1. CASE k < g
      <3>1. k \notin S
        BY <1>6, <1>7, <2>1, Sizes
      <3> QED BY <1>4, <1>7, <2>1, <3>1, Sizes
    <2>2. CASE k = g
      BY <1>7, <2>2
    <2>3. CASE g < k
      <3>1. u[k] # NotDone => u[g] # NotDone
        BY <1>1, <1>7, <2>3 DEF SubView
      <3> QED BY <1>7, <2>3, <3>1, Sizes
    <2> QED BY <1>7, <2>1, <2>2, <2>3, Sizes
  <1>9. SubView(c, u, g)'
    <2>1. \A k \in 0..MaxSub : Log'.sub[c][k] = u[k]
      BY <1>1
    <2>2. \A j, k \in 0..MaxSub : j < k /\ u[k] # NotDone => u[j] # NotDone
      BY <1>1 DEF SubView
    <2>3. \A k \in 0..MaxSub : ~(k < g /\ u[k] = NotDone)
      BY <1>7, <1>8, Sizes
    <2> QED BY <1>2, <1>7, <1>8, <2>1, <2>2, <2>3 DEF SubView
  <1>10. Skip(u, g) = Skip(v, g)
    <2>1. u \in [Subs -> Nat] /\ v \in [Subs -> Nat]
      BY <1>2, SkipIsNat
    <2>2. ASSUME NEW k \in Subs, k < g PROVE u[k] = v[k]
      <3>1. k \in 0..MaxSub /\ ~(k >= g)
        BY <1>7, <2>2, Sizes DEF Subs
      <3>2. u[k] # NotDone
        BY <1>8, <3>1
      <3> QED BY <1>1, <3>1, <3>2 DEF SubView
    <2> QED BY <2>1, <2>2, SkipSame
  <1>11. Skip(v, g) <= Skip(v, f)
    <2>1. v \in [Subs -> Nat]
      BY SkipIsNat
    <2>2. g \in Nat /\ f \in Nat /\ f <= MaxSub
      BY <1>7, Sizes
    <2> QED BY <1>7, <2>1, <2>2, SkipGrows
  <1> QED BY <1>2, <1>7, <1>9, <1>10, <1>11

\* No sub-chunks at all.
LEMMA ViewEmpty ==
  ASSUME NEW c \in Chunks, Log'.sub[c] = EmptyLog.sub[c], Len(queue') = 0
  PROVE  \E u \in [0..MaxSub -> 0..NotDone], g \in 0..MaxSub :
           SubView(c, u, g)' /\ g = 0 /\ Skip(u, g) = 0
  <1>1. PICK u : u = [k \in 0..MaxSub |-> NotDone]
    OBVIOUS
  <1>2. u \in [0..MaxSub -> 0..NotDone] /\ 0 \in 0..MaxSub
    BY <1>1, Sizes
  <1>3. \A k \in 0..MaxSub : u[k] = NotDone /\ Log'.sub[c][k] = NotDone
    BY <1>1, EmptyLogIs
  <1>4. SubView(c, u, 0)'
    BY <1>2, <1>3, Sizes DEF SubView
  <1>5. Skip(u, 0) = 0
    BY <1>2, SkipIsNat, SkipFacts
  <1> QED BY <1>2, <1>4, <1>5

\* Numbers of runs.
LEMMA RunsAre ==
  ASSUME TypeOK
  PROVE  /\ runs \in Nat \ {0} /\ runs - 1 \in Nat /\ Limit(runs) \in Nat /\ Limit(runs - 1) \in Nat
         /\ Limit(runs) = Limit(runs - 1) + NumRows + 1
  <1>1. runs \in Nat \ {0} /\ runs - 1 \in Nat
    BY Sizes DEF TypeOK
  <1> QED BY <1>1, LimitGrows

\* Before the load.
LEMMA SubsApart ==
  ASSUME Base, ReadLog \/ RewriteLog \/ CheckObjects \/ Begin \/ Restart
  PROVE  SubChunks'
  <1>0. TypeOK /\ AtRest
    BY DEF Base
  <1>1. /\ queue = <<>> /\ Len(queue) = 0 /\ Len(queue') = 0
        /\ \A w \in Workers : task'[w].chunk = <<>>
    BY <1>0, StillAtRest
  <1>2. server' = server
    BY DEF ReadLog, RewriteLog, CheckObjects, Begin, Restart, serverVars
  <1>3. ASSUME NEW c \in Chunks
        PROVE  \E v \in [0..MaxSub -> 0..NotDone] : \E f \in 0..MaxSub : SubchunkInv(c, v, f)'
    <2>1. PICK v \in [0..MaxSub -> 0..NotDone], f \in 0..MaxSub : SubchunkInv(c, v, f)
      BY DEF Base, SubChunks
    <2>2. [Next]_vars /\ ~HandleLoadEvent /\ ~Crash
      <3>1. Next
        BY DEF Next, MainStep
      <3>2. mpc # "load"
        BY DEF ReadLog, RewriteLog, CheckObjects, Begin, Restart
      <3>3. ~HandleLoadEvent
        BY <3>2 DEF HandleLoadEvent, Handling
      <3>4. mpc' # "down"
        BY DEF ReadLog, RewriteLog, CheckObjects, Begin, Restart
      <3>5. ~Crash
        BY <3>4 DEF Crash
      <3> QED BY <3>1, <3>3, <3>5
    <2>3. Log'.sub[c] = Log.sub[c]
      BY <2>2, LogSame
    <2>4. SubView(c, v, f)'
      BY <1>1, <2>1, <2>3, ViewKept DEF SubchunkInv
    <2>5. c # <<>>
      BY ChunkShape
    <2>6. SubCount(c, f)'
      <3>1. CASE Restart
        <4>1. runs' = runs + 1 /\ f <= Limit(runs)
          BY <2>1, <3>1 DEF Restart, SubchunkInv, SubCount
        <4>2. runs' - 1 = runs /\ Limit(runs) \in Nat /\ Limit(runs') = Limit(runs) + NumRows + 1
          <5>1. runs \in Nat /\ runs' \in Nat \ {0} /\ runs' - 1 = runs
            BY <1>0, <4>1, RunsAre
          <5>2. Limit(runs') = Limit(runs' - 1) + NumRows + 1
            BY <5>1, LimitGrows
          <5> QED BY <5>1, <5>2, LimitGrows
        <4>3. f <= Limit(runs')
          BY <4>1, <4>2, Sizes
        <4>4. f <= Limit(runs' - 1)
          BY <4>1, <4>2
        <4> QED BY <1>1, <2>5, <4>3, <4>4 DEF SubCount
      <3>2. CASE ~Restart
        <4>1. runs' = runs /\ mpc \notin {"down", "complete", "refused"} /\ UNCHANGED consumed
          BY <3>2 DEF ReadLog, RewriteLog, CheckObjects, Begin
        <4> QED BY <1>1, <2>1, <2>5, <4>1 DEF SubchunkInv, SubCount, Untouched
      <3> QED BY <3>1, <3>2
    <2>7. SubRows(c, v, f)'
      BY <1>1, <1>2, <2>1, <2>5 DEF SubchunkInv, SubRows
    <2> QED BY <2>4, <2>6, <2>7 DEF SubchunkInv
  <1> QED BY <1>3 DEF SubChunks

\* A step of worker w, or a crash, loads n rows of chunk c ...
Loads(c, w, n) ==
  /\ wpc[w] = "load" /\ task[w].chunk = c /\ task[w].off + n <= NumRows
  /\ WCommit(w) \/ WFail(w) \/ Crash
  /\ server'[c] = LoadRows(c, task[w].off, task[w].off + n)[c]

\* ... or leaves them alone.
Adds(c) == server'[c] = server[c] \/ \E w \in Workers, n \in Nat : Loads(c, w, n)

Truncates(w) ==
  /\ WPrepare(w) /\ task[w].resume /\ TableOf[task[w].chunk[1]] \notin Pke
  /\ server' = Truncate(TableOf[task[w].chunk[1]])

\* One statement loads rows of its chunk only.
LEMMA OneLoad ==
  ASSUME Base, NEW w \in Workers, wpc[w] = "load", NEW n \in Nat, task[w].off + n <= NumRows,
         WCommit(w) \/ WFail(w),
         server' = LoadRows(task[w].chunk, task[w].off, task[w].off + n), NEW c \in Chunks
  PROVE  Adds(c)
  <1>1. PICK d \in Chunks, lo \in Nat, hi \in Nat :
          d = task[w].chunk /\ lo = task[w].off /\ hi = task[w].off + n
    <2>1. task[w].chunk \in Chunks /\ task[w].off \in Nat /\ task[w].off + n \in Nat
      BY TaskOf DEF Busy
    <2> QED BY <2>1
  <1>2. CASE d = c
    <2>1. server'[c] = LoadRows(c, task[w].off, task[w].off + n)[c]
      BY <1>1, <1>2
    <2> QED BY <1>1, <1>2, <2>1 DEF Adds, Loads
  <1>3. CASE d # c
    <2>1. server' = LoadRows(d, lo, hi)
      BY <1>1
    <2>2. LoadRows(d, lo, hi)[c] = server[c]
      BY <1>3, RowsLoaded DEF Base, TypeOK
    <2> QED BY <2>1, <2>2 DEF Adds
  <1> QED BY <1>2, <1>3

\* How a step changes the rows on the server.
LEMMA ServerSteps ==
  ASSUME Base, [Next]_vars
  PROVE  (\A c \in Chunks : Adds(c)) \/ (\E w \in Workers : Truncates(w))
  <1>1. CASE Crash
    <2>1. ASSUME NEW c \in Chunks PROVE Adds(c)
      BY <1>1, CrashRows DEF Adds, Loads
    <2> QED BY <2>1
  <1>2. ASSUME NEW w \in Workers, WorkerStep(w)
        PROVE  (\A c \in Chunks : Adds(c)) \/ Truncates(w)
    <2>1. CASE WReady(w) \/ WStart(w) \/ WReport(w) \/ WEnd(w)
      BY <2>1 DEF WReady, WStart, WReport, WEnd, serverVars, Adds
    <2>2. CASE WPrepare(w)
      BY <2>2, TaskFields DEF Adds, Truncates
    <2>3. CASE WCommit(w)
      <3>1. wpc[w] = "load"
        BY <2>3 DEF WCommit
      <3>2. PICK n \in 0..NumRows : /\ task[w].off + n <= NumRows
              /\ server' = LoadRows(task[w].chunk, task[w].off, task[w].off + n)
        BY <2>3, TaskFields
      <3>3. n \in Nat
        BY <3>2, Sizes
      <3> QED BY <2>3, <3>1, <3>2, <3>3, OneLoad
    <2>4. CASE WFail(w)
      <3>1. CASE wpc[w] = "load" /\ \E n \in Kept(w) : server' =
                   LoadRows(task[w].chunk, task[w].off, task[w].off + n)
        <4>1. PICK n \in Kept(w) : server' = LoadRows(task[w].chunk, task[w].off, task[w].off + n)
          BY <3>1
        <4>2. task[w].off \in Nat /\ task[w].off <= NumRows
          BY <3>1, TaskOf DEF Base, OffsetInv, Busy
        <4>3. n \in Nat /\ task[w].off + n <= NumRows
          BY <4>2, KeptSize
        <4> QED BY <2>4, <3>1, <4>1, <4>3, OneLoad
      <3> QED BY <2>4, <3>1 DEF WFail, Adds
    <2> QED BY <1>2, <2>1, <2>2, <2>3, <2>4 DEF WorkerStep
  <1>3. CASE UNCHANGED vars
    BY <1>3 DEF vars, serverVars, Adds
  <1>4. CASE ReadLog \/ RewriteLog \/ CheckObjects \/ Begin \/ Restart \/ Finish \/ Join
             \/ SkipChunk \/ ScheduleChunk \/ NothingToDo \/ HandleLoadEvent \/ HandleExit
             \/ Interrupt \/ MainError
    <2>1. server' = server
      BY <1>4 DEF ReadLog, RewriteLog, CheckObjects, Begin, Restart, Finish, Join,
           SkipChunk, ScheduleChunk, NothingToDo, HandleLoadEvent, HandleExit, Interrupt, MainError,
           serverVars
    <2> QED BY <2>1 DEF Adds
  <1> QED BY <1>1, <1>2, <1>3, <1>4, MainPlaces

\* What is on the server stays, unless the table is truncated.
LEMMA RowsKept ==
  ASSUME Base, [Next]_vars, NEW c \in Chunks, NEW r \in 1..NumRows, server[c][r] > 0
  PROVE  \/ server'[c][r] > 0
         \/ \E w \in Workers :
              /\ WPrepare(w) /\ task[w].resume /\ TableOf[task[w].chunk[1]] \notin Pke
              /\ TableOf[task[w].chunk[1]] = TableOf[c[1]]
  <1>0. TypeOK /\ server \in [Chunks -> [1..NumRows -> 0..MaxCopies]]
    BY DEF Base, TypeOK
  <1>1. ASSUME Adds(c) PROVE server'[c][r] > 0
    <2>1. CASE server'[c] = server[c]
      BY <2>1
    <2>2. ASSUME NEW w \in Workers, NEW n \in Nat, Loads(c, w, n) PROVE server'[c][r] > 0
      <3>1. PICK lo \in Nat, hi \in Nat : server'[c] = LoadRows(c, lo, hi)[c]
        <4>1. task[w].off \in Nat /\ task[w].off + n \in Nat
          BY <2>2, TaskOf DEF Busy, Loads
        <4> QED BY <2>2, <4>1 DEF Loads
      <3>2. LoadRows(c, lo, hi)[c][r] > 0
        BY <1>0, <3>1, RowsLoaded
      <3> QED BY <3>1, <3>2
    <2> QED BY <1>1, <2>1, <2>2 DEF Adds
  <1>3. ASSUME NEW w \in Workers, server' = Truncate(TableOf[task[w].chunk[1]]),
               TableOf[task[w].chunk[1]] # TableOf[c[1]]
        PROVE  server'[c][r] > 0
    <2>1. server'[c] = server[c]
      BY <1>0, <1>3, RowsTruncated
    <2> QED BY <2>1
  <1> QED BY <1>1, <1>3, ServerSteps DEF Truncates

\* What is on the server of a table with a key stays, whatever is loaded.
LEMMA RowsStay ==
  ASSUME Base, [Next]_vars, NEW c \in Chunks, TableOf[c[1]] \in Pke, NEW r \in 1..NumRows,
         server[c][r] > 0
  PROVE  server'[c][r] > 0
  BY RowsKept

\* The end of a run.
LEMMA SubsEnd ==
  ASSUME Base, Finish \/ Join \/ Crash, TypeOK'
  PROVE  SubChunks'
  <1>0. TypeOK
    BY DEF Base
  <1>1. EndProcess /\ mpc' \in {"down", "complete"} /\ runs' = runs
    BY DEF Finish, Join, Crash
  <1>2. [Next]_vars /\ ~HandleLoadEvent
    <2>1. mpc' # "load" /\ Next
      BY <1>1 DEF Next, MainStep
    <2>2. HandleLoadEvent => mpc' = "load"
      BY DEF HandleLoadEvent, Handling, mainVars
    <2> QED BY <2>1, <2>2
  <1>3. Len(queue') = 0 /\ \A w \in Workers : task'[w].chunk = <<>>
    BY <1>1, EndIs
  <1>4. ASSUME NEW c \in Chunks
        PROVE  \E v \in [0..MaxSub -> 0..NotDone] : \E f \in 0..MaxSub : SubchunkInv(c, v, f)'
    <2>1. PICK v \in [0..MaxSub -> 0..NotDone], f \in 0..MaxSub : SubchunkInv(c, v, f)
      BY DEF Base, SubChunks
    <2>2. PICK u \in [0..MaxSub -> 0..NotDone], g \in 0..MaxSub :
            SubView(c, u, g)' /\ g <= f /\ Skip(u, g) <= Skip(v, f)
      <3>1. CASE Log'.sub = Log.sub
        <4>1. Log'.sub[c] = Log.sub[c] /\ SubView(c, v, f)
          BY <2>1, <3>1 DEF SubchunkInv
        <4> QED BY <1>3, <4>1, ViewEnds
      <3>2. CASE Log' = EmptyLog
        <4>1. PICK u \in [0..MaxSub -> 0..NotDone], g \in 0..MaxSub :
                SubView(c, u, g)' /\ g = 0 /\ Skip(u, g) = 0
          BY <1>3, <3>2, ViewEmpty
        <4>2. Skip(v, f) \in Nat
          BY SkipIsNat
        <4>3. g <= f /\ Skip(u, g) <= Skip(v, f)
          BY <4>1, <4>2, Sizes
        <4> QED BY <4>1, <4>3
      <3> QED BY <1>2, <3>1, <3>2, LogSame
    <2>3. c # <<>>
      BY ChunkShape
    <2>4. SubCount(c, g)'
      <3>1. f <= Limit(runs)
        BY <2>1 DEF SubchunkInv, SubCount
      <3>2. g <= Limit(runs')
        <4>1. PICK l \in Nat : l = Limit(runs)
          BY <1>0, RunsAre
        <4>2. f \in Nat /\ g \in Nat
          BY Sizes
        <4>3. g <= l
          BY <2>2, <3>1, <4>1, <4>2
        <4> QED BY <1>1, <4>1, <4>3
      <3> QED BY <1>1, <1>3, <2>3, <3>2 DEF SubCount
    <2>5. SubRows(c, u, g)'
      <3> SUFFICES ASSUME TableOf[c[1]] \in Pke
                   PROVE  /\ Skip(u, g) <= NumRows
                          /\ \A r \in 1..Skip(u, g) : server'[c][r] > 0
        BY <1>3, <2>3 DEF SubRows
      <3>1. Skip(v, f) <= NumRows /\ \A r \in 1..Skip(v, f) : server[c][r] > 0
        BY <2>1 DEF SubchunkInv, SubRows
      <3>2. Skip(v, f) \in Nat /\ Skip(u, g) \in Nat
        BY SkipIsNat
      <3>3. Skip(u, g) <= NumRows
        BY <2>2, <3>1, <3>2, Sizes
      <3>4. ASSUME NEW r \in 1..Skip(u, g) PROVE server'[c][r] > 0
        <4>1. PICK m \in Nat, n \in Nat : m = Skip(u, g) /\ n = Skip(v, f)
          BY <3>2
        <4>2. m <= n /\ n <= NumRows /\ NumRows \in Nat /\ r \in 1..m
          BY <2>2, <3>1, <4>1, Sizes
        <4>3. r \in 1..n /\ r \in 1..NumRows
          BY <4>1, <4>2
        <4>4. r \in 1..Skip(v, f) /\ r \in 1..NumRows
          BY <4>1, <4>3
        <4> QED BY <1>2, <3>1, <4>4, RowsStay
      <3> QED BY <3>3, <3>4
    <2> QED BY <2>2, <2>4, <2>5 DEF SubchunkInv
  <1> QED BY <1>4 DEF SubChunks

\* The main thread takes an event that is no sub-chunk, or none.
LEMMA SubsTake ==
  ASSUME Base,
         SkipChunk \/ NothingToDo \/ HandleExit \/ HandleLoadEvent \/ Interrupt \/ MainError,
         NEW c \in Chunks, HandleLoadEvent => ~SubAt(1, c)
  PROVE  \E v \in [0..MaxSub -> 0..NotDone] : \E f \in 0..MaxSub : SubchunkInv(c, v, f)'
  <1>0. TypeOK
    BY DEF Base
  <1>1. PICK v \in [0..MaxSub -> 0..NotDone], f \in 0..MaxSub : SubchunkInv(c, v, f)
    BY DEF Base, SubChunks
  <1>2. /\ UNCHANGED <<server, runs, last, wpc, task>> /\ mpc = "load" /\ mpc' \in {"load", "join"}
        /\ queue' = queue \/ (queue # <<>> /\ queue' = Tail(queue))
    BY MainTakes
  <1>3. Next
    BY DEF Next, MainStep
  <1>4. Log'.sub[c] = Log.sub[c]
    <2>1. CASE HandleLoadEvent
      <3>1. PICK t \in LoadEvents, d \in Chunks : LogsEvent(t, d)
        BY <2>1, SomeEventLogged
      <3>2. d # c \/ t # "LOAD_SUBCHUNK_END"
        BY <2>1, <3>1, EventLogged DEF SubAt, EventAt
      <3>3. file'.sub[c] = file.sub[c]
        BY <3>1, <3>2, EventLogged DEF LoadEvents
      <3> QED BY <1>2, <3>3 DEF Log
    <2>2. CASE ~HandleLoadEvent
      <3>1. ~Crash
        BY <1>2 DEF Crash
      <3> QED BY <1>3, <2>2, <3>1, LogSame
    <2> QED BY <2>1, <2>2
  <1>5. SubView(c, v, f)'
    <2>1. CASE queue' = queue
      BY <1>1, <1>2, <1>4, <2>1, ViewKept DEF SubchunkInv, SubAt, EventAt
    <2>2. CASE queue # <<>> /\ queue' = Tail(queue) /\ ~SubAt(1, c)
      BY <1>0, <1>1, <1>2, <1>4, <2>2, ViewPopped DEF SubchunkInv
    <2>3. ASSUME ~HandleLoadEvent, queue' # queue PROVE ~SubAt(1, c)
      <3>1. PICK t : Handling(t) /\ t # "LOAD_SUBCHUNK_END"
        BY <2>3 DEF SkipChunk, NothingToDo, HandleExit, Interrupt, MainError
      <3> QED BY <1>0, <3>1, Handled DEF SubAt, EventAt
    <2> QED BY <1>2, <2>1, <2>2, <2>3
  <1>6. Untouched(c)' => Untouched(c)
    <2>1. \A p \in Parts : consumed'[p] = consumed[p] \/ consumed'[p] = consumed[p] + 1
      BY <1>0 DEF SkipChunk, NothingToDo, HandleExit, HandleLoadEvent, Interrupt, MainError,
                  mainVars, TypeOK
    <2>2. c[1] \in Parts
      BY ChunkShape
    <2> QED BY <1>0, <2>1, <2>2, StaysTouched
  <1>7. SubCount(c, f)'
    BY <1>1, <1>2, <1>6 DEF SubchunkInv, SubCount
  <1>8. SubRows(c, v, f)'
    BY <1>1, <1>2 DEF SubchunkInv, SubRows
  <1> QED BY <1>5, <1>7, <1>8 DEF SubchunkInv

\* The end of a sub-chunk is logged.
LEMMA SubsLogged ==
  ASSUME Base, NEW c \in Chunks, LogsEvent("LOAD_SUBCHUNK_END", c)
  PROVE  \E v \in [0..MaxSub -> 0..NotDone] : \E f \in 0..MaxSub : SubchunkInv(c, v, f)'
  <1>0. TypeOK /\ Taken /\ EventOrder /\ LogKept
    BY DEF Base, Handshake
  <1>1. PICK v \in [0..MaxSub -> 0..NotDone], f \in 0..MaxSub : SubchunkInv(c, v, f)
    BY DEF Base, SubChunks
  <1>2. /\ mpc = "load" /\ mpc' = "load" /\ queue # <<>> /\ queue[1].worker \in Workers
        /\ queue[1].type = "LOAD_SUBCHUNK_END" /\ 1 \in 1..Len(queue)
        /\ task[queue[1].worker].chunk = c /\ queue[1].sub \in 0..MaxSub
    BY EventLogged DEF LoadEvents
  <1>3. PICK k \in 0..MaxSub : k = queue[1].sub
    BY <1>2
  <1>4. /\ UNCHANGED <<server, runs, consumed, wpc, task>> /\ queue' = Tail(queue)
    BY DEF LogsEvent
  <1>5. SubAt(1, c)
    BY <1>2 DEF SubAt, EventAt
  <1>6. k < f /\ queue[1].bytes = v[k] /\ file.sub[c][k] = NotDone
    BY <1>1, <1>2, <1>3, <1>5 DEF SubchunkInv, SubView, SubAt, Log
  <1>7. last.sub[c][k] = NotDone
    BY <1>0, <1>2, <1>6 DEF LogKept
  <1>8. file'.sub[c][k] = v[k] /\ \A j \in 0..MaxSub : j # k => file'.sub[c][j] = file.sub[c][j]
    BY <1>3, <1>6, <1>7, EventLogged DEF LoadEvents
  <1>9. Log = file /\ Log' = file'
    BY <1>2 DEF Log
  <1>10. v[k] # NotDone
    BY <1>1, <1>6, Sizes DEF SubchunkInv, SubView
  <1>11. ASSUME NEW i \in 2..Len(queue), SubAt(i, c) PROVE k < queue[i].sub
    <2>1. i \in 1..Len(queue) /\ 1 < i
      BY <1>0, <1>2, <1>4, PoppedOne
    <2>2. queue[i].worker \in Workers /\ task[queue[i].worker].chunk = c
          /\ queue[i].type = "LOAD_SUBCHUNK_END"
      BY <1>0, <1>11, <2>1, EventWorker DEF SubAt, EventAt
    <2>3. queue[i].worker = queue[1].worker
      BY <1>0, <1>2, <2>2, ChunkShape DEF Taken
    <2>4. Follows(queue[1], queue[i])
      BY <1>0, <1>2, <2>1, <2>3 DEF EventOrder
    <2> QED BY <1>2, <1>3, <2>2, <2>4 DEF Follows
  <1>12. ASSUME NEW j \in 0..MaxSub, j < f, file.sub[c][j] = NotDone, j # k
         PROVE  \E i \in 2..Len(queue) : SubAt(i, c) /\ queue[i].sub = j
    <2>1. PICK i \in 1..Len(queue) : SubAt(i, c) /\ queue[i].sub = j
      BY <1>1, <1>9, <1>12 DEF SubchunkInv, SubView, SubAt
    <2>2. i # 1
      BY <1>3, <1>12, <2>1
    <2> QED BY <1>0, <1>2, <1>4, <2>1, <2>2, PoppedOne
  <1>13. SubView(c, v, f)'
    <2>1. \A j \in 0..MaxSub : v[j] = NotDone <=> j >= f
      BY <1>1 DEF SubchunkInv, SubView
    <2>2. \A j \in 0..MaxSub : file'.sub[c][j] \in {v[j], NotDone}
      BY <1>1, <1>8, <1>9 DEF SubchunkInv, SubView
    <2>3. ASSUME NEW j \in 0..MaxSub, NEW m \in 0..MaxSub, j < m, file'.sub[c][m] # NotDone
          PROVE  file'.sub[c][j] # NotDone
      <3>1. CASE m = k
        <4>1. j < f /\ j # k
          BY <1>6, <2>3, <3>1, Sizes
        <4>2. ASSUME file.sub[c][j] = NotDone PROVE FALSE
          <5>1. PICK i \in 2..Len(queue) : SubAt(i, c) /\ queue[i].sub = j
            BY <1>12, <4>1, <4>2
          <5>2. k < j
            BY <1>11, <5>1
          <5> QED BY <2>3, <3>1, <5>2, Sizes
        <4> QED BY <1>8, <4>1, <4>2
      <3>2. CASE m # k
        <4>1. file.sub[c][j] # NotDone
          BY <1>1, <1>8, <1>9, <2>3, <3>2 DEF SubchunkInv, SubView
        <4> QED BY <1>8, <1>10, <4>1
      <3> QED BY <3>1, <3>2
    <2>4. ASSUME NEW j \in 0..MaxSub, j < f, file'.sub[c][j] = NotDone
          PROVE  \E i \in 1..Len(queue') : SubAt(i, c)' /\ queue'[i].sub = j
      <3>1. j # k /\ file.sub[c][j] = NotDone
        BY <1>8, <1>10, <2>4
      <3>2. PICK i \in 2..Len(queue) : SubAt(i, c) /\ queue[i].sub = j
        BY <1>12, <2>4, <3>1
      <3>3. i - 1 \in 1..Len(queue') /\ queue'[i - 1] = queue[i] /\ SubAt(i - 1, c)'
        BY <1>0, <1>2, <1>4, <3>2, EventsPopped DEF SubAt
      <3> QED BY <3>2, <3>3
    <2>5. ASSUME NEW i \in 1..Len(queue'), SubAt(i, c)'
          PROVE  /\ queue'[i].sub < f /\ queue'[i].bytes = v[queue'[i].sub]
                 /\ file'.sub[c][queue'[i].sub] = NotDone
      <3>1. i + 1 \in 1..Len(queue) /\ queue'[i] = queue[i + 1] /\ SubAt(i + 1, c)
        BY <1>0, <1>2, <1>4, <2>5, EventsPopped DEF SubAt
      <3>2. i + 1 \in 2..Len(queue)
        BY <1>0, <1>2, <1>4, PoppedOne
      <3>3. queue[i + 1].sub < f /\ queue[i + 1].bytes = v[queue[i + 1].sub]
            /\ file.sub[c][queue[i + 1].sub] = NotDone
        BY <1>1, <1>9, <3>1 DEF SubchunkInv, SubView, SubAt
      <3>4. k < queue[i + 1].sub
        BY <1>11, <3>1, <3>2
      <3>5. queue[i + 1].sub \in 0..MaxSub /\ queue[i + 1].sub # k
        <4>1. queue[i + 1] \in Events
          BY <1>0, <3>1, EventWorker
        <4>2. queue[i + 1].sub \in 0..MaxSub
          BY <4>1 DEF Events
        <4> QED BY <3>4, <4>2, Sizes
      <3> QED BY <1>8, <3>1, <3>3, <3>5
    <2> QED BY <1>9, <2>1, <2>2, <2>3, <2>4, <2>5 DEF SubView, SubAt
  <1>14. SubCount(c, f)'
    BY <1>1, <1>2, <1>4 DEF SubchunkInv, SubCount, Untouched
  <1>15. SubRows(c, v, f)'
    BY <1>1, <1>4 DEF SubchunkInv, SubRows
  <1> QED BY <1>13, <1>14, <1>15 DEF SubchunkInv

\* A chunk is given to a worker.
LEMMA SubsScheduled ==
  ASSUME Base, ScheduleChunk, NEW c \in Chunks
  PROVE  \E v \in [0..MaxSub -> 0..NotDone] : \E f \in 0..MaxSub : SubchunkInv(c, v, f)'
  <1>0. TypeOK
    BY DEF Base
  <1>1. PICK w \in Workers, d \in Chunks, off \in Nat, sub \in 0..MaxSub :
          Scheduled(w, d, off, sub)
    BY ScheduledTask
  <1>2. /\ task'[w].chunk = d /\ task'[w].off = off /\ task'[w].sub = sub /\ wpc'[w] = "given"
        /\ \A u \in Workers : u # w => task'[u] = task[u] /\ wpc'[u] = wpc[u]
        /\ consumed'[d[1]] = consumed[d[1]] + 1
        /\ \A p \in Parts : p # d[1] => consumed'[p] = consumed[p]
        /\ mpc = "load" /\ mpc' = "load" /\ queue[1].type = "READY"
    BY <1>0, <1>1, GivenTask
  <1>3. /\ UNCHANGED <<server, runs, file, last>> /\ Untouched(d) /\ last.chunk[d] # "DONE"
        /\ off = (IF last.chunk[d] = "INTERRUPTED" THEN BytesToSkip(d) ELSE 0)
        /\ sub = (IF last.chunk[d] = "INTERRUPTED" THEN FirstSubchunk(d) ELSE 0)
    BY <1>1 DEF Scheduled
  <1>4. PICK v \in [0..MaxSub -> 0..NotDone], f \in 0..MaxSub : SubchunkInv(c, v, f)
    BY DEF Base, SubChunks
  <1>5. Log' = Log /\ Log = file
    BY <1>2, <1>3 DEF Log
  <1>6. ~SubAt(1, c)
    BY <1>2 DEF SubAt, EventAt
  <1>7. SubView(c, v, f)'
    BY <1>0, <1>1, <1>4, <1>5, <1>6, EventsScheduled, ViewPopped DEF SubchunkInv
  <1>8. Untouched(c)' => Untouched(c)
    BY <1>0, <1>2, StaysTouched, ChunkShape
  <1>9. CASE c # d
    <2>1. SubCount(c, f)'
      BY <1>2, <1>3, <1>4, <1>8, <1>9 DEF SubchunkInv, SubCount
    <2>2. SubRows(c, v, f)'
      BY <1>2, <1>3, <1>4, <1>9 DEF SubchunkInv, SubRows
    <2> QED BY <1>7, <2>1, <2>2 DEF SubchunkInv
  <1>10. CASE c = d
    <2>1. last.sub[c] = v /\ FirstSubchunk(c) = f /\ BytesToSkip(c) = Skip(v, f)
      BY <1>2, <1>3, <1>4, <1>10, FirstIs DEF SubchunkInv
    <2>2. sub = f /\ off = Skip(v, f)
      <3>1. CASE last.chunk[c] = "INTERRUPTED"
        BY <1>3, <1>10, <2>1, <3>1
      <3>2. CASE last.chunk[c] # "INTERRUPTED"
        <4>1. last.chunk[c] = "PENDING"
          BY <1>0, <1>3, <1>10, <3>2 DEF TypeOK, Logs
        <4>2. Log.chunk[c] = "PENDING"
          BY <1>2, <1>3, <1>5, <1>10, <4>1 DEF Base, LogKept
        <4>3. Log.sub[c][0] = NotDone /\ 0 \in 0..MaxSub
          BY <4>2, Sizes DEF Base, ChunkLogged
        <4>4. v[0] = NotDone
          BY <1>2, <1>3, <1>5, <1>10, <2>1, <4>3 DEF Base, LogKept
        <4>5. f = 0
          BY <1>4, <4>3, <4>4, Sizes DEF SubchunkInv, SubView
        <4>6. Skip(v, 0) = 0
          BY SkipIsNat, SkipFacts
        <4> QED BY <1>3, <1>10, <3>2, <4>5, <4>6
      <3> QED BY <3>1, <3>2
    <2>3. ASSUME NEW u \in Workers, task'[u].chunk = c PROVE u = w
      <3>1. CASE u # w
        <4>1. task[u].chunk = c /\ c # <<>>
          BY <1>2, <2>3, <3>1, ChunkShape
        <4>2. ~Untouched(c)
          BY <4>1 DEF Base, Taken
        <4> QED BY <1>3, <1>10, <4>2
      <3> QED BY <3>1
    <2>4. f <= Limit(runs - 1)
      BY <1>2, <1>3, <1>4, <1>10 DEF SubchunkInv, SubCount
    <2>5. SubCount(c, f)'
      BY <1>2, <1>3, <1>4, <1>8, <2>2, <2>3, <2>4 DEF SubchunkInv, SubCount
    <2>6. SubRows(c, v, f)'
      BY <1>2, <1>3, <1>4, <2>2, <2>3 DEF SubchunkInv, SubRows
    <2> QED BY <1>7, <2>5, <2>6 DEF SubchunkInv
  <1> QED BY <1>9, <1>10

\* A worker's step, and the chunk of another one.
LEMMA SubsOfOthers ==
  ASSUME Base, NEW w \in Workers, WorkerStep(w), NEW c \in Chunks, task[w].chunk # c
  PROVE  \E v \in [0..MaxSub -> 0..NotDone] : \E f \in 0..MaxSub : SubchunkInv(c, v, f)'
  <1>0. TypeOK
    BY DEF Base
  <1>1. PICK v \in [0..MaxSub -> 0..NotDone], f \in 0..MaxSub : SubchunkInv(c, v, f)
    BY DEF Base, SubChunks
  <1>2. /\ UNCHANGED <<file, runs, mpc, last, consumed>>
        /\ \A u \in Workers : u # w => wpc'[u] = wpc[u] /\ task'[u] = task[u]
        /\ task'[w].chunk # c
    BY <1>0, WorkerKeeps
  <1>3. Log' = Log
    BY <1>2 DEF Log
  <1>4. SubView(c, v, f)'
    BY <1>0, <1>1, <1>3, ViewPushed DEF SubchunkInv
  <1>5. SubCount(c, f)'
    BY <1>1, <1>2 DEF SubchunkInv, SubCount, Untouched
  <1>6. SubRows(c, v, f)'
    <2> SUFFICES ASSUME TableOf[c[1]] \in Pke
                 PROVE  /\ Skip(v, f) <= NumRows /\ \A r \in 1..Skip(v, f) : server'[c][r] > 0
                        /\ \A u \in Workers : task'[u].chunk = c =>
                             /\ wpc'[u] \in {"given", "prepare", "load"} => task'[u].off = Skip(v, f)
                             /\ wpc'[u] = "report" =>
                                  /\ task'[u].off = Skip(v, f) + task'[u].trx
                                  /\ \A r \in 1..task'[u].off : server'[c][r] > 0
      BY DEF SubRows
    <2>0. Next
      BY DEF Next
    <2>1. Skip(v, f) <= NumRows /\ \A r \in 1..Skip(v, f) : server[c][r] > 0
      BY <1>1 DEF SubchunkInv, SubRows
    <2>2. Skip(v, f) \in Nat
      BY SkipIsNat
    <2>3. ASSUME NEW r \in 1..Skip(v, f) PROVE server'[c][r] > 0
      <3>1. r \in 1..NumRows
        BY <2>1, <2>2, Sizes
      <3> QED BY <2>0, <2>1, <3>1, RowsStay
    <2>4. ASSUME NEW u \in Workers, task'[u].chunk = c
          PROVE  /\ wpc'[u] \in {"given", "prepare", "load"} => task'[u].off = Skip(v, f)
                 /\ wpc'[u] = "report" => /\ task'[u].off = Skip(v, f) + task'[u].trx
                                          /\ \A r \in 1..task'[u].off : server'[c][r] > 0
      <3>1. u # w /\ wpc'[u] = wpc[u] /\ task'[u] = task[u]
        BY <1>2, <2>4
      <3>2. /\ wpc[u] \in {"given", "prepare", "load"} => task[u].off = Skip(v, f)
            /\ wpc[u] = "report" => /\ task[u].off = Skip(v, f) + task[u].trx
                                    /\ \A r \in 1..task[u].off : server[c][r] > 0
        BY <1>1, <2>4, <3>1 DEF SubchunkInv, SubRows
      <3>3. ASSUME wpc[u] = "report", NEW r \in 1..task[u].off PROVE server'[c][r] > 0
        <4>1. task[u].off <= NumRows /\ task[u].off \in Nat
          BY <3>3, TaskOf DEF Base, OffsetInv, Busy
        <4>2. r \in 1..NumRows
          BY <4>1, Sizes
        <4> QED BY <2>0, <3>2, <3>3, <4>2, RowsStay
      <3> QED BY <3>1, <3>2, <3>3
    <2> QED BY <2>1, <2>3, <2>4
  <1> QED BY <1>4, <1>5, <1>6 DEF SubchunkInv

\* A worker's step other than WReport, and its own chunk.
LEMMA SubsOfOwn ==
  ASSUME Base, NEW w \in Workers, WorkerStep(w), ~WReport(w), NEW c \in Chunks,
         task[w].chunk = c
  PROVE  \E v \in [0..MaxSub -> 0..NotDone] : \E f \in 0..MaxSub : SubchunkInv(c, v, f)'
  <1>0. TypeOK /\ wpc \in [Workers -> WorkerPlaces]
    BY DEF Base, TypeOK, WorkerPlaces
  <1>1. PICK v \in [0..MaxSub -> 0..NotDone], f \in 0..MaxSub : SubchunkInv(c, v, f)
    BY DEF Base, SubChunks
  <1>2. /\ UNCHANGED <<file, runs, mpc, last, consumed>>
        /\ \A u \in Workers : u # w => wpc'[u] = wpc[u] /\ task'[u] = task[u]
        /\ task'[w].chunk = c
    BY <1>0, WorkerKeeps
  <1>3. Log' = Log
    BY <1>2 DEF Log
  <1>4. SubView(c, v, f)'
    BY <1>0, <1>1, <1>3, ViewPushed DEF SubchunkInv
  <1>5. ASSUME NEW u \in Workers, task'[u].chunk = c PROVE u = w
    BY <1>2, <1>5, ChunkShape DEF Base, Taken
  <1>a. Skip(v, f) \in Nat /\ f \in Nat /\ Limit(runs - 1) \in Nat /\ NumRows \in Nat
    <2>1. Skip(v, f) \in Nat
      BY SkipIsNat
    <2>2. Limit(runs - 1) \in Nat
      BY <1>0, RunsAre
    <2> QED BY <2>1, <2>2, Sizes
  <1>b. Next
    BY DEF Next
  <1>c. ASSUME TableOf[c[1]] \in Pke
        PROVE  Skip(v, f) <= NumRows /\ \A r \in 1..Skip(v, f) : server'[c][r] > 0
    <2>1. Skip(v, f) <= NumRows /\ \A r \in 1..Skip(v, f) : server[c][r] > 0
      BY <1>1, <1>c DEF SubchunkInv, SubRows
    <2>2. ASSUME NEW r \in 1..Skip(v, f) PROVE server'[c][r] > 0
      <3>1. r \in 1..NumRows
        BY <1>a, <2>1
      <3> QED BY <1>b, <1>c, <2>1, <3>1, RowsStay
    <2> QED BY <2>1, <2>2
  <1>6. ASSUME /\ wpc'[w] \in {"given", "prepare"} =>
                    task'[w].sub = f /\ f <= Limit(runs - 1)
               /\ wpc'[w] = "load" => task'[w].sub = f /\ f <= Limit(runs - 1) + task'[w].off
               /\ wpc'[w] = "report" =>
                    task'[w].sub = f /\ f + task'[w].trx <= Limit(runs - 1) + task'[w].off,
               TableOf[c[1]] \in Pke =>
                 /\ wpc'[w] \in {"given", "prepare", "load"} => task'[w].off = Skip(v, f)
                 /\ wpc'[w] = "report" => /\ task'[w].off = Skip(v, f) + task'[w].trx
                                          /\ \A r \in 1..task'[w].off : server'[c][r] > 0
        PROVE  \E x \in [0..MaxSub -> 0..NotDone] : \E g \in 0..MaxSub : SubchunkInv(c, x, g)'
    <2>1. SubCount(c, f)'
      BY <1>1, <1>2, <1>5, <1>6 DEF SubchunkInv, SubCount, Untouched
    <2>2. SubRows(c, v, f)'
      BY <1>5, <1>6, <1>c DEF SubRows
    <2> QED BY <1>4, <2>1, <2>2 DEF SubchunkInv
  <1>d. /\ wpc[w] \in {"given", "prepare"} =>
             task[w].sub = f /\ f <= Limit(runs - 1)
        /\ wpc[w] = "load" => task[w].sub = f /\ f <= Limit(runs - 1) + task[w].off
    BY <1>1 DEF SubchunkInv, SubCount
  <1>e. TableOf[c[1]] \in Pke /\ wpc[w] \in {"given", "prepare", "load"} => task[w].off = Skip(v, f)
    BY <1>1 DEF SubchunkInv, SubRows
  <1>7. CASE WReady(w) \/ WEnd(w) \/ WFail(w)
    <2>1. wpc'[w] \in {"wait", "ready", "exited"}
      BY <1>0, <1>7 DEF WReady, WEnd, WFail
    <2> QED BY <1>6, <2>1
  <1>8. CASE WStart(w)
    <2>1. wpc[w] = "given" /\ wpc'[w] \in {"exited", "prepare"} /\ task' = task
      BY <1>0, <1>8 DEF WStart
    <2> QED BY <1>6, <1>d, <1>e, <2>1
  <1>9. CASE WPrepare(w)
    <2>1. wpc[w] = "prepare" /\ wpc'[w] = "load" /\ Busy(w)
      BY <1>0, <1>9 DEF WPrepare, Busy
    <2>2. task'[w].sub = f
      BY <1>9, <1>d, <2>1, TaskFields
    <2>3. task'[w].off = 0 \/ task'[w].off = task[w].off
      BY <1>9, TaskFields
    <2>4. task[w].off \in Nat
      BY <2>1, TaskOf
    <2>5. f <= Limit(runs - 1) + task'[w].off
      BY <1>a, <1>d, <2>1, <2>3, <2>4
    <2>6. TableOf[c[1]] \in Pke => task'[w].off = Skip(v, f)
      BY <1>9, <1>e, <2>1, TaskFields
    <2> QED BY <1>6, <2>1, <2>2, <2>5, <2>6
  <1>10. CASE WCommit(w)
    <2>1. wpc[w] = "load" /\ wpc'[w] \in {"end", "report"} /\ Busy(w)
      BY <1>0, <1>10 DEF WCommit, Busy
    <2>2. PICK n \in 0..NumRows :
              /\ task[w].off + n <= NumRows
              /\ server' = LoadRows(task[w].chunk, task[w].off, task[w].off + n)
              /\ task'[w].off = task[w].off + n /\ task'[w].trx = n /\ task'[w].sub = task[w].sub
      BY <1>10, TaskFields
    <2>3. PICK o \in Nat : o = task[w].off
      BY <2>1, TaskOf
    <2>4. PICK l \in Nat : l = Limit(runs - 1)
      BY <1>a
    <2>5. task'[w].sub = f /\ f + task'[w].trx <= Limit(runs - 1) + task'[w].off
      <3>1. f <= l + o
        BY <1>d, <2>1, <2>3, <2>4
      <3>2. f + n <= l + (o + n)
        BY <1>a, <3>1
      <3> QED BY <1>d, <2>1, <2>2, <2>3, <2>4, <3>2
    <2>6. ASSUME TableOf[c[1]] \in Pke
          PROVE  /\ task'[w].off = Skip(v, f) + task'[w].trx
                 /\ \A r \in 1..task'[w].off : server'[c][r] > 0
      <3>1. o = Skip(v, f)
        BY <1>e, <2>1, <2>3, <2>6
      <3>2. ASSUME NEW r \in 1..task'[w].off PROVE server'[c][r] > 0
        <4>1. r \in 1..(o + n) /\ r \in 1..NumRows /\ o + n \in Nat
          BY <1>a, <2>2, <2>3, <3>2
        <4>2. CASE r <= o
          <5>1. r \in 1..Skip(v, f)
            BY <3>1, <4>1, <4>2
          <5> QED BY <1>c, <2>6, <5>1
        <4>3. CASE ~(r <= o)
          <5>1. server' = LoadRows(c, o, o + n)
            BY <2>2, <2>3
          <5>2. ~(r <= o \/ r > o + n)
            BY <4>1, <4>3
          <5>3. server \in [Chunks -> [1..NumRows -> 0..MaxCopies]]
            BY <1>0 DEF TypeOK
          <5> QED BY <4>1, <5>1, <5>2, <5>3, RowsLoaded
        <4> QED BY <4>2, <4>3
      <3> QED BY <2>2, <2>3, <3>1, <3>2
    <2> QED BY <1>6, <2>1, <2>5, <2>6
  <1> QED BY <1>7, <1>8, <1>9, <1>10 DEF WorkerStep

\* A sub-chunk ends: its number and its rows are added.
LEMMA SubsReported ==
  ASSUME Base, NEW w \in Workers, WReport(w), NEW c \in Chunks, task[w].chunk = c
  PROVE  \E v \in [0..MaxSub -> 0..NotDone] : \E f \in 0..MaxSub : SubchunkInv(c, v, f)'
  <1>0. TypeOK /\ wpc \in [Workers -> WorkerPlaces] /\ WorkerStep(w) /\ Taken
    BY DEF Base, TypeOK, WorkerPlaces, WorkerStep
  <1>1. PICK v \in [0..MaxSub -> 0..NotDone], f \in 0..MaxSub : SubchunkInv(c, v, f)
    BY DEF Base, SubChunks
  <1>2. /\ UNCHANGED <<file, runs, mpc, last, consumed>>
        /\ \A u \in Workers : u # w => wpc'[u] = wpc[u] /\ task'[u] = task[u]
        /\ task'[w].chunk = c
    BY <1>0, WorkerKeeps
  <1>3. Log' = Log
    BY <1>2 DEF Log
  <1>4. wpc[w] = "report" /\ Busy(w) /\ queue' = Append(queue, Event("LOAD_SUBCHUNK_END", w))
    BY DEF WReport, Busy
  <1>5. ASSUME NEW u \in Workers, task'[u].chunk = c PROVE u = w
    BY <1>2, <1>5, ChunkShape DEF Base, Taken
  <1>6. /\ task'[w].off = task[w].off /\ task'[w].trx = task[w].trx
        /\ task'[w].sub = task[w].sub + 1 /\ server' = server
    BY TaskFields
  <1>7. PICK o \in Nat, t \in 0..NumRows, l \in Nat :
          o = task[w].off /\ t = task[w].trx /\ l = Limit(runs - 1)
    BY <1>0, <1>4, TaskOf, RunsAre
  <1>8. task[w].sub = f /\ f + t <= l + o
    BY <1>1, <1>4, <1>7 DEF SubchunkInv, SubCount
  <1>9. o <= NumRows
    BY <1>4, <1>7 DEF Base, OffsetInv
  <1>10. /\ f \in Nat /\ t \in Nat /\ NumRows \in Nat /\ MaxSub \in Nat /\ t # NotDone
         /\ t \in 0..NotDone
    BY Sizes
  <1>11. Limit(runs) = l + NumRows + 1 /\ Limit(runs) <= MaxSub
    <2>1. runs \in 1..MaxRuns
      BY <1>0 DEF TypeOK
    <2> QED BY <1>0, <1>7, <2>1, RunsAre, LimitGrows
  <1>12. f + 1 <= l + NumRows + 1
    BY <1>8, <1>9, <1>10
  <1>13. f + 1 <= Limit(runs)
    BY <1>11, <1>12
  <1>14. f + 1 \in 0..MaxSub
    <2>1. l + NumRows + 1 <= MaxSub
      BY <1>11
    <2> QED BY <1>10, <1>12, <2>1
  <1>15. PICK x : x = [v EXCEPT ![f] = t]
    OBVIOUS
  <1>16. /\ x \in [0..MaxSub -> 0..NotDone] /\ x[f] = t
         /\ \A k \in 0..MaxSub : k # f => x[k] = v[k]
    BY <1>10, <1>15
  <1>17. /\ \A k \in 0..MaxSub : v[k] = NotDone <=> k >= f
         /\ \A k \in 0..MaxSub : Log.sub[c][k] \in {v[k], NotDone}
         /\ \A j, k \in 0..MaxSub :
              j < k /\ Log.sub[c][k] # NotDone => Log.sub[c][j] # NotDone
         /\ \A k \in 0..MaxSub : k < f /\ Log.sub[c][k] = NotDone =>
              \E i \in 1..Len(queue) : SubAt(i, c) /\ queue[i].sub = k
         /\ \A i \in 1..Len(queue) : SubAt(i, c) =>
              /\ queue[i].sub < f /\ queue[i].bytes = v[queue[i].sub]
              /\ Log.sub[c][queue[i].sub] = NotDone
    BY <1>1 DEF SubchunkInv, SubView, SubAt
  <1>18. Log.sub[c][f] = NotDone
    BY <1>10, <1>17
  <1>n. PICK n : n = Len(queue) + 1
    OBVIOUS
  <1>19. /\ n \in 1..Len(queue') /\ SubAt(n, c)'
         /\ queue'[n].sub = f /\ queue'[n].bytes = t
         /\ \A i \in 1..Len(queue') : i \in 1..Len(queue) \/ i = n
    <2>1. /\ n \in 1..Len(queue')
          /\ queue'[n].type = "LOAD_SUBCHUNK_END" /\ queue'[n].worker = w
          /\ queue'[n].sub = f /\ queue'[n].bytes = t
          /\ \A i \in 1..Len(queue') : i \in 1..Len(queue) \/ i = n
      BY <1>0, <1>4, <1>7, <1>8, <1>n, PushedBy DEF AllEvents
    <2>2. SubAt(n, c)'
      BY <1>2, <2>1 DEF SubAt, EventAt
    <2> QED BY <2>1, <2>2
  <1>20. SubView(c, x, f + 1)'
    <2>1. ASSUME NEW k \in 0..MaxSub PROVE x[k] = NotDone <=> k >= f + 1
      <3>1. CASE k = f
        BY <1>10, <1>16, <3>1
      <3>2. CASE k # f
        BY <1>10, <1>16, <1>17, <3>2
      <3> QED BY <3>1, <3>2
    <2>2. \A k \in 0..MaxSub : Log.sub[c][k] \in {x[k], NotDone}
      BY <1>16, <1>17, <1>18
    <2>3. ASSUME NEW k \in 0..MaxSub, k < f + 1, Log.sub[c][k] = NotDone
          PROVE  \E i \in 1..Len(queue') : SubAt(i, c)' /\ queue'[i].sub = k
      <3>1. CASE k = f
        BY <1>19, <3>1
      <3>2. CASE k # f
        <4>1. k < f
          BY <1>10, <2>3, <3>2
        <4>2. PICK i \in 1..Len(queue) : SubAt(i, c) /\ queue[i].sub = k
          BY <1>17, <2>3, <4>1
        <4>3. i \in 1..Len(queue') /\ queue'[i] = queue[i] /\ SubAt(i, c)'
          BY <1>0, <4>2, EventsPushed DEF SubAt
        <4> QED BY <4>2, <4>3
      <3> QED BY <3>1, <3>2
    <2>4. ASSUME NEW i \in 1..Len(queue'), SubAt(i, c)'
          PROVE  /\ queue'[i].sub < f + 1 /\ queue'[i].bytes = x[queue'[i].sub]
                 /\ Log.sub[c][queue'[i].sub] = NotDone
      <3>1. CASE i = n
        BY <1>10, <1>16, <1>18, <1>19, <3>1
      <3>2. CASE i \in 1..Len(queue)
        <4>1. queue'[i] = queue[i] /\ SubAt(i, c)
          BY <1>0, <2>4, <3>2, EventsPushed DEF SubAt
        <4>2. PICK k \in 0..MaxSub : k = queue[i].sub
          <5>1. queue[i] \in Events
            BY <1>0, <3>2, EventWorker
          <5> QED BY <5>1 DEF Events
        <4>3. k < f /\ queue[i].bytes = v[k] /\ Log.sub[c][k] = NotDone
          BY <1>17, <3>2, <4>1, <4>2
        <4>4. k # f /\ k < f + 1
          BY <1>10, <4>2, <4>3
        <4> QED BY <1>16, <4>1, <4>2, <4>3, <4>4
      <3> QED BY <1>19, <3>1, <3>2
    <2> QED BY <1>3, <1>14, <1>16, <1>17, <2>1, <2>2, <2>3, <2>4 DEF SubView, SubAt
  <1>21. /\ wpc'[w] = "load" => t > 0
         /\ wpc'[w] \in {"load", "end"}
    BY <1>0, <1>7 DEF WReport
  <1>22. SubCount(c, f + 1)'
    <2>1. ~Untouched(c)
      BY <1>0, ChunkShape DEF Taken
    <2>2. ~Untouched(c)'
      BY <1>2, <2>1 DEF Untouched
    <2>3. wpc'[w] = "load" => f + 1 <= Limit(runs - 1) + task'[w].off
      <3>1. t > 0 => f + 1 <= l + o
        BY <1>8, <1>10
      <3> QED BY <1>6, <1>7, <1>21, <3>1
    <2>4. task'[w].sub = f + 1
      BY <1>6, <1>8
    <2> QED BY <1>2, <1>5, <1>13, <1>21, <2>2, <2>3, <2>4 DEF SubCount
  <1>23. SubRows(c, x, f + 1)'
    <2> SUFFICES ASSUME TableOf[c[1]] \in Pke
                 PROVE  /\ Skip(x, f + 1) <= NumRows /\ \A r \in 1..Skip(x, f + 1) : server'[c][r] > 0
                        /\ \A u \in Workers : task'[u].chunk = c =>
                             /\ wpc'[u] \in {"given", "prepare", "load"} => task'[u].off = Skip(x, f + 1)
                             /\ wpc'[u] = "report" =>
                                  /\ task'[u].off = Skip(x, f + 1) + task'[u].trx
                                  /\ \A r \in 1..task'[u].off : server'[c][r] > 0
      BY DEF SubRows
    <2>1. task[w].off = Skip(v, f) + task[w].trx /\ \A r \in 1..task[w].off : server[c][r] > 0
      BY <1>1, <1>4 DEF SubchunkInv, SubRows
    <2>2. Skip(x, f + 1) = o
      <3>1. v \in [Subs -> Nat] /\ x \in [Subs -> Nat] /\ f \in Subs
        BY <1>16, SkipIsNat DEF Subs
      <3>2. Skip(x, f) = Skip(v, f)
        <4>1. \A k \in Subs : k < f => x[k] = v[k]
          BY <1>10, <1>16 DEF Subs
        <4> QED BY <3>1, <4>1, SkipSame
      <3>3. Skip(x, f + 1) = Skip(x, f) + x[f]
        BY <3>1, SkipFacts
      <3> QED BY <1>7, <1>16, <2>1, <3>2, <3>3
    <2> QED BY <1>5, <1>6, <1>7, <1>9, <1>21, <2>1, <2>2
  <1> QED BY <1>14, <1>16, <1>20, <1>22, <1>23 DEF SubchunkInv

\* Every step keeps the sub-chunks in order.
LEMMA SubChunksStep ==
  ASSUME Base, [Next]_vars
  PROVE  SubChunks'
  <1>1. CASE UNCHANGED vars
    <2>1. UNCHANGED <<server, file, runs, mpc, last, consumed, queue, wpc, task>>
      BY <1>1 DEF vars, serverVars, mainVars
    <2>2. ASSUME NEW c \in Chunks
          PROVE  \E v \in [0..MaxSub -> 0..NotDone] : \E f \in 0..MaxSub : SubchunkInv(c, v, f)'
      <3>1. PICK v \in [0..MaxSub -> 0..NotDone], f \in 0..MaxSub : SubchunkInv(c, v, f)
        BY DEF Base, SubChunks
      <3>2. SubView(c, v, f)'
        BY <2>1, <3>1 DEF SubchunkInv, SubView, EventAt, Log
      <3>3. SubCount(c, f)' /\ SubRows(c, v, f)'
        BY <2>1, <3>1 DEF SubchunkInv, SubCount, SubRows, Untouched
      <3> QED BY <3>2, <3>3 DEF SubchunkInv
    <2> QED BY <2>2 DEF SubChunks
  <1>2. CASE ReadLog \/ RewriteLog \/ CheckObjects \/ Begin \/ Restart
    BY <1>2, SubsApart
  <1>3. CASE Finish \/ Join \/ Crash
    BY <1>3, TypesEnd, SubsEnd
  <1>4. ASSUME SkipChunk \/ NothingToDo \/ HandleExit \/ HandleLoadEvent \/ Interrupt \/ MainError,
               NEW c \in Chunks
        PROVE  \E v \in [0..MaxSub -> 0..NotDone] : \E f \in 0..MaxSub : SubchunkInv(c, v, f)'
    <2>1. CASE HandleLoadEvent => ~SubAt(1, c)
      BY <1>4, <2>1, SubsTake
    <2>2. CASE HandleLoadEvent /\ SubAt(1, c)
      <3>1. PICK t \in LoadEvents, d \in Chunks : LogsEvent(t, d)
        BY <2>2, SomeEventLogged
      <3>2. d = c /\ t = "LOAD_SUBCHUNK_END"
        BY <2>2, <3>1, EventLogged DEF SubAt, EventAt
      <3> QED BY <3>1, <3>2, SubsLogged
    <2> QED BY <2>1, <2>2
  <1>5. ASSUME NEW w \in Workers, WorkerStep(w), NEW c \in Chunks
        PROVE  \E v \in [0..MaxSub -> 0..NotDone] : \E f \in 0..MaxSub : SubchunkInv(c, v, f)'
    BY <1>5, SubsOfOthers, SubsOfOwn, SubsReported
  <1>6. CASE SkipChunk \/ NothingToDo \/ HandleExit \/ HandleLoadEvent \/ Interrupt \/ MainError
    BY <1>4, <1>6 DEF SubChunks
  <1>7. CASE ScheduleChunk
    BY <1>7, SubsScheduled DEF SubChunks
  <1>8. CASE \E w \in Workers : WorkerStep(w)
    BY <1>5, <1>8 DEF SubChunks
  <1> QED BY <1>1, <1>2, <1>3, <1>6, <1>7, <1>8, MainPlaces

----------------------------------------------------------------------------
(* The inductive invariant.                                                 *)

\* The first state.
LEMMA BaseInit ==
  ASSUME Init
  PROVE  Base
  <1>1. TypeOK
    <2>1. server \in [Chunks -> [1..NumRows -> 0..MaxCopies]]
      BY DEF Init, MaxCopies
    <2>2. NoTask \in LoadTasks
      BY Sizes DEF NoTask, LoadTasks
    <2>3. runs \in 1..MaxRuns
      BY Sizes DEF Init
    <2> QED BY <2>1, <2>2, <2>3, NoEvents, EmptyLogIs DEF Init, TypeOK
  <1>2. /\ queue = <<>> /\ Len(queue) = 0 /\ mpc = "init" /\ file = EmptyLog /\ last = EmptyLog
        /\ runs = 1 /\ interrupt = FALSE
        /\ \A w \in Workers : wpc[w] = "ready" /\ task[w] = NoTask /\ task[w].chunk = <<>>
    BY NoEvents DEF Init, NoTask
  <1>3. AtRest /\ RunsLeft
    BY <1>2 DEF Init, AtRest, RunsLeft, Running
  <1>4. Handshake
    BY <1>2 DEF Init, Handshake, EventOrder, EventPlace, IdleSilent, Silent
  <1>5. Taken
    BY <1>2 DEF Taken, Busy
  <1>6. LogKept
    BY <1>2 DEF LogKept
  <1>7. ChunkLogged
    BY <1>2, EmptyLogIs DEF ChunkLogged, Started, Busy, Log
  <1>8. OffsetInv
    BY <1>2 DEF OffsetInv
  <1>9. SubChunks
    <2>1. ASSUME NEW c \in Chunks
          PROVE  \E v \in [0..MaxSub -> 0..NotDone] : \E f \in 0..MaxSub : SubchunkInv(c, v, f)
      <3>1. PICK v : v = [k \in 0..MaxSub |-> NotDone]
        OBVIOUS
      <3>2. v \in [0..MaxSub -> 0..NotDone] /\ 0 \in 0..MaxSub
        BY <3>1, Sizes
      <3>3. \A k \in 0..MaxSub : v[k] = NotDone /\ Log.sub[c][k] = NotDone
        BY <1>2, <3>1, EmptyLogIs DEF Log
      <3>4. SubView(c, v, 0)
        BY <1>2, <3>2, <3>3, Sizes DEF SubView
      <3>5. c # <<>>
        BY ChunkShape
      <3>6. 0 <= Limit(1) /\ 0 <= Limit(0)
        <4>1. Limit(1) \in Nat /\ Limit(0) \in Nat
          BY LimitGrows
        <4> QED BY <4>1
      <3>7. SubCount(c, 0)
        BY <1>2, <3>5, <3>6 DEF SubCount
      <3>8. Skip(v, 0) = 0
        BY <3>2, SkipIsNat, SkipFacts
      <3>9. SubRows(c, v, 0)
        BY <1>2, <3>5, <3>8, Sizes DEF SubRows
      <3> QED BY <3>2, <3>4, <3>7, <3>9 DEF SubchunkInv
    <2> QED BY <2>1 DEF SubChunks
  <1> QED BY <1>1, <1>3, <1>4, <1>5, <1>6, <1>7, <1>8, <1>9 DEF Base

\* Every step keeps the inductive invariant.
LEMMA BaseStep ==
  ASSUME Base, [Next]_vars
  PROVE  Base'
  BY TypesStep, AtRestStep, RunsStep, HandshakeStep, TakenStep, LogKeptStep, ChunkLoggedStep,
     SubChunksStep, OffsetStep DEF Base

\* Whatever the dump, and however runs end: the events of the workers, the
\* progress file and the sub-chunks on the server keep to each other.
THEOREM LoadInductive == Spec => []Base
  <1>1. Init => Base
    BY BaseInit
  <1>2. Base /\ [Next]_vars => Base'
    BY BaseStep
  <1> QED BY <1>1, <1>2, PTL DEF Spec

----------------------------------------------------------------------------
(* The rows on the server.                                                  *)

\* A worker that did not take a step is where it was, unless it was given a
\* chunk or the run ended.
LEMMA OthersStay ==
  ASSUME Base, [Next]_vars, NEW w \in Workers, ~WorkerStep(w),
         wpc'[w] \in {"prepare", "load", "report", "end"}
  PROVE  wpc'[w] = wpc[w] /\ task'[w] = task[w]
  <1>0. TypeOK /\ AtRest
    BY DEF Base
  <1>1. CASE UNCHANGED vars
    BY <1>1 DEF vars
  <1>2. CASE ReadLog \/ RewriteLog \/ CheckObjects \/ Begin \/ Restart
    BY <1>0, <1>2, StillAtRest
  <1>3. CASE Finish \/ Join \/ Crash
    <2>1. wpc'[w] = "ready"
      BY <1>3, EndIs DEF Finish, Join, Crash
    <2> QED BY <2>1
  <1>4. CASE SkipChunk \/ NothingToDo \/ HandleExit \/ HandleLoadEvent \/ Interrupt \/ MainError
    BY <1>4, MainTakes
  <1>5. CASE ScheduleChunk
    <2>1. PICK u \in Workers, d \in Chunks, off \in Nat, sub \in 0..MaxSub :
            Scheduled(u, d, off, sub)
      BY <1>5, ScheduledTask
    <2>2. wpc'[u] = "given" /\ (w # u => task'[w] = task[w] /\ wpc'[w] = wpc[w])
      BY <1>0, <2>1, GivenTask
    <2>3. w # u
      BY <2>2
    <2> QED BY <2>2, <2>3
  <1>6. ASSUME NEW u \in Workers, WorkerStep(u) PROVE wpc'[w] = wpc[w] /\ task'[w] = task[w]
    <2>1. u # w
      BY <1>6
    <2> QED BY <1>0, <1>6, <2>1, WorkerKeeps
  <1> QED BY <1>1, <1>2, <1>3, <1>4, <1>5, <1>6, MainPlaces

\* Where an event about a chunk comes from.
LEMMA PostedBefore ==
  ASSUME Base, [Next]_vars, NEW t, NEW d, Posted(t, d)'
  PROVE  \/ Posted(t, d)
         \/ \E w \in Workers : /\ WorkerStep(w) /\ task[w].chunk = d /\ t \in AllEvents
                               /\ queue' = Append(queue, Event(t, w))
  <1>0. TypeOK /\ AtRest
    BY DEF Base
  <1>1. CASE UNCHANGED vars
    BY <1>1 DEF vars, Posted, EventAt
  <1>2. Len(queue') # 0
    BY DEF Posted
  <1>3. CASE ReadLog \/ RewriteLog \/ CheckObjects \/ Begin \/ Restart
    BY <1>0, <1>2, <1>3, StillAtRest
  <1>4. CASE Finish \/ Join \/ Crash
    BY <1>2, <1>4, EndIs DEF Finish, Join, Crash
  <1>5. CASE SkipChunk \/ NothingToDo \/ HandleExit \/ HandleLoadEvent \/ Interrupt \/ MainError
    <2>1. task' = task /\ (queue' = queue \/ (queue # <<>> /\ queue' = Tail(queue)))
      BY <1>5, MainTakes
    <2>2. CASE queue' = queue
      BY <2>1, <2>2 DEF Posted, EventAt
    <2>3. CASE queue # <<>> /\ queue' = Tail(queue)
      BY <1>0, <2>1, <2>3, EventsPopped
    <2> QED BY <2>1, <2>2, <2>3
  <1>6. CASE ScheduleChunk
    <2>1. PICK u \in Workers, c \in Chunks, off \in Nat, sub \in 0..MaxSub :
            Scheduled(u, c, off, sub)
      BY <1>6, ScheduledTask
    <2> QED BY <1>0, <2>1, EventsScheduled, EventsPopped
  <1>7. ASSUME NEW w \in Workers, WorkerStep(w), ~Posted(t, d)
        PROVE  task[w].chunk = d /\ t \in AllEvents /\ queue' = Append(queue, Event(t, w))
    <2>1. task[w].chunk = d
      BY <1>0, <1>7, EventsPushed
    <2>2. PICK i \in 1..Len(queue') : EventAt(i, t, d)'
      BY DEF Posted
    <2>3. i \notin 1..Len(queue)
      BY <1>0, <1>7, <2>2, EventsPushed DEF Posted
    <2>4. queue' # queue
      BY <2>2, <2>3
    <2>5. PICK s \in AllEvents : queue' = Append(queue, Event(s, w))
      BY <1>0, <1>7, <2>4, WorkerPosts
    <2>6. queue'[i].type = s
      BY <1>0, <2>2, <2>3, <2>5, PushedBy
    <2>7. s = t
      BY <2>2, <2>6 DEF EventAt
    <2> QED BY <2>1, <2>5, <2>7
  <1> QED BY <1>1, <1>3, <1>4, <1>5, <1>6, <1>7, MainPlaces

\* A chunk that is DONE was DONE, or its LOAD_END was queued.
LEMMA DoneBefore ==
  ASSUME Base, [Next]_vars, NEW c \in Chunks, file'.chunk[c] = "DONE" \/ last'.chunk[c] = "DONE"
  PROVE  \/ file.chunk[c] = "DONE" \/ last.chunk[c] = "DONE"
         \/ Posted("LOAD_END", c) /\ server' = server
  <1>0. TypeOK /\ AtRest
    BY DEF Base
  <1>1. CASE UNCHANGED vars
    BY <1>1 DEF vars, mainVars
  <1>2. CASE ReadLog
    <2>1. last' = file /\ (file' = EmptyLog \/ file' = file)
      BY <1>2 DEF ReadLog
    <2> QED BY <2>1, EmptyLogIs
  <1>3. CASE RewriteLog
    BY <1>3 DEF RewriteLog
  <1>4. CASE Begin
    <2>1. last' = last /\ file'.chunk = file.chunk
      BY <1>0, <1>4 DEF Begin, TypeOK, Logs
    <2> QED BY <2>1
  <1>5. CASE CheckObjects \/ Restart \/ SkipChunk \/ NothingToDo \/ HandleExit \/ Interrupt \/ MainError
             \/ ScheduleChunk
    BY <1>5 DEF CheckObjects, Restart, SkipChunk, NothingToDo, HandleExit, Interrupt, MainError,
                ScheduleChunk, mainVars
  <1>6. CASE Finish \/ Join \/ Crash
    <2>1. file' = file /\ last' = EmptyLog
      BY <1>6, EndIs DEF Finish, Join, Crash
    <2> QED BY <2>1, EmptyLogIs
  <1>7. CASE HandleLoadEvent
    <2>1. PICK t \in LoadEvents, d \in Chunks : LogsEvent(t, d)
      BY <1>7, SomeEventLogged
    <2>2. last' = last /\ server' = server
      BY <1>7, MainTakes
    <2>3. CASE d # c \/ t # "LOAD_END"
      BY <2>1, <2>2, <2>3, EventLogged DEF LoadEvents
    <2>4. CASE d = c /\ t = "LOAD_END"
      <3>1. EventAt(1, "LOAD_END", c) /\ 1 \in 1..Len(queue)
        BY <2>1, <2>4, EventLogged DEF EventAt
      <3> QED BY <2>2, <3>1 DEF Posted
    <2> QED BY <2>3, <2>4
  <1>8. ASSUME NEW w \in Workers, WorkerStep(w)
        PROVE  file.chunk[c] = "DONE" \/ last.chunk[c] = "DONE"
    BY <1>0, <1>8, WorkerKeeps
  <1> QED BY <1>1, <1>2, <1>3, <1>4, <1>5, <1>6, <1>7, <1>8, MainPlaces

\* A table without a key has one data file: what is on the server stays, unless
\* the worker that loads this very file starts it over.
LEMMA OwnRowsKept ==
  ASSUME OneFile, Base, [Next]_vars, NEW c \in Chunks, NEW r \in 1..NumRows, server[c][r] > 0,
         \A w \in Workers : task[w].chunk = c => ~WPrepare(w)
  PROVE  server'[c][r] > 0
  <1>1. ASSUME NEW w \in Workers, WPrepare(w), TableOf[task[w].chunk[1]] \notin Pke,
               TableOf[task[w].chunk[1]] = TableOf[c[1]]
        PROVE  FALSE
    <2>1. Busy(w)
      BY <1>1 DEF WPrepare, Busy
    <2>2. task[w].chunk \in Chunks
      BY <2>1, TaskOf
    <2>3. task[w].chunk = c
      BY <1>1, <2>2 DEF OneFile
    <2> QED BY <1>1, <2>3
  <1> QED BY <1>1, RowsKept

\* The rows of a worker that goes on with its chunk.
LEMMA OffsetRows ==
  ASSUME OneFile, Base, RowsThere, [Next]_vars, NEW w \in Workers,
         wpc'[w] \in {"load", "report", "end"}, NEW r \in 1..task'[w].off
  PROVE  server'[task'[w].chunk][r] > 0
  <1>0. TypeOK /\ Taken /\ wpc \in [Workers -> WorkerPlaces]
    BY DEF Base, TypeOK, WorkerPlaces
  <1>1. CASE ~WorkerStep(w)
    <2>1. wpc'[w] = wpc[w] /\ task'[w] = task[w]
      BY <1>1, OthersStay
    <2>2. Busy(w) /\ task[w].off <= NumRows
      BY <2>1 DEF Base, OffsetInv, Busy
    <2>3. PICK c \in Chunks, o \in Nat : c = task[w].chunk /\ o = task[w].off
      BY <2>2, TaskOf
    <2>4. server[c][r] > 0
      BY <2>1, <2>3 DEF RowsThere
    <2>5. r \in 1..NumRows
      BY <2>1, <2>2, <2>3, Sizes
    <2>6. ASSUME NEW u \in Workers, task[u].chunk = c PROVE ~WPrepare(u)
      <3>1. u = w
        BY <1>0, <2>3, <2>6, ChunkShape DEF Taken
      <3> QED BY <1>1, <3>1 DEF WorkerStep
    <2>7. server'[c][r] > 0
      BY <2>4, <2>5, <2>6, OwnRowsKept
    <2> QED BY <2>1, <2>3, <2>7
  <1>2. CASE WPrepare(w)
    <2>1. wpc[w] = "prepare" /\ Busy(w)
      BY <1>2 DEF WPrepare, Busy
    <2>2. PICK c \in Chunks, o \in Nat : c = task[w].chunk /\ o = task[w].off /\ c = task'[w].chunk
      <3>1. WorkerStep(w)
        BY <1>2 DEF WorkerStep
      <3> QED BY <1>0, <2>1, <3>1, TaskOf, WorkerKeeps
    <2>3. task'[w].off # 0
      <3>1. task'[w].off = 0 => r \in 1..0
        OBVIOUS
      <3> QED BY <3>1
    <2>4. task' = task /\ server' = server /\ ~(task[w].resume /\ TableOf[c[1]] \notin Pke)
      BY <1>2, <2>2, <2>3, TaskFields
    <2>5. task[w].resume
      BY <2>1, <2>3, <2>4 DEF Base, OffsetInv
    <2>6. TableOf[c[1]] \in Pke
      BY <2>4, <2>5
    <2>7. PICK v \in [0..MaxSub -> 0..NotDone], f \in 0..MaxSub : SubchunkInv(c, v, f)
      BY DEF Base, SubChunks
    <2>8. task[w].off = Skip(v, f) /\ \A q \in 1..Skip(v, f) : server[c][q] > 0
      BY <2>1, <2>2, <2>6, <2>7 DEF SubchunkInv, SubRows
    <2> QED BY <2>2, <2>4, <2>8
  <1>3. CASE WCommit(w)
    <2>1. wpc[w] = "load" /\ Busy(w)
      BY <1>3 DEF WCommit, Busy
    <2>2. PICK c \in Chunks, o \in Nat : c = task[w].chunk /\ o = task[w].off /\ c = task'[w].chunk
      <3>1. WorkerStep(w)
        BY <1>3 DEF WorkerStep
      <3> QED BY <1>0, <2>1, <3>1, TaskOf, WorkerKeeps
    <2>3. PICK n \in 0..NumRows : /\ o + n <= NumRows /\ server' = LoadRows(c, o, o + n)
                                  /\ task'[w].off = o + n
      BY <1>3, <2>2, TaskFields
    <2>4. n \in Nat /\ r \in 1..(o + n) /\ r \in 1..NumRows /\ o + n \in Nat
      BY <2>3, Sizes
    <2>5. server \in [Chunks -> [1..NumRows -> 0..MaxCopies]]
      BY <1>0 DEF TypeOK
    <2>6. CASE r <= o
      <3>1. r \in 1..o
        BY <2>4, <2>6
      <3>2. server[c][r] > 0
        BY <2>1, <2>2, <3>1 DEF RowsThere
      <3>3. server'[c][r] > 0
        BY <2>3, <2>4, <2>5, <3>2, RowsLoaded
      <3> QED BY <2>2, <3>3
    <2>7. CASE ~(r <= o)
      <3>1. ~(r <= o \/ r > o + n)
        BY <2>4, <2>7
      <3>2. server'[c][r] > 0
        BY <2>3, <2>4, <2>5, <3>1, RowsLoaded
      <3> QED BY <2>2, <3>2
    <2> QED BY <2>6, <2>7
  <1>4. CASE WReport(w)
    <2>1. wpc[w] = "report" /\ WorkerStep(w)
      BY <1>4 DEF WReport, WorkerStep
    <2>2. task'[w].chunk = task[w].chunk /\ task'[w].off = task[w].off /\ server' = server
      BY <1>0, <1>4, <2>1, TaskFields, WorkerKeeps
    <2> QED BY <2>1, <2>2 DEF RowsThere
  <1>5. CASE WReady(w) \/ WStart(w) \/ WEnd(w) \/ WFail(w)
    <2>1. wpc'[w] \in {"wait", "exited", "prepare", "ready"}
      BY <1>0, <1>5 DEF WReady, WStart, WEnd, WFail
    <2> QED BY <2>1
  <1> QED BY <1>1, <1>2, <1>3, <1>4, <1>5 DEF WorkerStep

\* A chunk that has been loaded completely stays so.
LEMMA FullStays ==
  ASSUME OneFile, Base, [Next]_vars, NEW c \in Chunks, Full(c),
         \/ Posted("LOAD_END", c) \/ file.chunk[c] = "DONE" \/ last.chunk[c] = "DONE"
  PROVE  Full(c)'
  <1>0. TypeOK /\ Taken /\ EventPlace
    BY DEF Base, Handshake
  <1>1. ASSUME NEW w \in Workers, task[w].chunk = c, WPrepare(w) PROVE FALSE
    <2>1. wpc[w] = "prepare" /\ Busy(w)
      BY <1>1 DEF WPrepare, Busy
    <2>2. file.chunk[c] # "DONE" /\ last.chunk[c] # "DONE"
      BY <1>1, <2>1, ChunkShape DEF Base, Taken, ChunkLogged
    <2>3. PICK i \in 1..Len(queue) : EventAt(i, "LOAD_END", c)
      BY <2>2 DEF Posted
    <2>4. queue[i].worker \in Workers /\ task[queue[i].worker].chunk = c /\ queue[i].type = "LOAD_END"
      BY <1>0, <2>3, EventWorker DEF EventAt
    <2>5. queue[i].worker = w
      BY <1>0, <1>1, <2>4, ChunkShape DEF Taken
    <2>6. wpc[w] \in Places("LOAD_END")
      BY <1>0, <2>4, <2>5 DEF EventPlace
    <2> QED BY <2>1, <2>6 DEF Places
  <1>2. ASSUME NEW r \in 1..NumRows PROVE server'[c][r] > 0
    <2>1. server[c][r] > 0
      BY DEF Full
    <2> QED BY <1>1, <2>1, OwnRowsKept
  <1> QED BY <1>2 DEF Full

\* Every step keeps what was loaded on the server.
LEMMA RowsThereStep ==
  ASSUME OneFile, Base, RowsThere, [Next]_vars
  PROVE  RowsThere'
  <1>0. TypeOK
    BY DEF Base
  <1>1. ASSUME NEW w \in Workers, wpc'[w] \in {"load", "report", "end"}, NEW r \in 1..task'[w].off
        PROVE  server'[task'[w].chunk][r] > 0
    BY <1>1, OffsetRows
  <1>2. ASSUME NEW c \in Chunks, Posted("LOAD_END", c)' PROVE Full(c)'
    <2>1. CASE Posted("LOAD_END", c)
      <3>1. Full(c)
        BY <2>1 DEF RowsThere
      <3> QED BY <2>1, <3>1, FullStays
    <2>2. CASE ~Posted("LOAD_END", c)
      <3>1. PICK w \in Workers : /\ WorkerStep(w) /\ task[w].chunk = c
                                 /\ queue' = Append(queue, Event("LOAD_END", w))
        BY <1>2, <2>2, PostedBefore
      <3>2. WEnd(w)
        <4>1. PICK n : n = Len(queue) + 1
          OBVIOUS
        <4>2. queue'[n].type = "LOAD_END" /\ n \notin 1..Len(queue) /\ n \in 1..Len(queue')
          BY <1>0, <3>1, <4>1, PushedBy DEF AllEvents
        <4>3. queue' # queue
          BY <4>2
        <4>4. ASSUME NEW t \in AllEvents, queue' = Append(queue, Event(t, w)) PROVE t = "LOAD_END"
          BY <1>0, <4>1, <4>2, <4>4, PushedBy
        <4>5. WEnd(w) \/ \E t \in {"READY", "LOAD_START", "LOAD_SUBCHUNK_END", "EXIT", "FATAL_ERROR"} :
                           queue' = Append(queue, Event(t, w))
          BY <3>1, <4>3 DEF WorkerStep, WReady, WStart, WPrepare, WCommit, WReport, WFail
        <4> QED BY <4>4, <4>5 DEF AllEvents
      <3>3. wpc[w] = "end" /\ server' = server
        BY <3>2 DEF WEnd, serverVars
      <3>4. task[w].off = NumRows
        BY <3>3 DEF Base, OffsetInv
      <3> QED BY <3>1, <3>3, <3>4 DEF RowsThere, Full
    <2> QED BY <2>1, <2>2
  <1>3. ASSUME NEW c \in Chunks, file'.chunk[c] = "DONE" \/ last'.chunk[c] = "DONE"
        PROVE  Full(c)'
    <2>1. \/ file.chunk[c] = "DONE" \/ last.chunk[c] = "DONE"
          \/ Posted("LOAD_END", c)
      BY <1>3, DoneBefore
    <2>2. Full(c)
      BY <2>1 DEF RowsThere
    <2> QED BY <2>1, <2>2, FullStays
  <1> QED BY <1>1, <1>2, <1>3 DEF RowsThere

\* Nothing was loaded at first.
LEMMA RowsThereInit ==
  ASSUME Init
  PROVE  RowsThere
  <1>1. /\ Len(queue) = 0 /\ file = EmptyLog /\ last = EmptyLog
        /\ \A w \in Workers : wpc[w] = "ready"
    BY NoEvents DEF Init
  <1> QED BY <1>1, EmptyLogIs DEF RowsThere, Posted

\* What was loaded is there, for every dump whose tables without a key have
\* one data file.
THEOREM RowsThereCorrect == OneFile => (Spec => []RowsThere)
  <1> SUFFICES ASSUME OneFile PROVE Spec => []RowsThere
    OBVIOUS
  <1>1. Init => RowsThere
    BY RowsThereInit
  <1>2. Base /\ RowsThere /\ [Next]_vars => RowsThere'
    BY RowsThereStep
  <1> QED BY <1>1, <1>2, LoadInductive, PTL DEF Spec

\* Property LogSound for every dump whose tables without a key have one data
\* file, and however often and in whatever way runs end: what on_chunk_load_end()
\* wrote as DONE is on the server.
THEOREM LogCorrect == OneFile => (Spec => []LogSound)
  <1>1. RowsThere => LogSound
    BY DEF RowsThere, Full, LogSound
  <1> QED BY <1>1, RowsThereCorrect, PTL

\* Property SkipSound, under the same condition: a resumed chunk skips, by the
\* sub-chunk sizes of the progress file, only rows that are on the server.
THEOREM SkipCorrect == OneFile => (Spec => []SkipSound)
  <1>1. Base /\ RowsThere => SkipSound
    BY DEF Base, OffsetInv, RowsThere, SkipSound
  <1> QED BY <1>1, RowsThereCorrect, LoadInductive, PTL

----------------------------------------------------------------------------
(* Runs that end in good order.                                             *)

\* Every event has been handled when the workers that are left are idle.
LEMMA AllHandled ==
  ASSUME Base, idle = live, NEW t, NEW c
  PROVE  ~Posted(t, c)
  <1>1. TypeOK /\ IdleSilent
    BY DEF Base, Handshake
  <1>2. ASSUME NEW i \in 1..Len(queue) PROVE FALSE
    <2>1. queue[i].worker \in Workers
      BY <1>1, EventWorker
    <2>2. Silent(queue[i].worker)
      BY <1>1, <2>1 DEF IdleSilent
    <2> QED BY <2>2 DEF Silent
  <1> QED BY <1>2 DEF Posted

\* What a step finds on the server, and did not put there.
LEMMA RowsBefore ==
  ASSUME Base, [Next]_vars, NEW c \in Chunks, NEW r \in 1..NumRows, server'[c][r] > 0
  PROVE  \/ server[c][r] > 0
         \/ \E w \in Workers : wpc[w] = "load" /\ task[w].chunk = c
  <1>0. TypeOK /\ server \in [Chunks -> [1..NumRows -> 0..MaxCopies]]
    BY DEF Base, TypeOK
  <1>1. ASSUME Adds(c), ~(\E w \in Workers : wpc[w] = "load" /\ task[w].chunk = c)
        PROVE  server'[c] = server[c]
    BY <1>1 DEF Adds, Loads
  <1>2. ASSUME NEW t, server' = Truncate(t) PROVE server'[c][r] = server[c][r]
    <2>1. CASE TableOf[c[1]] = t
      <3>1. server'[c][r] = 0
        BY <1>0, <1>2, <2>1, RowsTruncated
      <3> QED BY <3>1
    <2>2. CASE TableOf[c[1]] # t
      BY <1>0, <1>2, <2>2, RowsTruncated
    <2> QED BY <2>1, <2>2
  <1> QED BY <1>1, <1>2, ServerSteps DEF Truncates

\* A run that ends in good order, with what it leaves.
LEMMA RowsLoggedStep ==
  ASSUME Graceful, Base, RowsLogged, mpc # "join", [Next]_vars
  PROVE  RowsLogged' /\ mpc' # "join"
  <1>0. TypeOK /\ AtRest
    BY DEF Base
  <1>1. ~Crash /\ ~MainError
    BY DEF Graceful, Crash, MainError
  <1>2. mpc' # "join"
    <2>1. CASE UNCHANGED vars
      BY <2>1 DEF vars, mainVars
    <2>2. ASSUME NEW w \in Workers, WorkerStep(w) PROVE mpc' = mpc
      BY <1>0, <2>2, WorkerKeeps
    <2> QED BY <1>1, <2>1, <2>2, MainPlaces
  <1>3. ASSUME NEW c \in Chunks, NEW r \in 1..NumRows, server'[c][r] > 0
        PROVE  Log'.chunk[c] # "PENDING" \/ Posted("LOAD_START", c)'
    <2>1. CASE mpc = "load" /\ mpc' = "load"
      <3>1. StartKnown(c)
        <4>1. CASE server[c][r] > 0
          BY <2>1, <4>1 DEF RowsLogged, Log, StartKnown
        <4>2. ASSUME NEW w \in Workers, wpc[w] = "load", task[w].chunk = c PROVE StartKnown(c)
          BY <4>2 DEF Base, ChunkLogged, Started
        <4> QED BY <1>3, <4>1, <4>2, RowsBefore
      <3>2. StartKnown(c)'
        BY <2>1, <3>1, StartStaysKnown
      <3> QED BY <2>1, <3>2 DEF StartKnown, Log
    <2>2. CASE ~(mpc = "load" /\ mpc' = "load")
      <3>f. mpc = "load" => Finish
        <4>1. CASE UNCHANGED vars
          BY <2>2, <4>1 DEF vars, mainVars
        <4>2. ASSUME NEW w \in Workers, WorkerStep(w) PROVE mpc' = mpc
          BY <1>0, <4>2, WorkerKeeps
        <4> QED BY <1>1, <2>2, <4>1, <4>2, MainPlaces
      <3>1. ~Posted("LOAD_START", c)
        <4>1. CASE mpc = "load"
          <5>1. Finish
            BY <3>f, <4>1
          <5>2. idle = live
            BY <5>1 DEF Finish
          <5> QED BY <5>2, AllHandled
        <4>2. CASE mpc # "load"
          <5>1. Len(queue) = 0
            BY <1>0, <4>2, NoEvents DEF AtRest, Running
          <5> QED BY <5>1 DEF Posted
        <4> QED BY <4>1, <4>2
      <3>2. server[c][r] > 0
        <4>1. ASSUME NEW w \in Workers, wpc[w] = "load" PROVE mpc = "load"
          BY <1>0, <4>1 DEF AtRest, Running
        <4>2. CASE mpc = "load"
          <5>1. Finish
            BY <3>f, <4>2
          <5>2. server' = server
            BY <5>1 DEF Finish, serverVars
          <5> QED BY <1>3, <5>2
        <4> QED BY <1>3, <4>1, <4>2, RowsBefore
      <3>3. ~HandleLoadEvent
        BY <2>2 DEF HandleLoadEvent, Handling, mainVars
      <3>4. Log'.chunk = Log.chunk
        BY <1>1, <3>3, LogSame
      <3> QED BY <3>1, <3>2, <3>4 DEF RowsLogged
    <2> QED BY <2>1, <2>2
  <1> QED BY <1>2, <1>3 DEF RowsLogged

\* When no run is killed, a chunk with rows on the server is in the progress
\* file, or an event that will put it there is queued.
THEOREM RowsLoggedCorrect == Graceful => (Spec => [](RowsLogged /\ mpc # "join"))
  <1> SUFFICES ASSUME Graceful PROVE Spec => [](RowsLogged /\ mpc # "join")
    OBVIOUS
  <1>1. Init => RowsLogged /\ mpc # "join"
    BY DEF Init, RowsLogged
  <1>2. Base /\ (RowsLogged /\ mpc # "join") /\ [Next]_vars => (RowsLogged /\ mpc # "join")'
    BY RowsLoggedStep
  <1> QED BY <1>1, <1>2, LoadInductive, PTL DEF Spec

\* Property StartLogged when no run is killed or ends with an exception on the
\* main thread: after an interrupt, or an error on a worker, handle_worker_events()
\* has written the start of every chunk that has rows on the server.
THEOREM StartCorrect == Graceful => (Spec => []StartLogged)
  <1>1. Base /\ RowsLogged => StartLogged
    <2> SUFFICES ASSUME Base, RowsLogged, mpc = "down", NEW c \in Chunks,
                        \E r \in 1..NumRows : server[c][r] > 0
                 PROVE  file.chunk[c] # "PENDING"
      BY DEF StartLogged
    <2>1. Len(queue) = 0
      BY NoEvents DEF Base, AtRest, Running
    <2>2. ~Posted("LOAD_START", c)
      BY <2>1 DEF Posted
    <2> QED BY <2>2 DEF RowsLogged, Log
  <1> QED BY <1>1, RowsLoggedCorrect, LoadInductive, PTL

----------------------------------------------------------------------------
(* No row twice.                                                            *)

\* A worker that has been given a chunk had it before, or gets it now.
LEMMA GivenBefore ==
  ASSUME Base, [Next]_vars, NEW w \in Workers, wpc'[w] = "given"
  PROVE  \/ wpc[w] = "given" /\ task'[w] = task[w]
         \/ \E c \in Chunks, off \in Nat, sub \in 0..MaxSub : Scheduled(w, c, off, sub)
  <1>0. TypeOK /\ AtRest /\ wpc \in [Workers -> WorkerPlaces]
    BY DEF Base, TypeOK, WorkerPlaces
  <1>1. CASE UNCHANGED vars
    BY <1>1 DEF vars
  <1>2. CASE ReadLog \/ RewriteLog \/ CheckObjects \/ Begin \/ Restart
    BY <1>0, <1>2, StillAtRest
  <1>3. CASE Finish \/ Join \/ Crash
    <2>1. wpc'[w] = "ready"
      BY <1>3, EndIs DEF Finish, Join, Crash
    <2> QED BY <2>1
  <1>4. CASE SkipChunk \/ NothingToDo \/ HandleExit \/ HandleLoadEvent \/ Interrupt \/ MainError
    BY <1>4, MainTakes
  <1>5. CASE ScheduleChunk
    <2>1. PICK u \in Workers, d \in Chunks, off \in Nat, sub \in 0..MaxSub :
            Scheduled(u, d, off, sub)
      BY <1>5, ScheduledTask
    <2>2. w # u => task'[w] = task[w] /\ wpc'[w] = wpc[w]
      BY <1>0, <2>1, GivenTask
    <2> QED BY <2>1, <2>2
  <1>6. ASSUME NEW u \in Workers, WorkerStep(u) PROVE wpc[w] = "given" /\ task'[w] = task[w]
    <2>1. u # w
      <3>1. CASE u = w
        <4>1. wpc'[w] \in {"wait", "exited", "prepare", "load", "report", "end", "ready"}
          BY <1>0, <1>6, <3>1 DEF WorkerStep, WReady, WStart, WPrepare, WCommit, WReport, WEnd, WFail
        <4> QED BY <4>1
      <3> QED BY <3>1
    <2> QED BY <1>0, <1>6, <2>1, WorkerKeeps
  <1> QED BY <1>1, <1>2, <1>3, <1>4, <1>5, <1>6, MainPlaces

\* Rows of a chunk that no worker is loading do not appear.
LEMMA RowsAbsent ==
  ASSUME Base, [Next]_vars, NEW c \in Chunks, NEW r \in 1..NumRows, server[c][r] = 0,
         \A u \in Workers : task[u].chunk = c => wpc[u] # "load"
  PROVE  server'[c][r] = 0
  <1>1. TypeOK'
    BY TypesStep
  <1>2. server' \in [Chunks -> [1..NumRows -> 0..2]]
    BY <1>1 DEF TypeOK, MaxCopies
  <1>3. ASSUME server'[c][r] > 0 PROVE FALSE
    <2>1. server[c][r] > 0 \/ \E w \in Workers : wpc[w] = "load" /\ task[w].chunk = c
      BY <1>3, RowsBefore
    <2> QED BY <2>1
  <1>4. PICK x \in 0..2 : x = server'[c][r]
    BY <1>2
  <1>5. ~(x > 0)
    BY <1>3, <1>4
  <1> QED BY <1>4, <1>5

\* A chunk that is not in the progress file, and of which there is nothing on
\* the server.
LEMMA FreshChunk ==
  ASSUME Base, RowsLogged, NEW w \in Workers, NEW c \in Chunks, NEW off \in Nat,
         NEW sub \in 0..MaxSub, Scheduled(w, c, off, sub), last.chunk[c] # "INTERRUPTED",
         NEW r \in 1..NumRows
  PROVE  server'[c][r] = 0
  <1>0. TypeOK /\ Taken
    BY DEF Base
  <1>1. mpc = "load"
    BY <1>0, GivenTask
  <1>2. server' = server /\ Untouched(c) /\ last.chunk[c] # "DONE"
    BY DEF Scheduled
  <1>3. last.chunk[c] = "PENDING"
    BY <1>0, <1>2 DEF TypeOK, Logs
  <1>4. Log.chunk[c] = "PENDING"
    BY <1>1, <1>2, <1>3 DEF Base, LogKept, Log
  <1>5. ASSUME NEW i \in 1..Len(queue), EventAt(i, "LOAD_START", c) PROVE FALSE
    <2>1. queue[i].worker \in Workers /\ task[queue[i].worker].chunk = c
      BY <1>0, <1>5, EventWorker DEF EventAt
    <2>2. ~Untouched(c)
      BY <1>0, <2>1, ChunkShape DEF Taken
    <2> QED BY <1>2, <2>2
  <1>6. ~(server[c][r] > 0)
    BY <1>4, <1>5 DEF RowsLogged, Posted
  <1>7. server[c][r] \in 0..2
    BY <1>0 DEF TypeOK, MaxCopies
  <1> QED BY <1>2, <1>6, <1>7

\* What a step makes of the rows of a chunk, when none of them are there twice.
LEMMA RowLoadedOnce ==
  ASSUME Base, NoCopies, NEW c \in Chunks, Adds(c), NEW r \in 1..NumRows
  PROVE  server'[c][r] = 1 \/ server'[c][r] = server[c][r]
  <1>0. server \in [Chunks -> [1..NumRows -> 0..MaxCopies]]
    BY DEF Base, TypeOK
  <1>1. CASE server'[c] = server[c]
    BY <1>1
  <1>2. ASSUME NEW w \in Workers, NEW n \in Nat, Loads(c, w, n)
        PROVE  server'[c][r] = 1 \/ server'[c][r] = server[c][r]
    <2>1. PICK lo \in Nat, hi \in Nat : lo = task[w].off /\ hi = task[w].off + n
      BY <1>2, TaskOf DEF Busy, Loads
    <2>2. server'[c] = LoadRows(c, lo, hi)[c] /\ wpc[w] = "load" /\ task[w].chunk = c
      BY <1>2, <2>1 DEF Loads
    <2>a. lo \in Nat /\ hi \in Nat
      BY <2>1
    <2>b. \A q \in 1..NumRows :
              /\ q <= lo \/ q > hi => LoadRows(c, lo, hi)[c][q] = server[c][q]
              /\ ~(q <= lo \/ q > hi) /\ TableOf[c[1]] \in Pke => LoadRows(c, lo, hi)[c][q] = 1
              /\ ~(q <= lo \/ q > hi) => LoadRows(c, lo, hi)[c][q] > 0
              /\ ~(q <= lo \/ q > hi) /\ server[c][q] = 0 => LoadRows(c, lo, hi)[c][q] = 1
              /\ server[c][q] > 0 => LoadRows(c, lo, hi)[c][q] > 0
      BY <1>0, <2>a, RowsLoaded, Zenon
    <2>3. r <= lo \/ r > hi => LoadRows(c, lo, hi)[c][r] = server[c][r]
      BY <2>b, Zenon
    <2>4. ~(r <= lo \/ r > hi) /\ TableOf[c[1]] \in Pke => LoadRows(c, lo, hi)[c][r] = 1
      BY <2>b, Zenon
    <2>5. ~(r <= lo \/ r > hi) /\ server[c][r] = 0 => LoadRows(c, lo, hi)[c][r] = 1
      BY <2>b, Zenon
    <2>6. ASSUME ~(r <= lo \/ r > hi), TableOf[c[1]] \notin Pke PROVE server[c][r] = 0
      <3>1. r > task[w].off
        BY <2>1, <2>6, Sizes
      <3> QED BY <2>2, <2>6, <3>1 DEF NoCopies
    <2> QED BY <2>2, <2>3, <2>4, <2>5, <2>6
  <1> QED BY <1>1, <1>2 DEF Adds

\* No row gets a second copy.
LEMMA CopiesStep ==
  ASSUME Base, NoCopies, [Next]_vars, NEW c \in Chunks, NEW r \in 1..NumRows
  PROVE  server'[c][r] <= 1
  <1>0. server \in [Chunks -> [1..NumRows -> 0..MaxCopies]] /\ server[c][r] <= 1
    BY DEF Base, TypeOK, NoCopies
  <1>1. ASSUME Adds(c) PROVE server'[c][r] <= 1
    <2>1. server'[c][r] = 1 \/ server'[c][r] = server[c][r]
      BY <1>1, RowLoadedOnce
    <2> QED BY <1>0, <2>1
  <1>2. ASSUME NEW t, server' = Truncate(t) PROVE server'[c][r] <= 1
    <2>1. server'[c] = server[c] \/ server'[c][r] = 0
      BY <1>0, <1>2, RowsTruncated
    <2> QED BY <1>0, <2>1
  <1> QED BY <1>1, <1>2, ServerSteps DEF Truncates

\* Nothing is on the server of a chunk, without a key, that starts afresh.
LEMMA AbsentStep ==
  ASSUME Base, NoCopies, RowsLogged, [Next]_vars, NEW w \in Workers, wpc'[w] \in {"given", "prepare"},
         ~task'[w].resume, TableOf[task'[w].chunk[1]] \notin Pke, NEW r \in 1..NumRows
  PROVE  server'[task'[w].chunk][r] = 0
  <1>0. TypeOK /\ Taken /\ wpc \in [Workers -> WorkerPlaces]
    BY DEF Base, TypeOK, WorkerPlaces
  <1>1. ASSUME wpc[w] \in {"given", "prepare"}, task'[w] = task[w]
        PROVE  server'[task'[w].chunk][r] = 0
    <2>1. PICK c \in Chunks : c = task[w].chunk
      BY <1>1, TaskOf DEF Busy
    <2>2. server[c][r] = 0
      BY <1>1, <2>1 DEF NoCopies
    <2>3. ASSUME NEW u \in Workers, task[u].chunk = c PROVE wpc[u] # "load"
      <3>1. u = w
        BY <1>0, <2>1, <2>3, ChunkShape DEF Taken
      <3> QED BY <1>1, <3>1
    <2>4. server'[c][r] = 0
      BY <2>2, <2>3, RowsAbsent
    <2> QED BY <1>1, <2>1, <2>4
  <1>2. CASE wpc'[w] = "given"
    <2>1. ASSUME NEW c \in Chunks, NEW off \in Nat, NEW sub \in 0..MaxSub, Scheduled(w, c, off, sub)
          PROVE  server'[task'[w].chunk][r] = 0
      <3>1. task'[w].chunk = c /\ (task'[w].resume <=> last.chunk[c] = "INTERRUPTED")
        BY <1>0, <2>1, GivenTask
      <3>2. last.chunk[c] # "INTERRUPTED"
        BY <3>1
      <3>3. server'[c][r] = 0
        BY <2>1, <3>2, FreshChunk
      <3> QED BY <3>1, <3>3
    <2> QED BY <1>1, <1>2, <2>1, GivenBefore
  <1>3. CASE wpc'[w] = "prepare" /\ ~WorkerStep(w)
    <2>1. wpc'[w] = wpc[w] /\ task'[w] = task[w]
      BY <1>3, OthersStay
    <2> QED BY <1>1, <1>3, <2>1
  <1>4. CASE wpc'[w] = "prepare" /\ WorkerStep(w)
    <2>1. WStart(w)
      <3>1. CASE WReady(w) \/ WPrepare(w) \/ WCommit(w) \/ WReport(w) \/ WEnd(w) \/ WFail(w)
        <4>1. wpc'[w] \in {"wait", "load", "end", "report", "ready", "exited"}
          BY <1>0, <3>1 DEF WReady, WPrepare, WCommit, WReport, WEnd, WFail
        <4> QED BY <1>4, <4>1
      <3> QED BY <1>4, <3>1 DEF WorkerStep
    <2>2. wpc[w] = "given" /\ task' = task
      BY <2>1 DEF WStart
    <2> QED BY <1>1, <2>2
  <1> QED BY <1>2, <1>3, <1>4

\* Nothing is on the server of a chunk, without a key, behind what was loaded.
LEMMA BehindStep ==
  ASSUME Base, NoCopies, [Next]_vars, NEW w \in Workers, wpc'[w] \in {"load", "report"},
         TableOf[task'[w].chunk[1]] \notin Pke, NEW r \in 1..NumRows, r > task'[w].off
  PROVE  server'[task'[w].chunk][r] = 0
  <1>0. TypeOK /\ Taken /\ wpc \in [Workers -> WorkerPlaces]
        /\ server \in [Chunks -> [1..NumRows -> 0..MaxCopies]]
    BY DEF Base, TypeOK, WorkerPlaces
  <1>1. CASE ~WorkerStep(w)
    <2>1. wpc'[w] = wpc[w] /\ task'[w] = task[w]
      BY <1>1, OthersStay
    <2>2. PICK c \in Chunks : c = task[w].chunk
      BY <2>1, TaskOf DEF Busy
    <2>3. server[c][r] = 0
      BY <2>1, <2>2 DEF NoCopies
    <2>4. server'[c][r] = 0
      <3>1. ASSUME Adds(c) PROVE server'[c] = server[c]
        <4>1. ASSUME NEW u \in Workers, NEW n \in Nat, Loads(c, u, n) PROVE FALSE
          <5>1. u = w
            BY <1>0, <2>2, <4>1, ChunkShape DEF Taken, Loads
          <5>2. Crash
            BY <1>1, <4>1, <5>1 DEF Loads, WorkerStep
          <5>3. wpc'[w] = "ready"
            BY <5>2, EndIs DEF Crash
          <5> QED BY <5>3
        <4> QED BY <3>1, <4>1 DEF Adds
      <3>2. ASSUME NEW t, server' = Truncate(t) PROVE server'[c][r] = 0
        <4>1. server'[c] = server[c] \/ server'[c][r] = 0
          BY <1>0, <3>2, RowsTruncated
        <4> QED BY <2>3, <4>1
      <3> QED BY <2>3, <3>1, <3>2, ServerSteps DEF Truncates
    <2> QED BY <2>1, <2>2, <2>4
  <1>2. CASE WPrepare(w)
    <2>1. wpc[w] = "prepare" /\ Busy(w) /\ WorkerStep(w)
      BY <1>2 DEF WPrepare, Busy, WorkerStep
    <2>2. PICK c \in Chunks : c = task[w].chunk /\ c = task'[w].chunk
      BY <1>0, <2>1, TaskOf, WorkerKeeps
    <2>3. CASE server' = Truncate(TableOf[task[w].chunk[1]])
      <3>1. server' = Truncate(TableOf[c[1]])
        BY <2>2, <2>3
      <3>2. server'[c][r] = 0
        BY <1>0, <3>1, RowsTruncated
      <3> QED BY <2>2, <3>2
    <2>4. CASE task' = task /\ server' = server /\ ~(task[w].resume /\ TableOf[task[w].chunk[1]] \notin Pke)
      <3>1. ~task[w].resume
        BY <2>2, <2>4
      <3>2. server[c][r] = 0
        BY <2>1, <2>2, <3>1 DEF NoCopies
      <3> QED BY <2>2, <2>4, <3>2
    <2> QED BY <1>2, <2>3, <2>4, TaskFields
  <1>3. CASE WCommit(w)
    <2>1. wpc[w] = "load" /\ Busy(w) /\ WorkerStep(w)
      BY <1>3 DEF WCommit, Busy, WorkerStep
    <2>2. PICK c \in Chunks, o \in Nat : c = task[w].chunk /\ o = task[w].off /\ c = task'[w].chunk
      BY <1>0, <2>1, TaskOf, WorkerKeeps
    <2>a. PICK n \in 0..NumRows :
            /\ server' = LoadRows(task[w].chunk, task[w].off, task[w].off + n)
            /\ task'[w].off = task[w].off + n
      BY <1>3, TaskFields
    <2>3. n \in 0..NumRows /\ server' = LoadRows(c, o, o + n) /\ task'[w].off = o + n
      BY <2>2, <2>a
    <2>4. n \in Nat /\ o + n \in Nat /\ r > o + n /\ r > o
      <3>1. n \in Nat /\ r \in Nat
        BY <2>3, Sizes
      <3>2. r > o + n
        BY <2>3
      <3> QED BY <3>1, <3>2
    <2>5. server[c][r] = 0
      BY <2>1, <2>2, <2>4 DEF NoCopies
    <2>6. server'[c][r] = server[c][r]
      BY <1>0, <2>3, <2>4, RowsLoaded
    <2> QED BY <2>2, <2>5, <2>6
  <1>4. CASE WReport(w)
    <2>1. wpc[w] = "report" /\ WorkerStep(w)
      BY <1>4 DEF WReport, WorkerStep
    <2>2. task'[w].chunk = task[w].chunk /\ task'[w].off = task[w].off /\ server' = server
      BY <1>0, <1>4, <2>1, TaskFields, WorkerKeeps
    <2> QED BY <2>1, <2>2 DEF NoCopies
  <1>5. CASE WReady(w) \/ WStart(w) \/ WEnd(w) \/ WFail(w)
    <2>1. wpc'[w] \in {"wait", "exited", "prepare", "ready"}
      BY <1>0, <1>5 DEF WReady, WStart, WEnd, WFail
    <2> QED BY <2>1
  <1> QED BY <1>1, <1>2, <1>3, <1>4, <1>5 DEF WorkerStep

\* Every step keeps the rows single.
LEMMA NoCopiesStep ==
  ASSUME Keyed \/ RowsLogged, Base, NoCopies, [Next]_vars
  PROVE  NoCopies'
  <1>1. ASSUME NEW w \in Workers, Keyed, Busy(w)' PROVE TableOf[task'[w].chunk[1]] \in Pke
    <2>1. TypeOK' /\ Taken'
      BY TypesStep, TakenStep
    <2>2. task' \in [Workers -> LoadTasks] /\ task'[w].chunk # <<>>
      BY <1>1, <2>1 DEF TypeOK, Taken
    <2>3. task'[w].chunk \in Chunks
      BY <2>2 DEF LoadTasks
    <2> QED BY <1>1, <2>3 DEF Keyed
  <1>2. ASSUME NEW w \in Workers, wpc'[w] \in {"given", "prepare"}, ~task'[w].resume,
               TableOf[task'[w].chunk[1]] \notin Pke, NEW r \in 1..NumRows
        PROVE  server'[task'[w].chunk][r] = 0
    <2>1. ~Keyed
      BY <1>1, <1>2 DEF Busy
    <2> QED BY <1>2, <2>1, AbsentStep
  <1> QED BY <1>2, CopiesStep, BehindStep DEF NoCopies

----------------------------------------------------------------------------
(* Nothing left out.                                                        *)

\* The main thread begins to load, or takes an event.
LEMMA NothingLeftMain ==
  ASSUME Base, NothingLeft, mpc' = "load", ~interrupt',
         Begin \/ SkipChunk \/ NothingToDo \/ HandleExit \/ HandleLoadEvent
  PROVE  NothingLeft'
  <1>0. TypeOK /\ AtRest
    BY DEF Base
  <1>1. CASE Begin
    <2>1. mpc = "begin" /\ UNCHANGED <<consumed, live, idle, wpc>>
      BY <1>1 DEF Begin
    <2>2. /\ live' = Workers /\ idle' = {} /\ \A w \in Workers : wpc'[w] = "ready"
          /\ \A p \in Parts : consumed'[p] = 0
      BY <1>0, <2>1 DEF AtRest, Running
    <2>3. \A c \in Chunks : Untouched(c)'
      BY <2>2, ChunkShape DEF Untouched
    <2> QED BY <2>2, <2>3 DEF NothingLeft
  <1>2. CASE SkipChunk \/ NothingToDo \/ HandleExit \/ HandleLoadEvent
    <2>1. UNCHANGED <<wpc, task, last, server>> /\ mpc = "load"
          /\ (queue' = queue \/ (queue # <<>> /\ queue' = Tail(queue)))
      BY <1>2, MainTakes
    <2>2. interrupt' = interrupt
      BY <1>2 DEF SkipChunk, NothingToDo, HandleExit, HandleLoadEvent
    <2>3. /\ live = Workers /\ \A w \in Workers : wpc[w] # "exited"
          /\ idle # {} => Remaining = {}
          /\ \A c \in Chunks : ~Untouched(c) => InHand(c)
      BY <2>1, <2>2 DEF NothingLeft
    <2>4. CASE SkipChunk
      <3>1. PICK p \in Remaining : /\ last.chunk[NextChunk(p)] = "DONE"
                                   /\ consumed' = [consumed EXCEPT ![p] = @ + 1]
        BY <2>4 DEF SkipChunk
      <3>2. UNCHANGED <<live, idle, file, queue>>
        BY <2>4 DEF SkipChunk
      <3>3. idle' = {}
        BY <2>3, <3>1, <3>2
      <3>4. PICK d \in Chunks : d = NextChunk(p) /\ d[1] = p /\ d[2] = consumed[p] /\ p \in Parts
        BY <1>0, <3>1, NextIsChunk DEF TypeOK
      <3>5. file.chunk[d] = "DONE"
        BY <2>1, <3>1, <3>4 DEF Base, LogKept
      <3>6. ASSUME NEW c \in Chunks, ~Untouched(c)' PROVE InHand(c)'
        <4>1. CASE c = d
          BY <3>2, <3>5, <4>1 DEF InHand
        <4>2. CASE c # d
          <5>1. ~Untouched(c)
            <6>1. CASE c[1] = p
              <7>1. c[2] # consumed[p] /\ c[2] \in Nat /\ consumed[p] \in Nat
                BY <1>0, <3>4, <4>2, <6>1, ChunkShape DEF TypeOK
              <7>2. consumed'[p] = consumed[p] + 1
                BY <1>0, <3>1, <3>4 DEF TypeOK
              <7> QED BY <3>6, <6>1, <7>1, <7>2 DEF Untouched
            <6>2. CASE c[1] # p
              BY <1>0, <3>1, <3>6, <6>2, ChunkShape DEF Untouched, TypeOK
            <6> QED BY <6>1, <6>2
          <5>2. InHand(c)
            BY <2>3, <5>1
          <5> QED BY <2>1, <3>2, <5>2 DEF InHand, Posted, EventAt, Busy
        <4> QED BY <4>1, <4>2
      <3> QED BY <2>1, <2>3, <3>2, <3>3, <3>6 DEF NothingLeft
    <2>5. CASE NothingToDo
      <3>1. Remaining = {} /\ UNCHANGED <<live, file, consumed>>
        BY <2>2, <2>5 DEF NothingToDo
      <3>2. queue # <<>> /\ queue' = Tail(queue) /\ ~EventAt(1, "LOAD_END", <<>>)
            /\ queue[1].type = "READY"
        BY <1>0, <2>5, Handled DEF NothingToDo, EventAt
      <3>3. ASSUME NEW c \in Chunks, ~Untouched(c)' PROVE InHand(c)'
        <4>1. InHand(c)
          BY <2>3, <3>1, <3>3 DEF Untouched
        <4>2. ~EventAt(1, "LOAD_END", c)
          BY <3>2 DEF EventAt
        <4>3. Posted("LOAD_END", c) => Posted("LOAD_END", c)'
          BY <1>0, <2>1, <3>2, <4>2, EventsPopped
        <4> QED BY <2>1, <3>1, <4>1, <4>3 DEF InHand, Busy
      <3>4. Remaining' = {}
        BY <3>1 DEF Remaining
      <3> QED BY <2>1, <2>3, <3>1, <3>3, <3>4 DEF NothingLeft
    <2>6. CASE HandleExit
      <3>1. PICK t \in {"FATAL_ERROR", "EXIT"} : Handling(t)
        BY <2>6 DEF HandleExit
      <3>2. queue[1].type = t /\ 1 \in 1..Len(queue) /\ queue[1].worker \in Workers
        BY <1>0, <3>1, Handled
      <3>3. wpc[queue[1].worker] \in Places(t)
        BY <3>2 DEF Base, Handshake, EventPlace
      <3>4. wpc[queue[1].worker] = "exited"
        BY <3>1, <3>3 DEF Places
      <3> QED BY <2>3, <3>2, <3>4
    <2>7. CASE HandleLoadEvent
      <3>1. PICK t \in LoadEvents, d \in Chunks : LogsEvent(t, d)
        BY <2>7, SomeEventLogged
      <3>2. UNCHANGED <<live, idle, consumed>> /\ queue' = Tail(queue)
        BY <3>1 DEF LogsEvent
      <3>3. /\ queue # <<>> /\ queue[1].type = t /\ task[queue[1].worker].chunk = d
            /\ t = "LOAD_END" => file'.chunk[d] = "DONE"
            /\ \A c \in Chunks : file.chunk[c] = "DONE" => file'.chunk[c] = "DONE"
        BY <3>1, EventLogged DEF LoadEvents
      <3>4. ASSUME NEW c \in Chunks, ~Untouched(c)' PROVE InHand(c)'
        <4>1. InHand(c)
          BY <2>3, <3>2, <3>4 DEF Untouched
        <4>2. CASE EventAt(1, "LOAD_END", c)
          BY <3>3, <4>2 DEF EventAt, InHand
        <4>3. CASE ~EventAt(1, "LOAD_END", c)
          <5>1. Posted("LOAD_END", c) => Posted("LOAD_END", c)'
            BY <1>0, <2>1, <3>2, <3>3, <4>3, EventsPopped
          <5> QED BY <2>1, <3>3, <4>1, <5>1 DEF InHand, Busy
        <4> QED BY <4>2, <4>3
      <3>5. Remaining' = Remaining
        BY <3>2 DEF Remaining
      <3> QED BY <2>1, <2>3, <3>2, <3>4, <3>5 DEF NothingLeft
    <2> QED BY <1>2, <2>4, <2>5, <2>6, <2>7
  <1> QED BY <1>1, <1>2

\* A chunk is given to a worker.
LEMMA NothingLeftScheduled ==
  ASSUME Base, NothingLeft, ~interrupt', ScheduleChunk
  PROVE  NothingLeft'
  <1>0. TypeOK
    BY DEF Base
  <1>1. PICK w \in Workers, d \in Chunks, off \in Nat, sub \in 0..MaxSub :
          Scheduled(w, d, off, sub)
    BY ScheduledTask
  <1>2. /\ task'[w].chunk = d /\ wpc'[w] = "given" /\ mpc = "load"
        /\ \A u \in Workers : u # w => task'[u] = task[u] /\ wpc'[u] = wpc[u]
        /\ consumed'[d[1]] = consumed[d[1]] + 1
        /\ \A p \in Parts : p # d[1] => consumed'[p] = consumed[p]
        /\ queue # <<>> /\ queue' = Tail(queue) /\ 1 \in 1..Len(queue) /\ queue[1].worker = w
        /\ queue[1].type = "READY"
    BY <1>0, <1>1, GivenTask
  <1>3. UNCHANGED <<file, live, idle, interrupt>>
    BY DEF ScheduleChunk
  <1>4. PICK p \in Remaining : d = NextChunk(p) /\ d[1] = p /\ d[2] = consumed[p] /\ p \in Parts
    <2>1. PICK p \in Remaining : task'[Head(queue).worker].chunk = NextChunk(p)
      <3>1. Head(queue) = queue[1] /\ queue[1].worker \in Workers
        BY <1>0, Handled DEF ScheduleChunk
      <3> QED BY <1>0, <3>1 DEF ScheduleChunk, TypeOK
    <2>2. Head(queue) = queue[1]
      BY <1>0, Handled DEF ScheduleChunk
    <2> QED BY <1>0, <1>2, <2>1, <2>2, NextIsChunk DEF TypeOK
  <1>5. /\ live = Workers /\ \A u \in Workers : wpc[u] # "exited"
        /\ idle # {} => Remaining = {}
        /\ \A c \in Chunks : ~Untouched(c) => InHand(c)
    BY <1>2, <1>3 DEF NothingLeft
  <1>6. idle' = {}
    BY <1>3, <1>4, <1>5
  <1>7. wpc[w] = "wait"
    <2>1. wpc[w] \in Places("READY")
      BY <1>2 DEF Base, Handshake, EventPlace
    <2> QED BY <2>1 DEF Places
  <1>8. ASSUME NEW c \in Chunks, ~Untouched(c)' PROVE InHand(c)'
    <2>1. CASE c = d
      BY <1>2, <2>1 DEF InHand, Busy
    <2>2. CASE c # d
      <3>1. ~Untouched(c)
        <4>1. CASE c[1] = p
          <5>1. c[2] # consumed[p] /\ c[2] \in Nat /\ consumed[p] \in Nat
            BY <1>0, <1>4, <2>2, <4>1, ChunkShape DEF TypeOK
          <5> QED BY <1>2, <1>4, <1>8, <4>1, <5>1 DEF Untouched
        <4>2. CASE c[1] # p
          BY <1>0, <1>2, <1>4, <1>8, <4>2, ChunkShape DEF Untouched, TypeOK
        <4> QED BY <4>1, <4>2
      <3>2. InHand(c)
        BY <1>5, <3>1
      <3>3. Posted("LOAD_END", c) => Posted("LOAD_END", c)'
        <4>1. ~EventAt(1, "LOAD_END", c)
          BY <1>2 DEF EventAt
        <4> QED BY <1>0, <1>1, <4>1, EventsScheduled, EventsPopped
      <3>4. ASSUME NEW u \in Workers, Busy(u), task[u].chunk = c
            PROVE  Busy(u)' /\ task'[u].chunk = c
        <4>1. u # w
          BY <1>7, <3>4 DEF Busy
        <4> QED BY <1>2, <3>4, <4>1 DEF Busy
      <3> QED BY <1>3, <3>2, <3>3, <3>4 DEF InHand
    <2> QED BY <2>1, <2>2
  <1>9. \A u \in Workers : wpc'[u] # "exited"
    BY <1>2, <1>5
  <1> QED BY <1>3, <1>5, <1>6, <1>8, <1>9 DEF NothingLeft

\* A worker's step.
LEMMA NothingLeftWorker ==
  ASSUME Base, NothingLeft, ~interrupt', mpc' = "load", NEW w \in Workers, WorkerStep(w)
  PROVE  NothingLeft'
  <1>0. TypeOK /\ wpc \in [Workers -> WorkerPlaces]
    BY DEF Base, TypeOK, WorkerPlaces
  <1>1. /\ UNCHANGED <<file, mpc, consumed, live, idle>>
        /\ \A u \in Workers : u # w => wpc'[u] = wpc[u] /\ task'[u] = task[u]
        /\ task'[w].chunk = task[w].chunk
    BY <1>0, WorkerKeeps
  <1>2. ~WFail(w) /\ interrupt' = interrupt
    BY DEF WorkerStep, WReady, WStart, WPrepare, WCommit, WReport, WEnd, WFail
  <1>3. /\ live = Workers /\ \A u \in Workers : wpc[u] # "exited"
        /\ idle # {} => Remaining = {}
        /\ \A c \in Chunks : ~Untouched(c) => InHand(c)
    BY <1>1, <1>2 DEF NothingLeft
  <1>4. /\ wpc'[w] # "exited"
        /\ Busy(w) => Busy(w)' \/ WEnd(w)
    <2>1. CASE WReady(w)
      <3>1. wpc[w] = "ready" /\ wpc'[w] = "wait"
        BY <1>0, <2>1 DEF WReady
      <3> QED BY <3>1 DEF Busy
    <2>2. CASE WStart(w)
      <3>1. wpc'[w] = "prepare"
        BY <1>0, <1>2, <2>2 DEF WStart
      <3> QED BY <3>1 DEF Busy
    <2>3. CASE WPrepare(w) \/ WCommit(w) \/ WReport(w)
      <3>1. wpc'[w] \in {"load", "report", "end"}
        BY <1>0, <2>3 DEF WPrepare, WCommit, WReport
      <3> QED BY <3>1 DEF Busy
    <2>4. CASE WEnd(w)
      <3>1. wpc'[w] = "ready"
        BY <1>0, <2>4 DEF WEnd
      <3> QED BY <2>4, <3>1
    <2> QED BY <1>2, <2>1, <2>2, <2>3, <2>4 DEF WorkerStep
  <1>5. ASSUME NEW c \in Chunks, ~Untouched(c)' PROVE InHand(c)'
    <2>1. InHand(c)
      BY <1>1, <1>3, <1>5 DEF Untouched
    <2>2. CASE file.chunk[c] = "DONE"
      BY <1>1, <2>2 DEF InHand
    <2>3. CASE Posted("LOAD_END", c)
      BY <1>0, <2>3, EventsPushed DEF InHand
    <2>4. ASSUME NEW u \in Workers, Busy(u), task[u].chunk = c PROVE InHand(c)'
      <3>1. CASE u # w
        BY <1>1, <2>4, <3>1 DEF InHand, Busy
      <3>2. CASE u = w /\ Busy(w)'
        BY <1>1, <2>4, <3>2 DEF InHand
      <3>3. CASE u = w /\ WEnd(w)
        <4>1. queue' = Append(queue, Event("LOAD_END", w))
          BY <3>3 DEF WEnd
        <4>2. PICK n : n = Len(queue) + 1
          OBVIOUS
        <4>3. n \in 1..Len(queue') /\ queue'[n].type = "LOAD_END" /\ queue'[n].worker = w
          BY <1>0, <4>1, <4>2, PushedBy DEF AllEvents
        <4>4. EventAt(n, "LOAD_END", c)'
          BY <1>1, <2>4, <3>3, <4>3 DEF EventAt
        <4> QED BY <4>3, <4>4 DEF InHand, Posted
      <3> QED BY <1>4, <2>4, <3>1, <3>2, <3>3
    <2> QED BY <2>1, <2>2, <2>3, <2>4 DEF InHand
  <1>6. Remaining' = Remaining
    BY <1>1 DEF Remaining
  <1>7. \A u \in Workers : wpc'[u] # "exited"
    BY <1>1, <1>3, <1>4
  <1> QED BY <1>1, <1>3, <1>5, <1>6, <1>7 DEF NothingLeft

\* Every step keeps the chunks that were taken in hand.
LEMMA NothingLeftStep ==
  ASSUME Base, NothingLeft, [Next]_vars
  PROVE  NothingLeft'
  <1> SUFFICES ASSUME mpc' = "load", ~interrupt' PROVE NothingLeft'
    BY DEF NothingLeft
  <1>1. CASE UNCHANGED vars
    BY <1>1 DEF NothingLeft, InHand, Posted, EventAt, Busy, Untouched, Remaining,
                vars, serverVars, mainVars
  <1>2. CASE Begin \/ SkipChunk \/ NothingToDo \/ HandleExit \/ HandleLoadEvent
    BY <1>2, NothingLeftMain
  <1>3. CASE ScheduleChunk
    BY <1>3, NothingLeftScheduled
  <1>4. CASE Interrupt
    BY <1>4 DEF Interrupt
  <1>5. CASE \E w \in Workers : WorkerStep(w)
    BY <1>5, NothingLeftWorker
  <1> QED BY <1>1, <1>2, <1>3, <1>4, <1>5, MainPlaces

\* The load is complete only with every row on the server.
LEMMA CompleteLoad ==
  ASSUME Base, RowsThere, NothingLeft, Finish, ~interrupt, NEW c \in Chunks
  PROVE  Full(c)
  <1>0. TypeOK /\ IdleSilent
    BY DEF Base, Handshake
  <1>1. mpc = "load" /\ idle = live
    BY DEF Finish
  <1>2. /\ live = Workers /\ (idle # {} => Remaining = {})
        /\ \A d \in Chunks : ~Untouched(d) => InHand(d)
    BY <1>1 DEF NothingLeft
  <1>3. Remaining = {}
    BY <1>1, <1>2, LoadAssumption
  <1>4. ~Untouched(c)
    <2>1. ~(consumed[c[1]] < NumChunks[c[1]])
      BY <1>3, ChunkShape DEF Remaining
    <2>2. consumed[c[1]] \in Nat /\ NumChunks[c[1]] \in Nat
      BY <1>0, ChunkShape, LoadAssumption DEF TypeOK
    <2> QED BY <2>1, <2>2, ChunkShape DEF Untouched
  <1>5. \A w \in Workers : ~Busy(w)
    BY <1>0, <1>1, <1>2 DEF IdleSilent, Busy
  <1>6. ~Posted("LOAD_END", c)
    BY <1>1, AllHandled
  <1>7. file.chunk[c] = "DONE"
    BY <1>2, <1>4, <1>5, <1>6 DEF InHand
  <1> QED BY <1>7 DEF RowsThere

\* Every step is a step of the abstract load, or none.
LEMMA ExactlyOnceStep ==
  ASSUME Base, RowsThere, NoCopies, NothingLeft, [Next]_vars
  PROVE  [Abstract!Next]_(Abstract!vars)
  <1>0. TypeOK /\ server \in [Chunks -> [1..NumRows -> 0..MaxCopies]]
        /\ server' \in [Chunks -> [1..NumRows -> 0..MaxCopies]]
    <2>1. TypeOK'
      BY TypesStep
    <2> QED BY <2>1 DEF Base, TypeOK
  <1>1. ASSUME \A c \in Chunks : Adds(c), server' # server
        PROVE  Abstract!Next
    <2>1. PICK new : new = [c \in Chunks |-> {r \in 1..NumRows : server'[c][r] = 1}]
      OBVIOUS
    <2>2. PICK to : to = [c \in Chunks |->
                            [r \in 1..NumRows |-> IF r \in new[c] THEN 1 ELSE server[c][r]]]
      OBVIOUS
    <2>3. server' = to
      <3>1. ASSUME NEW c \in Chunks, NEW r \in 1..NumRows PROVE server'[c][r] = to[c][r]
        <4>1. server'[c][r] = 1 \/ server'[c][r] = server[c][r]
          BY <1>1, RowLoadedOnce
        <4>2. r \in new[c] <=> server'[c][r] = 1
          BY <2>1
        <4>3. to[c][r] = IF r \in new[c] THEN 1 ELSE server[c][r]
          BY <2>2
        <4> QED BY <4>1, <4>2, <4>3
      <3>2. ASSUME NEW c \in Chunks PROVE server'[c] = to[c]
        <4>1. server'[c] = [r \in 1..NumRows |-> server'[c][r]]
          BY <1>0
        <4>2. to[c] = [r \in 1..NumRows |-> to[c][r]]
          BY <2>2
        <4>3. [r \in 1..NumRows |-> server'[c][r]] = [r \in 1..NumRows |-> to[c][r]]
          BY <3>1
        <4> QED BY <4>1, <4>2, <4>3
      <3> QED BY <1>0, <2>2, <3>2
    <2>4. mpc # "complete" /\ mpc' # "complete"
      <3>1. PICK c \in Chunks : server'[c] # server[c]
        BY <1>0, <1>1
      <3>2. PICK w \in Workers : WCommit(w) \/ WFail(w) \/ Crash
        BY <1>1, <3>1 DEF Adds, Loads
      <3>3. CASE Crash
        BY <3>3 DEF Crash
      <3>4. CASE WorkerStep(w)
        BY <1>0, <3>4, WorkerKeeps
      <3> QED BY <3>2, <3>3, <3>4 DEF WorkerStep
    <2>5. new \in [Chunks -> SUBSET (1..NumRows)]
      BY <2>1
    <2>6. Abstract!Add
      BY <2>2, <2>3, <2>4, <2>5 DEF Abstract!Add
    <2> QED BY <2>6 DEF Abstract!Next
  <1>2. ASSUME NEW w \in Workers, WPrepare(w), server' = Truncate(TableOf[task[w].chunk[1]])
        PROVE  Abstract!Next
    <2>1. PICK c \in Chunks : c = task[w].chunk
      BY <1>2, TaskOf DEF Busy, WPrepare
    <2>2. TableOf[c[1]] \in Tables
      BY ChunkShape
    <2>3. mpc # "complete" /\ mpc' # "complete"
      <3>1. WorkerStep(w)
        BY <1>2 DEF WorkerStep
      <3> QED BY <1>0, <3>1, WorkerKeeps
    <2>4. Abstract!StartOver(TableOf[c[1]])
      BY <1>2, <2>1, <2>3 DEF Abstract!StartOver, Abstract!NoRows, Truncate
    <2> QED BY <2>2, <2>4 DEF Abstract!Next
  <1>3. ASSUME server' = server PROVE [Abstract!Next]_(Abstract!vars)
    <2>1. CASE (mpc = "complete") = (mpc' = "complete")
      BY <1>3, <2>1 DEF Abstract!vars
    <2>2. CASE (mpc = "complete") # (mpc' = "complete")
      <3>1. Finish /\ mpc' = "complete"
        <4>1. CASE UNCHANGED vars
          BY <2>2, <4>1 DEF vars, mainVars
        <4>2. ASSUME NEW w \in Workers, WorkerStep(w) PROVE mpc' = mpc
          BY <1>0, <4>2, WorkerKeeps
        <4> QED BY <2>2, <4>1, <4>2, MainPlaces
      <3>2. ~interrupt
        BY <3>1 DEF Finish
      <3>3. ASSUME NEW c \in Chunks, NEW r \in 1..NumRows PROVE server[c][r] = 1
        <4>1. server[c][r] > 0
          BY <3>1, <3>2, CompleteLoad DEF Full
        <4>2. server[c][r] <= 1 /\ server[c][r] \in 0..2
          BY <1>0 DEF NoCopies, MaxCopies
        <4> QED BY <4>1, <4>2
      <3>4. Abstract!Finish
        BY <1>3, <3>1, <3>3 DEF Abstract!Finish
      <3> QED BY <3>4 DEF Abstract!Next
    <2> QED BY <2>1, <2>2
  <1> QED BY <1>1, <1>2, <1>3, ServerSteps DEF Truncates

----------------------------------------------------------------------------
(* ExactlyOnceLoad is implemented.                                          *)

\* The first state, for the rows on the server.
LEMMA CopiesInit ==
  ASSUME Init
  PROVE  NoCopies /\ NothingLeft
  <1>1. \A c \in Chunks : \A r \in 1..NumRows : server[c][r] = 0
    BY DEF Init
  <1>2. mpc = "init" /\ \A w \in Workers : wpc[w] = "ready"
    BY DEF Init
  <1> QED BY <1>1, <1>2 DEF NoCopies, NothingLeft

\* A load that is not interrupted leaves nothing out.
THEOREM NothingLeftCorrect == Spec => []NothingLeft
  <1>1. Init => NothingLeft
    BY CopiesInit
  <1>2. Base /\ NothingLeft /\ [Next]_vars => NothingLeft'
    BY NothingLeftStep
  <1> QED BY <1>1, <1>2, LoadInductive, PTL DEF Spec

\* No row is loaded twice: with keys however runs end, without them when the
\* runs end in good order.
THEOREM NoCopiesCorrect == Keyed \/ Graceful => (Spec => []NoCopies)
  <1>1. Init => NoCopies
    BY CopiesInit
  <1>2. ASSUME Keyed PROVE Spec => []NoCopies
    <2>1. Base /\ NoCopies /\ [Next]_vars => NoCopies'
      BY <1>2, NoCopiesStep
    <2> QED BY <1>1, <2>1, LoadInductive, PTL DEF Spec
  <1>3. ASSUME Graceful PROVE Spec => []NoCopies
    <2>1. Base /\ RowsLogged /\ NoCopies /\ [Next]_vars => NoCopies'
      BY NoCopiesStep
    <2> QED BY <1>1, <1>3, <2>1, LoadInductive, RowsLoggedCorrect, PTL DEF Spec
  <1> QED BY <1>2, <1>3

\* Property ExactlyOnce, that ResumableLoad implements ExactlyOnceLoad: if every
\* table has a key, however runs end; if not, when a table without a key has
\* one data file and runs end in good order.
THEOREM ExactlyOnceCorrect == Keyed \/ (OneFile /\ Graceful) => (Spec => ExactlyOnce)
  <1> SUFFICES ASSUME Keyed \/ (OneFile /\ Graceful) PROVE Spec => ExactlyOnce
    OBVIOUS
  <1>1. OneFile /\ (Keyed \/ Graceful)
    BY DEF Keyed, OneFile
  <1>2. Init => Abstract!Init
    BY DEF Init, Abstract!Init, Abstract!NoRows
  <1>3. Base /\ RowsThere /\ NoCopies /\ NothingLeft /\ [Next]_vars
          => [Abstract!Next]_(Abstract!vars)
    BY ExactlyOnceStep
  <1>4. Spec => []RowsThere
    BY <1>1, RowsThereCorrect
  <1>5. Spec => []NoCopies
    BY <1>1, NoCopiesCorrect
  <1> QED BY <1>2, <1>3, <1>4, <1>5, LoadInductive, NothingLeftCorrect, PTL
          DEF Spec, ExactlyOnce, Abstract!Spec
=============================================================================
