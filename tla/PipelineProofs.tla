---------------------------- MODULE PipelineProofs ----------------------------
(***************************************************************************)
(* Type correctness of the image pipeline, exact change detection, the     *)
(* traceability of flavors.lock and its refinement of an atomic register,  *)
(* for any flavors, any number of runs and any pushes.                     *)
(***************************************************************************)
EXTENDS PipelineProperties, TLAPS

Early == {"none", "skipped", "produce"}

\* What a run has read of the commit it checked out, and when it has results.
Sourced(m, x) ==
  /\ x.phase # "none" => x.sha \in DOMAIN m /\ x.sha >= 2
  /\ x.view \in DOMAIN m \cup {0}
  /\ x.phase \in Early => DOMAIN x.digest = {}
  /\ x.phase = "ami" => DOMAIN x.digest = x.matrix.image \cup x.matrix.amiOnly
  /\ \A f \in DOMAIN x.digest :
       \/ x.digest[f] = m[x.sha].image[f]
       \/ m[x.sha].lock[f] # NoEntry /\ x.digest[f] = m[x.sha].lock[f].image

\* The results of run r: only after "ami", and from what it checked out.
Registered(m, r, x) ==
  /\ x.phase \in Early \cup {"ami"} => DOMAIN x.results = {}
  /\ x.phase \in {"waiting", "writing", "cancelled", "rejected"} =>
       x.event # "debug" /\ DOMAIN x.results # {}
  /\ \A f \in DOMAIN x.results :
       /\ f \in DOMAIN x.digest
       /\ x.results[f].image = x.digest[f]
       /\ x.results[f].env = m[x.sha].env[f]
       /\ x.results[f].producing = x.sha
       /\ x.results[f].ami = r

\* What differs between two commits, at the level it differs.
Difference(new, old, baseline) ==
  LET image == {f \in Flavor : new.image[f] # old.image[f]}
      env == {f \in Flavor : new.env[f] # old.env[f]}
  IN  IF baseline THEN [image |-> image, amiOnly |-> env \ image]
                  ELSE [image |-> Flavor, amiOnly |-> {}]

Exact(m, x) ==
  x.phase # "none" /\ x.event = "push" =>
    x.matrix = Difference(m[x.sha], m[x.sha - 1], x.baseline)

RunInv(m, r, x) == Sourced(m, x) /\ Registered(m, r, x) /\ Exact(m, x)

\* No input of a commit on the branch is younger than the commit.
Dated == \A n \in DOMAIN main, f \in Flavor :
           main[n].image[f] \in 1..n /\ main[n].env[f] \in 1..n

PipelineInv ==
  /\ PipelineTypeOK
  /\ Len(main) >= 2
  /\ Dated
  /\ \A r \in Run : RunInv(main, r, run[r])
  /\ EntriesTraceable

\* A run that another run's step touches changes its phase within the group only.
Moved(x, y) ==
  /\ x \in Record /\ y \in Record
  /\ y = [x EXCEPT !.phase = y.phase]
  /\ y.phase # x.phase => x.phase = "waiting" /\ y.phase \in {"writing", "cancelled"}
-----------------------------------------------------------------------------
LEMMA EmptyResults ==
  /\ <<>> \in Digests
  /\ <<>> \in Results
  /\ DOMAIN <<>> = {}
  <1>1. DOMAIN <<>> = {}
    OBVIOUS
  <1>2. <<>> \in [{} -> Nat] /\ <<>> \in [{} -> Entry]
    OBVIOUS
  <1> QED
    BY <1>1, <1>2 DEF Digests, Results

\* The branch only grows: what a commit was it stays.
LEMMA Grown ==
  ASSUME NEW m \in Seq(Commit), NEW c \in Commit
  PROVE  /\ Append(m, c) \in Seq(Commit)
         /\ Len(Append(m, c)) = Len(m) + 1
         /\ DOMAIN Append(m, c) = DOMAIN m \cup {Len(m) + 1}
         /\ \A n \in DOMAIN m : Append(m, c)[n] = m[n]
         /\ Append(m, c)[Len(m) + 1] = c
  OBVIOUS

\* A run that is moved keeps everything but its phase.
LEMMA MovedSame ==
  ASSUME NEW x, NEW y, Moved(x, y)
  PROVE  /\ y.event = x.event /\ y.baseline = x.baseline /\ y.sha = x.sha
         /\ y.matrix = x.matrix /\ y.digest = x.digest /\ y.results = x.results
         /\ y.view = x.view
  BY DEF Moved, Record

LEMMA MovedKeeps ==
  ASSUME NEW m, NEW r, NEW x, NEW y, Moved(x, y), RunInv(m, r, x)
  PROVE  RunInv(m, r, y)
  <1>1. /\ y.event = x.event /\ y.baseline = x.baseline /\ y.sha = x.sha
        /\ y.matrix = x.matrix /\ y.digest = x.digest /\ y.results = x.results
        /\ y.view = x.view
    BY MovedSame
  <1>2. Sourced(m, y)
    BY <1>1 DEF Moved, RunInv, Sourced, Early
  <1>3. Registered(m, r, y)
    BY <1>1 DEF Moved, RunInv, Registered, Early
  <1>4. Exact(m, y)
    BY <1>1 DEF Moved, RunInv, Exact
  <1> QED
    BY <1>2, <1>3, <1>4 DEF RunInv

LEMMA GrownKeeps ==
  ASSUME NEW m \in Seq(Commit), NEW c \in Commit, NEW r, NEW x, Len(m) >= 2,
         x.sha \in Nat, RunInv(m, r, x)
  PROVE  RunInv(Append(m, c), r, x)
  <1> DEFINE M == Append(m, c)
  <1>1. DOMAIN m \subseteq DOMAIN M /\ \A n \in DOMAIN m : M[n] = m[n]
    BY Grown
  <1>2. x.phase # "none" =>
          /\ x.sha \in DOMAIN m /\ x.sha - 1 \in DOMAIN m
          /\ M[x.sha] = m[x.sha] /\ M[x.sha - 1] = m[x.sha - 1]
    <2>1. DOMAIN m = 1..Len(m) /\ Len(m) \in Nat
      OBVIOUS
    <2> QED
      BY <1>1, <2>1 DEF RunInv, Sourced
  <1>3. x.phase = "none" => DOMAIN x.digest = {} /\ DOMAIN x.results = {}
    BY DEF RunInv, Sourced, Registered, Early
  <1> HIDE DEF M
  <1>4. Sourced(M, x)
    BY <1>1, <1>2, <1>3 DEF RunInv, Sourced
  <1>5. Registered(M, r, x)
    BY <1>1, <1>2, <1>3 DEF RunInv, Registered
  <1>6. Exact(M, x)
    BY <1>1, <1>2 DEF RunInv, Exact
  <1> QED
    BY <1>4, <1>5, <1>6 DEF RunInv, M

\* What a step may do to runs that have results, and to the branch.
ResultsStay ==
  \A s \in Run : DOMAIN run[s].results # {} =>
    run'[s].results = run[s].results /\ run'[s].event = run[s].event

BranchGrows == main' = main \/ \E c \in Commit : main' = Append(main, c)

LEMMA BranchKept ==
  ASSUME PipelineTypeOK, BranchGrows
  PROVE  /\ main' \in Seq(Commit) /\ Len(main') >= Len(main)
         /\ DOMAIN main \subseteq DOMAIN main'
         /\ \A n \in DOMAIN main : main'[n] = main[n]
  BY Grown DEF PipelineTypeOK, BranchGrows

LEMMA TracesKept ==
  ASSUME PipelineInv, BranchGrows, ResultsStay,
         NEW n \in DOMAIN main, NEW f \in Flavor, main[n].lock[f] # NoEntry
  PROVE  Traceable(n, f)'
  <1> DEFINE e == main[n].lock[f]
  <1>1. Traceable(n, f) /\ n \in Nat
    BY DEF PipelineInv, EntriesTraceable, PipelineTypeOK
  <1>2. main'[n] = main[n]
    BY BranchKept DEF PipelineInv
  <1>3. e.producing \in DOMAIN main /\ main'[e.producing] = main[e.producing]
    <2>1. e.producing \in 1..(n - 1)
      BY <1>1 DEF Traceable
    <2>2. e.producing \in DOMAIN main
      BY <2>1 DEF PipelineInv, PipelineTypeOK
    <2> QED
      BY <2>2, BranchKept DEF PipelineInv
  <1>4. e.ami # None => /\ e.ami \in Run
                        /\ run'[e.ami].results = run[e.ami].results
                        /\ run'[e.ami].event = run[e.ami].event
    <2>0. main[n] \in Commit
      BY DEF PipelineInv, PipelineTypeOK
    <2>1. e \in Entry
      BY <2>0 DEF Commit
    <2>2. e.ami # None => e.ami \in Run /\ DOMAIN run[e.ami].results # {}
      BY <1>1, <2>1 DEF Traceable, Entry
    <2> QED
      BY <2>2 DEF ResultsStay
  <1> QED
    BY <1>1, <1>2, <1>3, <1>4 DEF Traceable

\* What Traceable says of an entry e of flavor f in commit n of a branch m.
Witnessed(e, n, f, m, runs) ==
  /\ e.producing \in 1..(n - 1)
  /\ e.env = m[e.producing].env[f]
  /\ \/ e.image = m[e.producing].image[f]
     \/ m[e.producing].lock[f] # NoEntry /\ e.image = m[e.producing].lock[f].image
  /\ e.ami # None =>
       /\ runs[e.ami].event # "debug"
       /\ f \in DOMAIN runs[e.ami].results /\ runs[e.ami].results[f] = e

LEMMA TraceableIsWitnessed ==
  ASSUME NEW n, NEW f
  PROVE  /\ Traceable(n, f) <=> Witnessed(main[n].lock[f], n, f, main, run)
         /\ Traceable(n, f)' <=> Witnessed(main'[n].lock[f], n, f, main', run')
  BY DEF Traceable, Witnessed

\* An entry that a commit takes over from the one before is as traceable.
LEMMA TraceCarried ==
  ASSUME NEW n \in Nat, NEW f, Traceable(n, f)', main'[n + 1].lock[f] = main'[n].lock[f]
  PROVE  Traceable(n + 1, f)'
  <1>1. \A e : Witnessed(e, n, f, main', run') => Witnessed(e, n + 1, f, main', run')
    <2>1. \A k : k \in 1..(n - 1) => k \in 1..((n + 1) - 1)
      OBVIOUS
    <2> QED
      BY <2>1, Zenon DEF Witnessed
  <1> QED
    BY <1>1, TraceableIsWitnessed

LEMMA JoinedRecord ==
  ASSUME NEW x \in Record, NEW res \in Results, NEW p \in Phase
  PROVE  [x EXCEPT !.results = res, !.view = 0, !.phase = p] \in Record
  <1>1. [x EXCEPT !.results = res] \in Record
    BY DEF Record
  <1>2. ASSUME NEW y \in Record
        PROVE  [y EXCEPT !.view = 0] \in Record
    BY DEF Record
  <1>3. ASSUME NEW y \in Record
        PROVE  [y EXCEPT !.phase = p] \in Record
    BY DEF Record
  <1>4. [x EXCEPT !.results = res, !.view = 0, !.phase = p] =
          [[[x EXCEPT !.results = res] EXCEPT !.view = 0] EXCEPT !.phase = p]
    OBVIOUS
  <1> QED
    BY <1>1, <1>2, <1>3, <1>4

LEMMA JoinedResults ==
  ASSUME NEW x \in Record, NEW res, NEW p
  PROVE  [x EXCEPT !.results = res, !.view = 0, !.phase = p].results = res
  BY DEF Record

\* The helpers that change several runs at once.
LEMMA JoinsEffect ==
  ASSUME PipelineInv, NEW r \in Run, NEW res \in Results,
         run' = Joins(r, res)
  PROVE  /\ run' \in [Run -> Record]
         /\ run'[r] = [run[r] EXCEPT !.results = res, !.view = 0, !.phase = run'[r].phase]
         /\ run'[r].phase \in {"writing", "waiting"}
         /\ \A s \in Run \ {r} : Moved(run[s], run'[s])
  <1>1. run'[r] = [run[r] EXCEPT !.results = res, !.view = 0,
                                 !.phase = IF Writing = {} THEN "writing" ELSE "waiting"]
    BY DEF Joins
  <1>2. run[r] \in Record
    BY DEF PipelineInv, PipelineTypeOK
  <1> DEFINE p == IF Writing = {} THEN "writing" ELSE "waiting"
  <1>3. run'[r] \in Record /\ run'[r].phase \in {"writing", "waiting"}
    <2>1. p \in {"writing", "waiting"}
      OBVIOUS
    <2>2. run'[r] = [run[r] EXCEPT !.results = res, !.view = 0, !.phase = p]
      BY <1>1
    <2> HIDE DEF p
    <2>3. p \in Phase
      BY <2>1 DEF Phase
    <2>4. run'[r].phase = p
      BY <1>2, <2>2 DEF Record
    <2>5. [run[r] EXCEPT !.results = res, !.view = 0, !.phase = p] \in Record
      BY <1>2, <2>3, JoinedRecord
    <2> QED
      BY <2>1, <2>2, <2>4, <2>5
  <1>4. run'[r] = [run[r] EXCEPT !.results = res, !.view = 0, !.phase = run'[r].phase]
    BY <1>1, <1>2 DEF Record
  <1>5. ASSUME NEW s \in Run \ {r}
        PROVE  Moved(run[s], run'[s])
    <2>1. run[s] \in Record
      BY DEF PipelineInv, PipelineTypeOK
    <2>2. \/ run'[s] = run[s]
          \/ s \in Waiting /\ run'[s] = [run[s] EXCEPT !.phase = "cancelled"]
      BY DEF Joins
    <2> QED
      BY <2>1, <2>2 DEF Moved, Waiting, Record, Phase
  <1>6. run' = [s \in Run |-> run'[s]]
    BY DEF Joins
  <1> QED
    BY <1>3, <1>4, <1>5, <1>6 DEF Moved

LEMMA LeavesEffect ==
  ASSUME PipelineInv, NEW r \in Run, NEW p \in {"done", "rejected", "failed"}, Leaves(r, p)
  PROVE  /\ run' \in [Run -> Record]
         /\ run'[r] = [run[r] EXCEPT !.phase = p]
         /\ \A s \in Run \ {r} : Moved(run[s], run'[s])
  <1>1. run'[r] = [run[r] EXCEPT !.phase = p]
    BY DEF Leaves
  <1>2. run'[r] \in Record
    <2>1. run[r] \in Record
      BY DEF PipelineInv, PipelineTypeOK
    <2> QED
      BY <1>1, <2>1 DEF Record, Phase
  <1>3. ASSUME NEW s \in Run \ {r}
        PROVE  Moved(run[s], run'[s])
    <2>1. run[s] \in Record
      BY DEF PipelineInv, PipelineTypeOK
    <2>2. \/ run'[s] = run[s]
          \/ s \in Waiting /\ run'[s] = [run[s] EXCEPT !.phase = "writing"]
      BY DEF Leaves
    <2> QED
      BY <2>1, <2>2 DEF Moved, Waiting, Record, Phase
  <1>4. run' = [s \in Run |-> run'[s]]
    BY DEF Leaves
  <1> QED
    BY <1>1, <1>2, <1>3, <1>4 DEF Moved
-----------------------------------------------------------------------------
(* What a step of run r has to guarantee, and that it is enough.           *)
NewCommit(c) ==
  /\ main' = Append(main, c) /\ c \in Commit
  /\ \A f \in Flavor :
       c.image[f] \in 1..(Len(main) + 1) /\ c.env[f] \in 1..(Len(main) + 1)
  /\ \A n \in Nat, f \in Flavor :
       n = Len(main) + 1 /\ c.lock[f] # NoEntry => Traceable(n, f)'

Guarantee(r) ==
  /\ run' \in [Run -> Record]
  /\ \A s \in Run \ {r} : Moved(run[s], run'[s])
  /\ RunInv(main', r, run'[r])
  /\ DOMAIN run[r].results # {} =>
       run'[r].results = run[r].results /\ run'[r].event = run[r].event

LEMMA GuaranteeKeepsResults ==
  ASSUME PipelineInv, NEW r \in Run,
         \A s \in Run \ {r} : Moved(run[s], run'[s]),
         DOMAIN run[r].results # {} =>
           run'[r].results = run[r].results /\ run'[r].event = run[r].event
  PROVE  ResultsStay
  <1>1. ASSUME NEW s \in Run \ {r}
        PROVE  run'[s].results = run[s].results /\ run'[s].event = run[s].event
    BY MovedSame
  <1> QED
    BY <1>1 DEF ResultsStay

LEMMA GuaranteeSuffices ==
  ASSUME PipelineInv, NEW r \in Run, Guarantee(r),
         main' = main \/ \E c \in Commit : NewCommit(c)
  PROVE  PipelineInv'
  <1>1. BranchGrows
    BY DEF NewCommit, BranchGrows
  <1>2. ResultsStay
    BY GuaranteeKeepsResults DEF Guarantee
  <1>3. /\ main' \in Seq(Commit) /\ Len(main') >= Len(main) /\ Len(main') \in Nat
        /\ Len(main) \in Nat /\ Len(main) >= 2
    BY <1>1, BranchKept DEF PipelineInv, PipelineTypeOK
  <1>4. ASSUME NEW s \in Run
        PROVE  RunInv(main', s, run'[s])
    <2>1. CASE s = r
      BY <2>1 DEF Guarantee
    <2>2. CASE s # r
      <3>1. RunInv(main, s, run'[s]) /\ run'[s] \in Record
        BY <2>2, MovedKeeps DEF Guarantee, PipelineInv, Moved
      <3>2. run'[s].sha \in Nat
        BY <3>1 DEF Record
      <3>3. main \in Seq(Commit)
        BY DEF PipelineInv, PipelineTypeOK
      <3> QED
        BY <1>1, <1>3, <3>1, <3>2, <3>3, GrownKeeps DEF BranchGrows
    <2> QED
      BY <2>1, <2>2
  <1>5. PipelineTypeOK'
    <2>1. \A s \in Run : Sourced(main', run'[s])
      BY <1>4 DEF RunInv
    <2> QED
      BY <1>3, <2>1 DEF PipelineTypeOK, Guarantee, Sourced
  <1>6. Dated' /\ EntriesTraceable'
    <2>1. CASE main' = main
      BY <1>1, <1>2, <2>1, TracesKept DEF PipelineInv, Dated, EntriesTraceable
    <2>2. ASSUME NEW c \in Commit, NewCommit(c)
          PROVE  Dated' /\ EntriesTraceable'
      <3>1. /\ DOMAIN main' = DOMAIN main \cup {Len(main) + 1}
            /\ main'[Len(main) + 1] = c
            /\ \A n \in DOMAIN main : main'[n] = main[n]
        BY <2>2, Grown DEF NewCommit, PipelineInv, PipelineTypeOK
      <3>2. Dated'
        BY <2>2, <3>1 DEF NewCommit, Dated, PipelineInv
      <3>3. ASSUME NEW n \in DOMAIN main', NEW f \in Flavor, main'[n].lock[f] # NoEntry
            PROVE  Traceable(n, f)'
        <4>1. CASE n \in DOMAIN main
          BY <1>1, <1>2, <3>1, <3>3, <4>1, TracesKept
        <4>2. CASE n = Len(main) + 1
          BY <1>3, <2>2, <3>1, <3>3, <4>2 DEF NewCommit
        <4> QED
          BY <3>1, <4>1, <4>2
      <3> QED
        BY <3>2, <3>3 DEF EntriesTraceable
    <2> QED
      BY <2>1, <2>2
  <1> QED
    BY <1>3, <1>4, <1>5, <1>6 DEF PipelineInv
-----------------------------------------------------------------------------
(* The initial states, and each action.                                    *)

LEMMA IdleRecord == Idle \in Record
  <1>1. Nothing \in Matrix
    BY DEF Nothing, Matrix
  <1> QED
    BY <1>1, EmptyResults DEF Idle, Record, Phase

LEMMA InitInv ==
  ASSUME Init
  PROVE  PipelineInv
  <1> DEFINE first == [image |-> 1, env |-> 1, producing |-> 1, ami |-> None]
             sources(lock) == [image |-> [f \in Flavor |-> 1],
                               env |-> [f \in Flavor |-> 1], lock |-> lock]
  <1>1. PICK recorded \in SUBSET Flavor :
          main = <<sources([f \in Flavor |-> NoEntry]),
                   sources([f \in Flavor |-> IF f \in recorded THEN first ELSE NoEntry])>>
    BY DEF Init
  <1> DEFINE c1 == sources([f \in Flavor |-> NoEntry])
             c2 == sources([f \in Flavor |-> IF f \in recorded THEN first ELSE NoEntry])
  <1>2. c1 \in Commit /\ c2 \in Commit
    BY DEF Commit, Entry
  <1>3. /\ main \in Seq(Commit) /\ Len(main) = 2 /\ DOMAIN main = {1, 2}
        /\ main[1] = c1 /\ main[2] = c2
    <2> HIDE DEF c1, c2
    <2>1. main = <<c1, c2>>
      BY <1>1 DEF c1, c2
    <2> QED
      BY <1>2, <2>1
  <1>4. run = [r \in Run |-> Idle]
    BY DEF Init
  <1>5. \A r \in Run : run[r] = Idle /\ Idle.phase = "none" /\ Idle.view = 0
    BY <1>4 DEF Idle
  <1>6. PipelineTypeOK
    BY <1>3, <1>4, <1>5, IdleRecord DEF PipelineTypeOK
  <1>7. Dated
    <2>1. \A f \in Flavor : c1.image[f] = 1 /\ c1.env[f] = 1 /\ c2.image[f] = 1 /\ c2.env[f] = 1
      OBVIOUS
    <2> HIDE DEF c1, c2
    <2>2. ASSUME NEW n \in DOMAIN main, NEW f \in Flavor
          PROVE  main[n].image[f] \in 1..n /\ main[n].env[f] \in 1..n
      <3>1. main[n].image[f] = 1 /\ main[n].env[f] = 1 /\ n \in {1, 2}
        BY <1>3, <2>1
      <3> QED
        BY <3>1
    <2> QED
      BY <2>2 DEF Dated
  <1>8. ASSUME NEW r \in Run
        PROVE  RunInv(main, r, run[r])
    BY <1>5, EmptyResults DEF RunInv, Sourced, Registered, Exact, Early, Idle
  <1>9. EntriesTraceable
    <2>1. \A f \in Flavor : c1.lock[f] = NoEntry
      OBVIOUS
    <2>2. ASSUME NEW f \in Flavor, c2.lock[f] # NoEntry
          PROVE  Traceable(2, f)
      <3>1. c2.lock[f] = first /\ c1.env[f] = 1 /\ c1.image[f] = 1
        BY <2>2
      <3>2. /\ main[2].lock[f] = first /\ main[1].env[f] = 1 /\ main[1].image[f] = 1
            /\ first.producing = 1 /\ first.env = 1 /\ first.image = 1 /\ first.ami = None
        BY <1>3, <3>1
      <3> HIDE DEF first, c1, c2
      <3> QED
        BY <3>2 DEF Traceable
    <2> HIDE DEF c1, c2
    <2> QED
      BY <1>3, <2>1, <2>2 DEF EntriesTraceable
  <1> QED
    BY <1>3, <1>6, <1>7, <1>8, <1>9 DEF PipelineInv

\* The commit of a push is well-typed, dated, and differs exactly in what was touched.
LEMMA EditedEffect ==
  ASSUME PipelineInv, NEW changed
  PROVE  LET c == Edited(changed)
             touched(kind, f) == {<<"global", None>>, <<kind, f>>} \cap changed # {}
         IN  /\ c \in Commit /\ c.lock = main[Tip].lock
             /\ \A f \in Flavor :
                  /\ c.image[f] \in 1..(Len(main) + 1) /\ c.env[f] \in 1..(Len(main) + 1)
                  /\ c.image[f] # main[Tip].image[f] <=> touched("image", f)
                  /\ c.env[f] # main[Tip].env[f] <=> touched("env", f)
  <1>1. /\ Tip \in Nat /\ Tip \in DOMAIN main /\ main[Tip] \in Commit
        /\ \A f \in Flavor : main[Tip].image[f] \in 1..Tip /\ main[Tip].env[f] \in 1..Tip
    BY DEF PipelineInv, PipelineTypeOK, Tip, Dated
  <1> QED
    BY <1>1 DEF Edited, Commit, Tip

TouchedImage(changed) ==
  {f \in Flavor : {<<"global", None>>, <<"image", f>>} \cap changed # {}}
TouchedEnv(changed) ==
  {f \in Flavor : {<<"global", None>>, <<"env", f>>} \cap changed # {}}

\* Change detection computes exactly the difference of the two commits.
LEMMA MatrixIsDifference ==
  ASSUME NEW changed, NEW baseline \in BOOLEAN
  PROVE  ComputeMatrix("none", baseline, changed) =
           IF baseline THEN [image |-> TouchedImage(changed),
                             amiOnly |-> TouchedEnv(changed) \ TouchedImage(changed)]
                       ELSE [image |-> Flavor, amiOnly |-> {}]
  <1> DEFINE image == TouchedImage(changed)
             env == TouchedEnv(changed)
  <1>1. "none" # "all" /\ "none" # "unknown" /\ "none" \notin Flavor
    BY DetectionAssumption
  <1>2. CASE ~baseline
    BY <1>1, <1>2 DEF ComputeMatrix, Everything
  <1>3. CASE baseline /\ LoopGuard(changed)
    <2>1. image = {} /\ env = {}
      BY <1>3 DEF LoopGuard, TouchedImage, TouchedEnv
    <2> QED
      BY <1>1, <1>3, <2>1 DEF ComputeMatrix, Nothing
  <1>4. CASE baseline /\ ~LoopGuard(changed) /\ <<"global", None>> \in changed
    <2>1. image = Flavor /\ env \ image = {}
      BY <1>4 DEF TouchedImage, TouchedEnv
    <2> QED
      BY <1>1, <1>4, <2>1 DEF ComputeMatrix, PathMap, Everything
  <1>5. CASE baseline /\ ~LoopGuard(changed) /\ <<"global", None>> \notin changed
    <2>1. /\ image = {f \in Flavor : <<"image", f>> \in changed}
          /\ env = {f \in Flavor : <<"env", f>> \in changed}
      BY <1>5 DEF TouchedImage, TouchedEnv
    <2> QED
      BY <1>1, <1>5, <2>1 DEF ComputeMatrix, PathMap
  <1> QED
    BY <1>2, <1>3, <1>4, <1>5

\* The record of a run that an event has triggered.
LEMMA TriggeredEffect ==
  ASSUME PipelineInv, NEW r \in Run, run[r].phase = "none",
         NEW event \in {"push", "dispatch", "debug"}, NEW baseline \in BOOLEAN,
         NEW n \in Nat, NEW matrix \in Matrix, Triggered(r, event, baseline, n, matrix)
  PROVE  /\ run' \in [Run -> Record]
         /\ \A s \in Run \ {r} : Moved(run[s], run'[s])
         /\ run'[r].event = event /\ run'[r].baseline = baseline /\ run'[r].sha = n
         /\ run'[r].matrix = matrix /\ run'[r].phase \in {"skipped", "produce"}
         /\ run'[r].view = 0 /\ DOMAIN run'[r].digest = {} /\ DOMAIN run'[r].results = {}
         /\ DOMAIN run[r].results = {}
  <1> DEFINE ph == IF matrix = Nothing THEN "skipped" ELSE "produce"
             x == [phase |-> ph, event |-> event, baseline |-> baseline, sha |-> n,
                   matrix |-> matrix, digest |-> <<>>, results |-> <<>>, view |-> 0]
  <1>1. run' = [run EXCEPT ![r] = x]
    BY DEF Triggered
  <1>2. ph \in Phase /\ ph \in {"skipped", "produce"}
    BY DEF Phase
  <1> HIDE DEF ph
  <1>3. x \in Record
    BY <1>2, EmptyResults DEF Record
  <1>4. /\ x.event = event /\ x.baseline = baseline /\ x.sha = n /\ x.matrix = matrix
        /\ x.phase \in {"skipped", "produce"} /\ x.view = 0
        /\ DOMAIN x.digest = {} /\ DOMAIN x.results = {}
    BY <1>2, EmptyResults
  <1> HIDE DEF x
  <1>5. run \in [Run -> Record]
    BY DEF PipelineInv, PipelineTypeOK
  <1>6. run' \in [Run -> Record] /\ run'[r] = x /\ \A s \in Run \ {r} : run'[s] = run[s]
    BY <1>1, <1>3, <1>5
  <1>7. \A s \in Run \ {r} : Moved(run[s], run'[s])
    BY <1>5, <1>6 DEF Moved, Record
  <1>8. DOMAIN run[r].results = {}
    BY DEF PipelineInv, RunInv, Registered, Early
  <1> QED
    BY <1>4, <1>6, <1>7, <1>8

LEMMA MatrixTyped ==
  ASSUME NEW force \in ForceFlavor, NEW baseline \in BOOLEAN, NEW changed
  PROVE  ComputeMatrix(force, baseline, changed) \in Matrix
  <1>1. Everything \in Matrix /\ Nothing \in Matrix /\ PathMap(changed) \in Matrix
    BY DEF Everything, Nothing, PathMap, Matrix
  <1>2. \A f \in Flavor : [image |-> {f}, amiOnly |-> {}] \in Matrix
    BY DEF Matrix
  <1>3. CASE force = "all"
    BY <1>1, <1>3, DetectionAssumption DEF ComputeMatrix
  <1>4. CASE force \in Flavor
    BY <1>2, <1>4, DetectionAssumption DEF ComputeMatrix
  <1>5. CASE force = "none"
    BY <1>1, <1>5, DetectionAssumption DEF ComputeMatrix
  <1>6. CASE force = "unknown"
    BY <1>1, <1>6, DetectionAssumption DEF ComputeMatrix
  <1> QED
    BY <1>3, <1>4, <1>5, <1>6 DEF ForceFlavor

LEMMA PushInv ==
  ASSUME PipelineInv, NEW r \in Run, Push(r)
  PROVE  PipelineInv'
  <1>1. PICK changed \in Changes, baseline \in BOOLEAN :
          /\ main' = Append(main, Edited(changed))
          /\ Triggered(r, "push", baseline, Tip + 1, ComputeMatrix("none", baseline, changed))
    BY DEF Push
  <1> DEFINE c == Edited(changed)
             n == Len(main) + 1
             image == TouchedImage(changed)
             env == TouchedEnv(changed)
  <1>2. /\ c \in Commit /\ c.lock = main[Tip].lock
        /\ \A f \in Flavor : c.image[f] \in 1..n /\ c.env[f] \in 1..n
        /\ image = {f \in Flavor : c.image[f] # main[Tip].image[f]}
        /\ env = {f \in Flavor : c.env[f] # main[Tip].env[f]}
    BY EditedEffect DEF TouchedImage, TouchedEnv
  <1> HIDE DEF c
  <1>3. ComputeMatrix("none", baseline, changed) =
           IF baseline THEN [image |-> image, amiOnly |-> env \ image]
                       ELSE [image |-> Flavor, amiOnly |-> {}]
    BY MatrixIsDifference
  <1> HIDE DEF image, env
  <1>4. /\ main \in Seq(Commit) /\ Len(main) \in Nat /\ Len(main) >= 2 /\ Tip = Len(main)
        /\ DOMAIN main = 1..Len(main) /\ n \in Nat
    BY DEF PipelineInv, PipelineTypeOK, Tip
  <1>5. /\ main' \in Seq(Commit) /\ DOMAIN main' = DOMAIN main \cup {n} /\ main'[n] = c
        /\ \A k \in DOMAIN main : main'[k] = main[k]
    BY <1>1, <1>2, <1>4, Grown DEF c
  <1>6. ComputeMatrix("none", baseline, changed) \in Matrix
    BY MatrixTyped DEF ForceFlavor
  <1>7. /\ run' \in [Run -> Record]
        /\ \A s \in Run \ {r} : Moved(run[s], run'[s])
        /\ run'[r].event = "push" /\ run'[r].baseline = baseline /\ run'[r].sha = n
        /\ run'[r].matrix = ComputeMatrix("none", baseline, changed)
        /\ run'[r].phase \in {"skipped", "produce"}
        /\ run'[r].view = 0 /\ DOMAIN run'[r].digest = {} /\ DOMAIN run'[r].results = {}
        /\ DOMAIN run[r].results = {}
    <2>1. Triggered(r, "push", baseline, n, ComputeMatrix("none", baseline, changed))
      BY <1>1, <1>4
    <2>2. run[r].phase = "none"
      BY DEF Push
    <2> HIDE DEF n
    <2> QED
      BY <1>4, <1>6, <2>1, <2>2, TriggeredEffect
  <1>8. RunInv(main', r, run'[r])
    <2>1. Sourced(main', run'[r])
      BY <1>4, <1>5, <1>7 DEF Sourced
    <2>2. Registered(main', r, run'[r])
      BY <1>7 DEF Registered
    <2>3. Exact(main', run'[r])
      <3>1. main'[n - 1] = main[Tip] /\ main'[n] = c
        BY <1>4, <1>5
      <3> HIDE DEF n
      <3> QED
        BY <1>2, <1>3, <1>7, <3>1 DEF Exact, Difference
    <2> QED
      BY <2>1, <2>2, <2>3 DEF RunInv
  <1>9. Guarantee(r)
    BY <1>7, <1>8 DEF Guarantee
  <1>10. NewCommit(c)
    <2>1. ASSUME NEW f \in Flavor, c.lock[f] # NoEntry, NEW k \in Nat, k = n
          PROVE  Traceable(k, f)'
      <3>1. Tip \in DOMAIN main /\ main[Tip].lock[f] # NoEntry
        BY <1>2, <1>4, <2>1
      <3>2. BranchGrows /\ ResultsStay
        BY <1>1, <1>2, <1>7, <1>9, GuaranteeKeepsResults DEF BranchGrows, Guarantee, c
      <3>3. \A j \in DOMAIN main : j = Tip => Traceable(j, f)'
        BY <3>1, <3>2, TracesKept
      <3>4. PICK j \in DOMAIN main : j = Tip
        BY <3>1
      <3>5. main'[j].lock[f] = main'[k].lock[f] /\ k = j + 1 /\ j \in Nat
        BY <1>2, <1>4, <1>5, <2>1, <3>4
      <3>6. Traceable(j, f)'
        BY <3>3, <3>4
      <3> QED
        BY <3>5, <3>6, TraceCarried
    <2> QED
      BY <1>1, <1>2, <2>1 DEF NewCommit, c
  <1> QED
    BY <1>2, <1>9, <1>10, GuaranteeSuffices

LEMMA DispatchInv ==
  ASSUME PipelineInv, NEW r \in Run, Dispatch(r)
  PROVE  PipelineInv'
  <1>1. PICK force \in ForceFlavor, event \in {"dispatch", "debug"} :
          Triggered(r, event, FALSE, Tip, ComputeMatrix(force, FALSE, {}))
    BY DEF Dispatch
  <1>2. /\ Tip \in Nat /\ Tip >= 2 /\ Tip \in DOMAIN main
        /\ main' = main /\ run[r].phase = "none"
    BY DEF Dispatch, PipelineInv, PipelineTypeOK, Tip
  <1> DEFINE matrix == ComputeMatrix(force, FALSE, {})
  <1>5. matrix \in Matrix
    BY MatrixTyped
  <1>3. /\ run' \in [Run -> Record]
        /\ \A s \in Run \ {r} : Moved(run[s], run'[s])
        /\ run'[r].event = event /\ run'[r].sha = Tip
        /\ run'[r].phase \in {"skipped", "produce"}
        /\ run'[r].view = 0 /\ DOMAIN run'[r].digest = {} /\ DOMAIN run'[r].results = {}
        /\ DOMAIN run[r].results = {}
    <2>0. PICK b \in BOOLEAN : b = FALSE
      OBVIOUS
    <2>1. Triggered(r, event, b, Tip, matrix)
      BY <1>1, <2>0
    <2>2. event \in {"push", "dispatch", "debug"}
      OBVIOUS
    <2> HIDE DEF matrix
    <2> QED
      BY <1>2, <1>5, <2>1, <2>2, TriggeredEffect
  <1>4. RunInv(main', r, run'[r])
    BY <1>2, <1>3 DEF RunInv, Sourced, Registered, Exact
  <1> QED
    BY <1>2, <1>3, <1>4, GuaranteeSuffices DEF Guarantee

\* A step that changes the record of run r alone.
LEMMA SingleEffect ==
  ASSUME PipelineInv, NEW r \in Run, NEW x \in Record, run' = [run EXCEPT ![r] = x]
  PROVE  /\ run' \in [Run -> Record] /\ run'[r] = x
         /\ \A s \in Run \ {r} : Moved(run[s], run'[s])
  <1>1. run \in [Run -> Record]
    BY DEF PipelineInv, PipelineTypeOK
  <1>2. run' \in [Run -> Record] /\ run'[r] = x /\ \A s \in Run \ {r} : run'[s] = run[s]
    BY <1>1
  <1>3. \A s \in Run \ {r} : Moved(run[s], run'[s])
    BY <1>1, <1>2 DEF Moved, Record
  <1> QED
    BY <1>2, <1>3

LEMMA RecordResults ==
  ASSUME NEW x \in Record
  PROVE  x.results \in Results
  BY DEF Record

LEMMA RunTyped ==
  ASSUME PipelineInv, NEW r \in Run
  PROVE  /\ run[r] \in Record /\ RunInv(main, r, run[r])
         /\ run[r].results \in Results
  <1>1. run \in [Run -> Record] /\ RunInv(main, r, run[r])
    BY Zenon DEF PipelineInv, PipelineTypeOK
  <1> QED
    BY <1>1, RecordResults

LEMMA ProduceInv ==
  ASSUME PipelineInv, NEW r \in Run, Produce(r)
  PROVE  PipelineInv'
  <1> DEFINE tree == main[run[r].sha]
             digest == [f \in Rebuilt(r) |-> IF f \in run[r].matrix.image
                                               THEN tree.image[f] ELSE tree.lock[f].image]
             x == [run[r] EXCEPT !.phase = "ami", !.digest = digest]
  <1>1. /\ run[r] \in Record /\ RunInv(main, r, run[r]) /\ run[r].phase = "produce"
        /\ \A f \in run[r].matrix.amiOnly : tree.lock[f] # NoEntry
        /\ run' = [run EXCEPT ![r] = x] /\ main' = main
    BY RunTyped DEF Produce
  <1>2. tree \in Commit /\ run[r].sha \in DOMAIN main
    BY <1>1 DEF RunInv, Sourced, PipelineInv, PipelineTypeOK
  <1>3. run[r].matrix \in Matrix
    BY <1>1 DEF Record
  <1>4. ASSUME NEW f \in Rebuilt(r)
        PROVE  /\ f \in Flavor /\ digest[f] \in Nat
               /\ \/ digest[f] = tree.image[f]
                  \/ tree.lock[f] # NoEntry /\ digest[f] = tree.lock[f].image
    <2>1. f \in Flavor /\ (f \notin run[r].matrix.image => f \in run[r].matrix.amiOnly)
      BY <1>3 DEF Rebuilt, Matrix
    <2>2. CASE f \in run[r].matrix.image
      BY <1>2, <2>1, <2>2 DEF Commit
    <2>3. CASE f \notin run[r].matrix.image
      <3>1. tree.lock[f] # NoEntry /\ tree.lock[f] \in Entry
        BY <1>1, <1>2, <2>1, <2>3 DEF Commit
      <3> QED
        BY <2>1, <2>3, <3>1 DEF Entry
    <2> QED
      BY <2>2, <2>3
  <1>5. digest \in Digests /\ DOMAIN digest = Rebuilt(r)
    BY <1>4 DEF Digests
  <1> HIDE DEF digest, tree
  <1>6. /\ x \in Record /\ x.phase = "ami" /\ x.digest = digest /\ x.sha = run[r].sha
        /\ x.matrix = run[r].matrix /\ x.view = run[r].view /\ x.results = run[r].results
        /\ x.event = run[r].event /\ x.baseline = run[r].baseline
    <2>1. "ami" \in Phase
      BY DEF Phase
    <2> QED
      BY <1>1, <1>5, <2>1 DEF Record
  <1> HIDE DEF x
  <1>7. RunInv(main, r, x)
    <2>1. Sourced(main, x)
      BY <1>1, <1>2, <1>4, <1>5, <1>6 DEF RunInv, Sourced, Rebuilt, Early, tree
    <2>2. Registered(main, r, x)
      BY <1>1, <1>6 DEF RunInv, Registered, Early
    <2>3. Exact(main, x)
      BY <1>1, <1>6 DEF RunInv, Exact
    <2> QED
      BY <2>1, <2>2, <2>3 DEF RunInv
  <1>8. Guarantee(r)
    BY <1>1, <1>6, <1>7, SingleEffect DEF Guarantee
  <1> QED
    BY <1>1, <1>8, GuaranteeSuffices

LEMMA ProduceFailsInv ==
  ASSUME PipelineInv, NEW r \in Run, ProduceFails(r)
  PROVE  PipelineInv'
  <1> DEFINE x == [run[r] EXCEPT !.phase = "failed"]
  <1>1. /\ run[r] \in Record /\ RunInv(main, r, run[r]) /\ run[r].phase = "produce"
        /\ run' = [run EXCEPT ![r] = x] /\ main' = main
    BY RunTyped DEF ProduceFails
  <1>2. /\ x \in Record /\ x.phase = "failed" /\ x.digest = run[r].digest
        /\ x.sha = run[r].sha /\ x.matrix = run[r].matrix /\ x.view = run[r].view
        /\ x.results = run[r].results
        /\ x.event = run[r].event /\ x.baseline = run[r].baseline
    BY <1>1 DEF Record, Phase
  <1> HIDE DEF x
  <1>3. RunInv(main, r, x)
    BY <1>1, <1>2 DEF RunInv, Sourced, Registered, Exact, Early
  <1>4. Guarantee(r)
    BY <1>1, <1>2, <1>3, SingleEffect DEF Guarantee
  <1> QED
    BY <1>1, <1>4, GuaranteeSuffices

\* The results of a run are well-typed and come from what it checked out.
LEMMA RecordsEffect ==
  ASSUME PipelineInv, NEW r \in Run, run[r].phase = "ami", NEW built \in SUBSET Rebuilt(r)
  PROVE  /\ Records(r, built) \in Results /\ DOMAIN Records(r, built) = built
         /\ \A f \in built :
              /\ f \in DOMAIN run[r].digest
              /\ Records(r, built)[f].image = run[r].digest[f]
              /\ Records(r, built)[f].env = main[run[r].sha].env[f]
              /\ Records(r, built)[f].producing = run[r].sha
              /\ Records(r, built)[f].ami = r
  <1>1. run[r] \in Record /\ RunInv(main, r, run[r])
    BY RunTyped
  <1>2. DOMAIN run[r].digest = Rebuilt(r) /\ run[r].sha \in DOMAIN main
    BY <1>1 DEF RunInv, Sourced, Rebuilt
  <1>3. main[run[r].sha] \in Commit /\ run[r].sha \in Nat
    BY <1>1, <1>2 DEF PipelineInv, PipelineTypeOK
  <1>4. Rebuilt(r) \subseteq Flavor
    BY <1>1 DEF Record, Matrix, Rebuilt
  <1>5. ASSUME NEW f \in built
        PROVE  VerifierRecord(r, f) \in Entry
    <2>1. f \in Flavor /\ f \in DOMAIN run[r].digest /\ run[r].digest \in Digests
      BY <1>1, <1>2, <1>4 DEF Record
    <2>2. run[r].digest[f] \in Nat
      BY <2>1 DEF Digests
    <2>3. main[run[r].sha].env[f] \in Nat
      BY <1>3, <2>1 DEF Commit
    <2> QED
      BY <1>3, <2>2, <2>3 DEF VerifierRecord, Entry
  <1>6. Records(r, built) \in [built -> Entry] /\ built \in SUBSET Flavor
    BY <1>4, <1>5 DEF Records
  <1>7. Records(r, built) \in Results
    BY <1>6 DEF Results
  <1> QED
    BY <1>2, <1>6, <1>7 DEF Records, VerifierRecord

\* Run r takes the results of the flavors in built, whatever phase follows.
LEMMA ResultsInv ==
  ASSUME NEW r \in Run, NEW built \in SUBSET Rebuilt(r), NEW x \in Record, NEW y \in Record,
         PipelineInv, x = run[r], x.phase = "ami",
         y.results = Records(r, built), y.phase \notin Early \cup {"ami"},
         y.phase \in {"waiting", "writing", "cancelled", "rejected"} =>
           x.event # "debug" /\ built # {},
         y.view \in {0, x.view}, y.digest = x.digest, y.sha = x.sha, y.event = x.event,
         y.matrix = x.matrix, y.baseline = x.baseline
  PROVE  RunInv(main, r, y) /\ DOMAIN x.results = {}
  <1>1. RunInv(main, r, x)
    BY RunTyped
  <1>2. Sourced(main, y)
    BY <1>1 DEF RunInv, Sourced
  <1>3. Registered(main, r, y)
    BY <1>1, RecordsEffect DEF RunInv, Registered
  <1>4. Exact(main, y)
    BY <1>1 DEF RunInv, Exact
  <1>5. DOMAIN x.results = {}
    BY <1>1 DEF RunInv, Registered
  <1> QED
    BY <1>2, <1>3, <1>4, <1>5 DEF RunInv

LEMMA UnrecordedInv ==
  ASSUME PipelineInv, NEW r \in Run, run[r].phase = "ami",
         NEW built \in SUBSET Rebuilt(r), NEW p \in {"done", "failed"},
         run' = [run EXCEPT ![r].results = Records(r, built), ![r].phase = p],
         main' = main
  PROVE  PipelineInv'
  <1> DEFINE x == [run[r] EXCEPT !.results = Records(r, built), !.phase = p]
  <1>1. run[r] \in Record /\ run' = [run EXCEPT ![r] = x]
    BY RunTyped
  <1>2. Records(r, built) \in Results
    BY RecordsEffect
  <1>3. /\ x \in Record /\ x.phase = p /\ x.digest = run[r].digest
        /\ x.sha = run[r].sha /\ x.matrix = run[r].matrix /\ x.view = run[r].view
        /\ x.results = Records(r, built)
        /\ x.event = run[r].event /\ x.baseline = run[r].baseline
    <2>1. p \in Phase
      BY DEF Phase
    <2> QED
      BY <1>1, <1>2, <2>1 DEF Record
  <1> HIDE DEF x
  <1>4. RunInv(main, r, x) /\ DOMAIN run[r].results = {}
    BY <1>1, <1>3, ResultsInv DEF Early
  <1>5. Guarantee(r)
    BY <1>1, <1>3, <1>4, SingleEffect DEF Guarantee
  <1> QED
    BY <1>5, GuaranteeSuffices

LEMMA JoinsInv ==
  ASSUME PipelineInv, NEW r \in Run, run[r].phase = "ami", run[r].event # "debug",
         NEW built \in SUBSET Rebuilt(r), built # {},
         run' = Joins(r, Records(r, built)), main' = main
  PROVE  PipelineInv'
  <1> DEFINE res == Records(r, built)
             x == run'[r]
  <1>1. run[r] \in Record /\ res \in Results
    BY RunTyped, RecordsEffect
  <1>2. /\ run' \in [Run -> Record]
        /\ x = [run[r] EXCEPT !.results = res, !.view = 0, !.phase = x.phase]
        /\ x.phase \in {"writing", "waiting"}
        /\ \A s \in Run \ {r} : Moved(run[s], run'[s])
    BY <1>1, JoinsEffect
  <1> HIDE DEF x, res
  <1>3. /\ x.digest = run[r].digest /\ x.view = 0
        /\ x.sha = run[r].sha /\ x.matrix = run[r].matrix /\ x.results = res
        /\ x.event = run[r].event /\ x.baseline = run[r].baseline
    BY <1>1, <1>2 DEF Record
  <1>4. x \in Record
    BY <1>2 DEF x
  <1>5. RunInv(main, r, x) /\ DOMAIN run[r].results = {}
    BY <1>1, <1>2, <1>3, <1>4, ResultsInv DEF Early, res
  <1>6. Guarantee(r)
    BY <1>2, <1>5 DEF Guarantee, x
  <1> QED
    BY <1>6, GuaranteeSuffices

LEMMA RegisterAmisInv ==
  ASSUME PipelineInv, NEW r \in Run, RegisterAmis(r)
  PROVE  PipelineInv'
  <1>1. PICK built \in (SUBSET Rebuilt(r)) \ {{}} :
          run' = IF run[r].event = "debug"
                   THEN [run EXCEPT ![r].results = Records(r, built), ![r].phase = "done"]
                   ELSE Joins(r, Records(r, built))
    BY DEF RegisterAmis
  <1>2. run[r].phase = "ami" /\ main' = main /\ built \in SUBSET Rebuilt(r) /\ built # {}
    BY DEF RegisterAmis
  <1>3. CASE run[r].event = "debug"
    BY <1>1, <1>2, <1>3, UnrecordedInv
  <1>4. CASE run[r].event # "debug"
    BY <1>1, <1>2, <1>4, JoinsInv
  <1> QED
    BY <1>3, <1>4

LEMMA BuildAmiFailsInv ==
  ASSUME PipelineInv, NEW r \in Run, BuildAmiFails(r)
  PROVE  PipelineInv'
  BY UnrecordedInv DEF BuildAmiFails

LEMMA CheckOutInv ==
  ASSUME PipelineInv, NEW r \in Run, CheckOut(r)
  PROVE  PipelineInv'
  <1> DEFINE x == [run[r] EXCEPT !.view = Tip]
  <1>1. /\ run[r] \in Record /\ RunInv(main, r, run[r])
        /\ run' = [run EXCEPT ![r] = x] /\ main' = main
    BY RunTyped DEF CheckOut
  <1>2. Tip \in Nat /\ Tip \in DOMAIN main
    BY DEF PipelineInv, PipelineTypeOK, Tip
  <1>3. /\ x \in Record /\ x.phase = run[r].phase /\ x.digest = run[r].digest
        /\ x.sha = run[r].sha /\ x.matrix = run[r].matrix /\ x.view = Tip
        /\ x.results = run[r].results
        /\ x.event = run[r].event /\ x.baseline = run[r].baseline
    BY <1>1, <1>2 DEF Record
  <1> HIDE DEF x
  <1>4. RunInv(main, r, x)
    <2>1. Sourced(main, x)
      BY <1>1, <1>2, <1>3 DEF RunInv, Sourced
    <2>2. Registered(main, r, x)
      BY <1>1, <1>3 DEF RunInv, Registered
    <2>3. Exact(main, x)
      BY <1>1, <1>3 DEF RunInv, Exact
    <2> QED
      BY <2>1, <2>2, <2>3 DEF RunInv
  <1>5. Guarantee(r)
    BY <1>1, <1>3, <1>4, SingleEffect DEF Guarantee
  <1> QED
    BY <1>1, <1>5, GuaranteeSuffices

\* Run r leaves the group, with its results as they were.
LEMMA LeavesInv ==
  ASSUME PipelineInv, NEW r \in Run, run[r].phase = "writing",
         NEW p \in {"done", "rejected", "failed"}, Leaves(r, p)
  PROVE  RunInv(main, r, run'[r]) /\ run'[r].sha \in Nat /\
         /\ run' \in [Run -> Record]
         /\ \A s \in Run \ {r} : Moved(run[s], run'[s])
         /\ run'[r].results = run[r].results /\ run'[r].event = run[r].event
  <1> DEFINE x == run'[r]
  <1>1. /\ run' \in [Run -> Record]
        /\ x = [run[r] EXCEPT !.phase = p]
        /\ \A s \in Run \ {r} : Moved(run[s], run'[s])
    BY LeavesEffect
  <1>2. x \in Record
    BY <1>1
  <1> HIDE DEF x
  <1>3. run[r] \in Record /\ RunInv(main, r, run[r])
    BY RunTyped
  <1>4. /\ x.phase = p /\ x.digest = run[r].digest
        /\ x.sha = run[r].sha /\ x.matrix = run[r].matrix /\ x.view = run[r].view
        /\ x.results = run[r].results
        /\ x.event = run[r].event /\ x.baseline = run[r].baseline
    BY <1>1, <1>3 DEF Record
  <1>5. Sourced(main, x)
    BY <1>3, <1>4 DEF RunInv, Sourced, Early
  <1>6. Registered(main, r, x)
    BY <1>3, <1>4 DEF RunInv, Registered, Early
  <1>7. Exact(main, x)
    BY <1>3, <1>4 DEF RunInv, Exact
  <1>8. x.sha \in Nat
    BY <1>2 DEF Record
  <1> QED
    BY <1>1, <1>4, <1>5, <1>6, <1>7, <1>8 DEF RunInv, x

LEMMA PushRejectedInv ==
  ASSUME PipelineInv, NEW r \in Run, PushRejected(r)
  PROVE  PipelineInv'
  BY LeavesInv, GuaranteeSuffices DEF PushRejected, Guarantee

LEMMA WriteBackFailsInv ==
  ASSUME PipelineInv, NEW r \in Run, WriteBackFails(r)
  PROVE  PipelineInv'
  BY LeavesInv, GuaranteeSuffices DEF WriteBackFails, Guarantee

\* A push that is not refused puts one commit on top of the branch.
LEMMA WriteBackEffect ==
  ASSUME PipelineInv, NEW r \in Run, WriteBack(r)
  PROVE  LET c == [main[Tip] EXCEPT !.lock = Merged(r, Tip)]
         IN  /\ main' = Append(main, c) /\ c \in Commit
             /\ c.image = main[Tip].image /\ c.env = main[Tip].env
             /\ c.lock = Merged(r, Tip)
             /\ Tip \in DOMAIN main
  <1> DEFINE c == [main[Tip] EXCEPT !.lock = Merged(r, Tip)]
  <1>1. /\ main \in Seq(Commit) /\ Tip = Len(main) /\ Tip \in DOMAIN main
        /\ main[Tip] \in Commit
    BY DEF PipelineInv, PipelineTypeOK, Tip
  <1>2. main' = Append(SubSeq(main, 1, Tip), c)
    BY DEF WriteBack, FastForward
  <1>3. SubSeq(main, 1, Tip) = main
    BY <1>1
  <1>4. Merged(r, Tip) \in [Flavor -> Entry \cup {NoEntry}]
    <2>1. run[r].results \in Results
      BY RunTyped
    <2>2. \A f \in DOMAIN run[r].results : run[r].results[f] \in Entry
      BY <2>1 DEF Results
    <2> QED
      BY <1>1, <2>2 DEF Merged, Commit
  <1>5. /\ c \in Commit /\ c.image = main[Tip].image /\ c.env = main[Tip].env
        /\ c.lock = Merged(r, Tip)
    BY <1>1, <1>4 DEF Commit
  <1> QED
    BY <1>1, <1>2, <1>3, <1>5

LEMMA WriteBackInv ==
  ASSUME PipelineInv, NEW r \in Run, WriteBack(r)
  PROVE  PipelineInv'
  <1> DEFINE c == [main[Tip] EXCEPT !.lock = Merged(r, Tip)]
  <1>1. /\ main' = Append(main, c) /\ c \in Commit
        /\ c.image = main[Tip].image /\ c.env = main[Tip].env
        /\ c.lock = Merged(r, Tip)
        /\ Tip \in DOMAIN main
    BY WriteBackEffect
  <1> HIDE DEF c
  <1>2. /\ run[r].phase = "writing" /\ Leaves(r, "done")
        /\ main \in Seq(Commit) /\ Tip = Len(main) /\ Tip \in Nat /\ Len(main) >= 2
    BY DEF WriteBack, PipelineInv, PipelineTypeOK, Tip
  <1>3. /\ RunInv(main, r, run'[r]) /\ run'[r].sha \in Nat
        /\ run' \in [Run -> Record]
        /\ \A s \in Run \ {r} : Moved(run[s], run'[s])
        /\ run'[r].results = run[r].results /\ run'[r].event = run[r].event
    BY <1>2, LeavesInv
  <1>4. RunInv(main', r, run'[r])
    BY <1>1, <1>2, <1>3, GrownKeeps
  <1>5. Guarantee(r)
    BY <1>3, <1>4 DEF Guarantee
  <1>6. BranchGrows /\ ResultsStay
    BY <1>1, <1>3, GuaranteeKeepsResults DEF BranchGrows
  <1>7. /\ DOMAIN main' = DOMAIN main \cup {Tip + 1} /\ main'[Tip + 1] = c
        /\ \A k \in DOMAIN main : main'[k] = main[k]
    BY <1>1, <1>2, Grown
  <1>8. ASSUME NEW f \in Flavor, NEW k \in Nat, k = Tip + 1, c.lock[f] # NoEntry
        PROVE  Traceable(k, f)'
    <2>1. CASE f \in DOMAIN run[r].results
      <3> DEFINE e == run[r].results[f]
                 sha == run[r].sha
      <3>1. run[r] \in Record /\ RunInv(main, r, run[r])
        BY RunTyped
      <3>2. /\ main'[k].lock[f] = e
        BY <1>1, <1>7, <1>8, <2>1 DEF Merged
      <3>3. /\ f \in DOMAIN run[r].digest
            /\ e.image = run[r].digest[f] /\ e.env = main[sha].env[f]
            /\ e.producing = sha /\ e.ami = r
            /\ run[r].event # "debug" /\ sha \in DOMAIN main
        BY <1>2, <2>1, <3>1 DEF RunInv, Registered, Sourced
      <3>4. \/ e.image = main[sha].image[f]
            \/ main[sha].lock[f] # NoEntry /\ e.image = main[sha].lock[f].image
        BY <3>1, <3>3 DEF RunInv, Sourced
      <3>5. sha \in 1..(k - 1) /\ main'[sha] = main[sha]
        BY <1>2, <1>7, <1>8, <3>3
      <3>6. /\ run'[r].event # "debug" /\ f \in DOMAIN run'[r].results
            /\ run'[r].results[f] = e
        BY <1>3, <2>1, <3>3
      <3> HIDE DEF e, sha
      <3> QED
        BY <3>2, <3>3, <3>4, <3>5, <3>6 DEF Traceable
    <2>2. CASE f \notin DOMAIN run[r].results
      <3>1. main'[k].lock[f] = main[Tip].lock[f] /\ main[Tip].lock[f] # NoEntry
        BY <1>1, <1>7, <1>8, <2>2 DEF Merged
      <3>2. PICK j \in DOMAIN main : j = Tip
        BY <1>1
      <3>3. Traceable(j, f)'
        BY <1>6, <3>1, <3>2, TracesKept
      <3>4. main'[k].lock[f] = main'[j].lock[f] /\ k = j + 1 /\ j \in Nat
        BY <1>2, <1>7, <1>8, <3>1, <3>2
      <3> QED
        BY <3>3, <3>4, TraceCarried
    <2> QED
      BY <2>1, <2>2
  <1>9. \A f \in Flavor : c.image[f] \in 1..(Len(main) + 1) /\ c.env[f] \in 1..(Len(main) + 1)
    BY <1>1, <1>2 DEF PipelineInv, Dated
  <1>10. NewCommit(c)
    BY <1>1, <1>2, <1>8, <1>9 DEF NewCommit
  <1> QED
    BY <1>1, <1>5, <1>10, GuaranteeSuffices

LEMMA RerunInv ==
  ASSUME PipelineInv, NEW r \in Run, Rerun(r)
  PROVE  PipelineInv'
  <1> DEFINE x == run'[r]
             res == run[r].results
  <1>1. run[r] \in Record /\ res \in Results /\ RunInv(main, r, run[r])
    BY RunTyped
  <1>2. /\ run' \in [Run -> Record]
        /\ x = [run[r] EXCEPT !.results = res, !.view = 0, !.phase = x.phase]
        /\ x.phase \in {"writing", "waiting"}
        /\ \A s \in Run \ {r} : Moved(run[s], run'[s])
    BY <1>1, JoinsEffect DEF Rerun
  <1> HIDE DEF x
  <1>3. /\ x.digest = run[r].digest /\ x.view = 0
        /\ x.sha = run[r].sha /\ x.matrix = run[r].matrix /\ x.results = res
        /\ x.event = run[r].event /\ x.baseline = run[r].baseline
    BY <1>1, <1>2 DEF Record
  <1>4. run[r].phase \in {"cancelled", "rejected"} /\ main' = main
    BY DEF Rerun
  <1>5. RunInv(main, r, x)
    <2>1. Sourced(main, x)
      BY <1>1, <1>2, <1>3, <1>4 DEF RunInv, Sourced, Early
    <2>2. Registered(main, r, x)
      BY <1>1, <1>2, <1>3, <1>4 DEF RunInv, Registered, Early
    <2>3. Exact(main, x)
      BY <1>1, <1>2, <1>3, <1>4 DEF RunInv, Exact
    <2> QED
      BY <2>1, <2>2, <2>3 DEF RunInv
  <1>6. Guarantee(r)
    BY <1>2, <1>3, <1>4, <1>5 DEF Guarantee, x
  <1> QED
    BY <1>4, <1>6, GuaranteeSuffices
-----------------------------------------------------------------------------
(* The theorems.                                                           *)

LEMMA NextInv ==
  ASSUME PipelineInv, [Next]_vars
  PROVE  PipelineInv'
  <1>1. CASE UNCHANGED vars
    <2>1. main' = main /\ run' = run
      BY <1>1 DEF vars
    <2>2. PipelineTypeOK' /\ Dated' /\ (\A r \in Run : RunInv(main', r, run'[r]))
      BY <2>1 DEF PipelineInv, PipelineTypeOK, Dated
    <2>3. EntriesTraceable'
      <3>1. \A n, f : Traceable(n, f)' <=> Traceable(n, f)
        BY <2>1, TraceableIsWitnessed
      <3> QED
        BY <2>1, <3>1 DEF PipelineInv, EntriesTraceable
    <2> QED
      BY <2>1, <2>2, <2>3 DEF PipelineInv
  <1>2. ASSUME NEW r \in Run, Push(r)
        PROVE  PipelineInv'
    BY <1>2, PushInv
  <1>3. ASSUME NEW r \in Run, Dispatch(r)
        PROVE  PipelineInv'
    BY <1>3, DispatchInv
  <1>4. ASSUME NEW r \in Run, RunStep(r)
        PROVE  PipelineInv'
    BY <1>4, ProduceInv, ProduceFailsInv, RegisterAmisInv, BuildAmiFailsInv, CheckOutInv,
       WriteBackInv, PushRejectedInv, WriteBackFailsInv DEF RunStep
  <1>5. ASSUME NEW r \in Run, Rerun(r)
        PROVE  PipelineInv'
    BY <1>5, RerunInv
  <1> QED
    BY <1>1, <1>2, <1>3, <1>4, <1>5 DEF Next

LEMMA PipelineInvariant == Spec => []PipelineInv
  <1>1. Init => PipelineInv
    BY InitInv
  <1>2. PipelineInv /\ [Next]_vars => PipelineInv'
    BY NextInv
  <1> QED
    BY <1>1, <1>2, PTL DEF Spec

\* Every variable of the pipeline keeps its type, and every commit a run
\* points to stays on the branch.
THEOREM PipelineTypeCorrect == Spec => []PipelineTypeOK
  <1>1. PipelineInv => PipelineTypeOK
    BY DEF PipelineInv
  <1> QED
    BY <1>1, PipelineInvariant, PTL

\* detect_changes.py rebuilds exactly what differs, at the level it differs.
THEOREM DetectionIsExact == Spec => []MatrixExact
  <1>1. PipelineInv => MatrixExact
    BY DEF PipelineInv, RunInv, Exact, Difference, MatrixExact
  <1> QED
    BY <1>1, PipelineInvariant, PTL

\* Every entry that update-flavors-lock ever wrote can be followed to its inputs.
THEOREM EntriesAreTraceable == Spec => []EntriesTraceable
  <1>1. PipelineInv => EntriesTraceable
    BY DEF PipelineInv
  <1> QED
    BY <1>1, PipelineInvariant, PTL

Offers == {run[r].results : r \in {s \in Run : DOMAIN run[s].results # {}}}

\* A step that gives no run other results leaves the offers alone.
LEMMA OffersKept ==
  ASSUME \A s \in Run : \/ run'[s].results = run[s].results
                        \/ DOMAIN run'[s].results = {} /\ DOMAIN run[s].results = {}
  PROVE  Offers' = Offers
  BY DEF Offers

LEMMA OffersGrow ==
  ASSUME ResultsStay
  PROVE  Offers \subseteq Offers'
  BY DEF Offers, ResultsStay

LEMMA RegisterInit ==
  ASSUME Init
  PROVE  Register!Init
  <1>1. PipelineInv /\ run = [r \in Run |-> Idle]
    BY InitInv DEF Init
  <1>2. Offers = {}
    BY <1>1, EmptyResults DEF Offers, Idle
  <1>3. main[Tip] \in Commit
    BY <1>1 DEF PipelineInv, PipelineTypeOK, Tip
  <1>4. DOMAIN main[Tip].lock = Flavor
    BY <1>3 DEF Commit
  <1>5. Offers = {} /\ DOMAIN main[Tip].lock = Flavor
    BY <1>2, <1>4
  <1> QED
    BY <1>5, Zenon DEF Register!Init, Offers

\* The steps of a run that give no run other results and push nothing.
LEMMA QuietSteps ==
  ASSUME PipelineInv, NEW r \in Run,
         \/ Dispatch(r) \/ Produce(r) \/ ProduceFails(r) \/ CheckOut(r)
         \/ PushRejected(r) \/ WriteBackFails(r) \/ Rerun(r)
  PROVE  main' = main /\ Offers' = Offers
  <1>1. \A s \in Run : run[s] \in Record
    BY RunTyped
  <1>2. CASE Dispatch(r)
    <2>1. DOMAIN run[r].results = {} /\ run \in [Run -> Record]
      BY <1>2 DEF Dispatch, PipelineInv, PipelineTypeOK, RunInv, Registered, Early
    <2>2. PICK x : x.results = <<>> /\ run' = [run EXCEPT ![r] = x]
      <3>1. PICK event, n, matrix : Triggered(r, event, FALSE, n, matrix)
        BY <1>2, Zenon DEF Dispatch
      <3> DEFINE x == [phase |-> IF matrix = Nothing THEN "skipped" ELSE "produce",
                       event |-> event, baseline |-> FALSE, sha |-> n, matrix |-> matrix,
                       digest |-> <<>>, results |-> <<>>, view |-> 0]
      <3>2. run' = [run EXCEPT ![r] = x]
        BY <3>1, Zenon DEF Triggered
      <3>3. x.results = <<>>
        BY Zenon
      <3> HIDE DEF x
      <3> QED
        BY <3>2, <3>3
    <2> QED
      BY <1>2, <2>1, <2>2, EmptyResults, OffersKept DEF Dispatch
  <1>3. CASE Produce(r) \/ ProduceFails(r) \/ CheckOut(r)
    <2>1. \A s \in Run : run'[s].results = run[s].results
      <3>1. run \in [Run -> Record] /\ run[r] \in Record
        BY DEF PipelineInv, PipelineTypeOK
      <3>2. CASE Produce(r)
        BY <3>1, <3>2 DEF Produce, Record
      <3>3. CASE ProduceFails(r)
        BY <3>1, <3>3 DEF ProduceFails, Record
      <3>4. CASE CheckOut(r)
        BY <3>1, <3>4 DEF CheckOut, Record
      <3> QED
        BY <1>3, <3>2, <3>3, <3>4
    <2> QED
      BY <1>3, <2>1, OffersKept DEF Produce, ProduceFails, CheckOut
  <1>4. CASE PushRejected(r) \/ WriteBackFails(r)
    <2>1. run'[r].results = run[r].results /\ \A s \in Run \ {r} : Moved(run[s], run'[s])
      BY <1>4, LeavesInv DEF PushRejected, WriteBackFails
    <2>2. \A s \in Run \ {r} : run'[s].results = run[s].results
      BY <2>1, MovedSame
    <2> QED
      BY <1>4, <2>1, <2>2, OffersKept DEF PushRejected, WriteBackFails
  <1>5. CASE Rerun(r)
    <2>1. run[r].results \in Results
      BY RunTyped
    <2>2. /\ run'[r] = [run[r] EXCEPT !.results = run[r].results, !.view = 0,
                                      !.phase = run'[r].phase]
          /\ \A s \in Run \ {r} : Moved(run[s], run'[s])
      BY <1>5, <2>1, JoinsEffect DEF Rerun
    <2>3. run'[r].results = run[r].results
      <3>1. run[r] \in Record
        BY <1>1
      <3>2. [run[r] EXCEPT !.results = run[r].results, !.view = 0,
                           !.phase = run'[r].phase].results = run[r].results
        BY <3>1, JoinedResults
      <3> QED
        BY <2>2, <3>2, Zenon
    <2>4. \A s \in Run \ {r} : run'[s].results = run[s].results
      BY <2>2, MovedSame
    <2> QED
      BY <1>5, <2>3, <2>4, OffersKept DEF Rerun
  <1> QED
    BY <1>2, <1>3, <1>4, <1>5

LEMMA PushDevelops ==
  ASSUME PipelineInv, NEW r \in Run, Push(r)
  PROVE  main'[Tip'].lock = main[Tip].lock /\ Offers' = Offers
  <1>1. PICK changed \in Changes, baseline \in BOOLEAN :
          /\ main' = Append(main, Edited(changed))
          /\ Triggered(r, "push", baseline, Tip + 1, ComputeMatrix("none", baseline, changed))
    BY DEF Push
  <1>2. Edited(changed) \in Commit /\ Edited(changed).lock = main[Tip].lock
    BY EditedEffect
  <1>3. main \in Seq(Commit) /\ Tip = Len(main)
    BY DEF PipelineInv, PipelineTypeOK, Tip
  <1>4. Len(main') = Len(main) + 1 /\ main'[Len(main) + 1] = Edited(changed)
    BY <1>1, <1>2, <1>3, Grown
  <1>5. DOMAIN run[r].results = {} /\ run \in [Run -> Record]
    BY DEF Push, PipelineInv, PipelineTypeOK, RunInv, Registered, Early
  <1>6. /\ run'[r].results = <<>>
        /\ \A s \in Run \ {r} : run'[s] = run[s]
    BY <1>1, <1>5 DEF Triggered
  <1>7. Offers' = Offers
    BY <1>5, <1>6, EmptyResults, OffersKept
  <1> QED
    BY <1>2, <1>4, <1>7 DEF Tip

LEMMA WriteBackMerges ==
  ASSUME PipelineInv, NEW r \in Run, WriteBack(r)
  PROVE  /\ main'[Tip'].image = main[Tip].image /\ main'[Tip'].env = main[Tip].env
         /\ main'[Tip'].lock = Merged(r, Tip)
         /\ Offers' = Offers /\ run[r].results \in Offers
  <1> DEFINE c == [main[Tip] EXCEPT !.lock = Merged(r, Tip)]
  <1>1. /\ main' = Append(main, c) /\ c \in Commit
        /\ c.image = main[Tip].image /\ c.env = main[Tip].env
        /\ c.lock = Merged(r, Tip)
    BY WriteBackEffect
  <1> HIDE DEF c
  <1>2. main \in Seq(Commit) /\ Tip = Len(main)
    BY DEF PipelineInv, PipelineTypeOK, Tip
  <1>3. main'[Tip'] = c
    BY <1>1, <1>2, Grown DEF Tip
  <1>4. /\ run'[r].results = run[r].results
        /\ \A s \in Run \ {r} : Moved(run[s], run'[s])
    BY LeavesInv DEF WriteBack
  <1>5. \A s \in Run \ {r} : run'[s].results = run[s].results
    BY <1>4, MovedSame
  <1>6. DOMAIN run[r].results # {}
    BY DEF WriteBack, PipelineInv, RunInv, Registered
  <1> QED
    BY <1>1, <1>3, <1>4, <1>5, <1>6, OffersKept DEF Offers

LEMMA RegisterOffers ==
  ASSUME PipelineInv, NEW r \in Run, RegisterAmis(r) \/ BuildAmiFails(r)
  PROVE  main' = main /\ Offers \subseteq Offers'
  <1>1. run[r].phase = "ami" /\ main' = main
    BY DEF RegisterAmis, BuildAmiFails
  <1>2. DOMAIN run[r].results = {} /\ run \in [Run -> Record]
    BY <1>1 DEF PipelineInv, PipelineTypeOK, RunInv, Registered
  <1>3. ASSUME NEW built \in SUBSET Rebuilt(r), run' = Joins(r, Records(r, built))
        PROVE  \A s \in Run \ {r} : Moved(run[s], run'[s])
    BY <1>1, <1>3, RecordsEffect, JoinsEffect
  <1>4. ASSUME NEW s \in Run \ {r}
        PROVE  run'[s].results = run[s].results /\ run'[s].event = run[s].event
    <2>1. \/ Moved(run[s], run'[s])
          \/ run'[s] = run[s]
      BY <1>2, <1>3 DEF RegisterAmis, BuildAmiFails
    <2> QED
      BY <2>1 DEF Moved, Record
  <1>5. ResultsStay
    BY <1>2, <1>4 DEF ResultsStay
  <1> QED
    BY <1>1, <1>5, OffersGrow

LEMMA RegisterNext ==
  ASSUME PipelineInv, [Next]_vars
  PROVE  [Register!Next]_(Register!vars)
  <1>1. CASE UNCHANGED vars
    BY <1>1 DEF vars, Register!vars, Tip
  <1>2. ASSUME NEW r \in Run, Push(r)
        PROVE  Register!Develop
    BY <1>2, PushDevelops DEF Register!Develop, Offers
  <1>3. ASSUME NEW r \in Run,
               \/ Dispatch(r) \/ Produce(r) \/ ProduceFails(r) \/ CheckOut(r)
               \/ PushRejected(r) \/ WriteBackFails(r) \/ Rerun(r)
        PROVE  UNCHANGED Register!vars
    BY <1>3, QuietSteps DEF Register!vars, Offers, Tip
  <1>4. ASSUME NEW r \in Run, RegisterAmis(r) \/ BuildAmiFails(r)
        PROVE  Register!Offer
    BY <1>4, RegisterOffers DEF Register!Offer, Offers, Tip
  <1>5. ASSUME NEW r \in Run, WriteBack(r)
        PROVE  Register!Merge
    <2>1. /\ main'[Tip'].image = main[Tip].image /\ main'[Tip'].env = main[Tip].env
          /\ main'[Tip'].lock = Merged(r, Tip)
          /\ Offers' = Offers /\ run[r].results \in Offers
      BY <1>5, WriteBackMerges
    <2> QED
      BY <2>1 DEF Register!Merge, Merged, Offers
  <1> QED
    BY <1>1, <1>2, <1>3, <1>4, <1>5 DEF Next, RunStep, Register!Next

\* Checkout, merge and push amount to one atomic merge at the head of the branch.
THEOREM WriteBackIsAtomic == Spec => ImplementsLockRegister
  <1>1. Init => Register!Init
    BY RegisterInit
  <1>2. PipelineInv /\ [Next]_vars => [Register!Next]_(Register!vars)
    BY RegisterNext
  <1> QED
    BY <1>1, <1>2, PipelineInvariant, PTL DEF Spec, ImplementsLockRegister, Register!Spec
=============================================================================
