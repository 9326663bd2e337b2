-------------------------- MODULE LedgerIngestProofs --------------------------
(***************************************************************************)
(* Theorems about LedgerIngest: nothing is missing behind the cursor, a    *)
(* completed run is complete, windows leave no gap, no scan is refused,    *)
(* and the tables are ones the startup check accepts, for any events,      *)
(* page size, lag, windows, overlaps, sweeps, errors and clocks.           *)
(***************************************************************************)
EXTENDS LedgerIngest, SequenceTheorems, FiniteSetTheorems, WellFoundedInduction, TLAPS

Seconds == 0 .. MaxTime
ScanKinds == 0 .. Len(Sweeps)
Pages == Windows \X SUBSET Events

Cursors == [present : BOOLEAN, start : Seconds, end : Seconds, kind : ScanKinds,
            overlap : Nat, complete : BOOLEAN, lastEvent : Int, updated : Nat]
Runs == [status : {"NONE", "RUNNING", "COMPLETED", "FAILED"},
         start : Seconds, end : Seconds, kind : ScanKinds, pending : SUBSET Windows,
         written : Nat, shown : SUBSET Events, reached : Int]
Observations == [response : SUBSET Events, disposition : {"NONE", "REJECTED", "PROCESSED"}]

TablesTyped ==
    /\ cursor \in [Lanes -> Cursors] /\ run \in [Lanes -> Runs]
    /\ latest \in [Windows -> Observations]
    /\ processed \subseteq Pages /\ stored \subseteq Pages
    /\ origin \in [Events -> Pages \cup {NoPage}]

WorldTyped ==
    /\ real \in Activated .. MaxTime /\ skew \in Nat /\ overlap \in Nat
    /\ visible \subseteq Events /\ \A e \in visible : OccurredAt[e] =< real
    /\ history \in [lane : Lanes \cup {"none"}, refused : BOOLEAN, from : Nat, steady : BOOLEAN]

SchedulesTyped ==
    /\ due = <<>> \/ due \in [DOMAIN Sweeps -> Int]
    /\ dueUpdated \in Nat
    /\ cooldown \in [until : Int, failures : Nat, updated : Nat]

(* The batch in flight works on a run that is open.                        *)
InFlight ==
    svc = Idle \/ /\ svc \in [kind : ScanKinds, left : Nat]
                  /\ run[LaneOf(svc.kind)].status = "RUNNING"

CursorsHeld ==
    /\ \A l \in Lanes : /\ cursor[l].present => cursor[l].start < cursor[l].end
                        /\ cursor[l].complete => cursor[l].present
    /\ Compensation.present => Normal.present
    /\ Normal.present => real > Activated

(* What a page of the ledger's evidence stands for.                        *)
EvidenceKept ==
    /\ PagesAccepted
    /\ \A page \in stored : page[2] \subseteq entries
    /\ \A w \in Windows : latest[w].disposition = "PROCESSED" =>
            <<w, latest[w].response>> \in processed

(* An event shown when the run was opened is recorded, or in a segment     *)
(* still to be asked for.                                                  *)
Within(e, w) == OccurredAt[e] >= w[1] /\ OccurredAt[e] =< w[2]
ShownAccounted ==
    \A l \in Lanes :
        /\ run[l].shown \subseteq visible
        /\ run[l].status = "RUNNING" =>
              \A e \in run[l].shown : Within(e, <<run[l].start, run[l].end>>) =>
                  e \in entries \/ \E w \in run[l].pending : Within(e, w)

(* The provider shows a prompt event within the lag, once time has passed. *)
PromptSeen ==
    real > Activated => \A e \in Prompt \ visible : real < OccurredAt[e] + Lag

(* What is behind the start of the window that is open, or behind the end  *)
(* of one that is complete.                                                *)
BehindCursor ==
    Normal.present => \A e \in Prompt :
        /\ OccurredAt[e] =< Normal.end => e \in visible
        /\ run["NORMAL"].status = "RUNNING" /\ Within(e, <<Normal.start, Normal.end>>) =>
              e \in run["NORMAL"].shown
        /\ OccurredAt[e] >= history.from
           /\ (IF Normal.complete THEN OccurredAt[e] =< Normal.end
                                  ELSE OccurredAt[e] < Normal.start)
           => e \in entries

(* On a clock that only goes forward the rows are written in order.        *)
WrittenInOrder ==
    history.steady =>
        /\ \A l \in Lanes : cursor[l].updated =< Local /\ run[l].written =< Local
        /\ history.lane = "COMPENSATION" /\ ~(Normal.present /\ ~Normal.complete) =>
              Normal.updated =< Compensation.updated

GInv == /\ TablesTyped /\ WorldTyped /\ SchedulesTyped
        /\ InFlight /\ CursorsHeld /\ RunsAccepted /\ EvidenceKept
        /\ ShownAccounted /\ PromptSeen /\ BehindCursor /\ WrittenInOrder
        /\ SweepsAccepted /\ CooldownAccepted /\ StartNeverRefused

-----------------------------------------------------------------------------
(* Sets of numbers.                                                        *)

BelowIn(T, x) == {y \in T : y < x}
(* A nonempty set of natural numbers has a least one.                     *)
LEMMA NatHasLeast ==
    ASSUME NEW T \in SUBSET Nat, T # {}
    PROVE  \E x \in T : \A y \in T : x <= y
<1> DEFINE F == {BelowIn(T, x) : x \in T}
           R == StrictSubsetOrdering(Nat)
<1>0. \A x \in T : x \in Nat
  OBVIOUS
<1>1. ASSUME NEW x \in T PROVE BelowIn(T, x) \in SUBSET Nat /\ IsFiniteSet(BelowIn(T, x))
  <2>2. x \in Nat
    OBVIOUS
  <2>3. BelowIn(T, x) \in SUBSET Nat
    BY <1>0 DEF BelowIn
  <2>4. \A s \in BelowIn(T, x) : s <= x
    BY <1>0 DEF BelowIn
  <2>5. QED
    BY <2>2, <2>3, <2>4, FS_BoundedSetOfNaturals
<1>2. F \subseteq FiniteSubsetsOf(Nat) /\ F # {}
  BY <1>1 DEF FiniteSubsetsOf
<1>3. PICK U \in F : \A V \in F : <<V, U>> \notin R
  <2>1. IsWellFoundedOn(R, FiniteSubsetsOf(Nat))
    BY FS_StrictSubsetOrderingWellFounded
  <2> HIDE DEF F, R
  <2>2. QED
    BY <1>2, <2>1, WFMin
<1>4. PICK x \in T : U = BelowIn(T, x)
  OBVIOUS
<1>5. ASSUME NEW z \in T, z < x PROVE FALSE
  <2>1. z \in U /\ z \notin BelowIn(T, z)
    BY <1>0, <1>4, <1>5 DEF BelowIn
  <2>2. ASSUME NEW y \in BelowIn(T, z) PROVE y \in U
    <3>1. y \in T /\ y < z /\ y \in Nat /\ z \in Nat /\ x \in Nat
      BY <1>0 DEF BelowIn
    <3>2. y < x
      BY <1>5, <3>1
    <3>3. QED
      BY <1>4, <3>1, <3>2 DEF BelowIn
  <2>3. BelowIn(T, z) \in SUBSET Nat /\ U \in SUBSET Nat
    BY <1>1, <1>4
  <2>4. <<BelowIn(T, z), U>> \in R
    BY <2>1, <2>2, <2>3 DEF StrictSubsetOrdering
  <2>5. QED
    BY <1>3, <2>4
<1>6. QED
  BY <1>0, <1>5

(* Something with the least measure, and with the greatest below a bound.  *)
LEMMA LeastExists ==
    ASSUME NEW S, S # {}, NEW f, \A x \in S : f[x] \in Nat
    PROVE  \E x \in S : \A y \in S : f[x] =< f[y]
<1>1. PICK T : T = {f[x] : x \in S}
  OBVIOUS
<1>2. T \in SUBSET Nat /\ T # {}
  BY <1>1
<1>3. PICK n \in T : \A m \in T : n =< m
  BY <1>2, NatHasLeast
<1>4. QED
  BY <1>1, <1>3

LEMMA GreatestExists ==
    ASSUME NEW S, S # {}, NEW f, NEW b \in Nat, \A x \in S : f[x] \in 0 .. b
    PROVE  \E x \in S : \A y \in S : f[y] =< f[x]
<1>1. PICK g : g = [x \in S |-> b - f[x]]
  OBVIOUS
<1>2. \A x \in S : g[x] \in Nat /\ g[x] = b - f[x]
  BY <1>1
<1>3. PICK x \in S : \A y \in S : g[x] =< g[y]
  BY <1>2, LeastExists
<1>4. ASSUME NEW y \in S PROVE f[y] =< f[x]
  <2>1. g[x] =< g[y] /\ g[x] = b - f[x] /\ g[y] = b - f[y]
    BY <1>2, <1>3
  <2>2. f[x] \in Int /\ f[y] \in Int
    OBVIOUS
  <2>3. QED
    BY <2>1, <2>2
<1>5. QED
  BY <1>4

-----------------------------------------------------------------------------
(* The operators of the model.                                             *)

LEMMA LanesOfKinds ==
    ASSUME NEW k
    PROVE  /\ LaneOf(k) \in Lanes
           /\ LaneOf(k) = "NORMAL" <=> k = 0
           /\ LaneOf(k) = "COMPENSATION" <=> k # 0
BY DEF LaneOf, Lanes

LEMMA LaterNat ==
    ASSUME NEW a \in Int, NEW b \in Int
    PROVE  /\ Later(a, b) \in Int /\ Later(a, b) >= a /\ Later(a, b) >= b
           /\ a \in Nat => Later(a, b) \in Nat
           /\ b \in Nat => Later(a, b) \in Nat
BY DEF Later

LEMMA ConstantsTyped ==
    /\ Lag \in Nat /\ Window \in Nat /\ Window > 0 /\ Interval \in Nat
    /\ MaxTime \in Nat /\ Activated \in Nat /\ Activated =< MaxTime
    /\ MaxDelay \in Nat /\ MaxFailures \in Nat \ {0} /\ RetryBase \in Nat
    /\ PermanentDelay \in Nat /\ MaxRequests \in Nat \ {0}
    /\ Len(Sweeps) \in Nat /\ DOMAIN Sweeps = 1 .. Len(Sweeps)
    /\ \A k \in DOMAIN Sweeps : Sweeps[k].lookback \in Nat /\ Sweeps[k].interval \in Nat
<1>1. Sweeps \in Seq([lookback : Nat, interval : Nat])
  BY SweepsAssumption
<1>2. Len(Sweeps) \in Nat /\ DOMAIN Sweeps = 1 .. Len(Sweeps)
  BY <1>1
<1>3. \A k \in 1 .. Len(Sweeps) : Sweeps[k] \in [lookback : Nat, interval : Nat]
  BY <1>1, ElementOfSeq
<1>4. \A k \in DOMAIN Sweeps : Sweeps[k].lookback \in Nat /\ Sweeps[k].interval \in Nat
  BY <1>2, <1>3
<1>5. /\ Lag \in Nat /\ Window \in Nat /\ Window > 0 /\ Interval \in Nat
      /\ MaxTime \in Nat /\ Activated \in Nat /\ Activated =< MaxTime
  BY ClocksAssumption
<1>6. /\ MaxDelay \in Nat /\ MaxFailures \in Nat \ {0} /\ RetryBase \in Nat
      /\ PermanentDelay \in Nat /\ MaxRequests \in Nat \ {0}
  BY BudgetsAssumption
<1>7. QED
  BY <1>2, <1>4, <1>5, <1>6

LEMMA LocalTyped ==
    ASSUME WorldTyped
    PROVE  /\ Local \in Nat /\ Local =< real /\ Local \in Seconds
           /\ SafeTail \in Int /\ SafeTail =< real - Lag
BY ConstantsTyped DEF WorldTyped, Local, Later, SafeTail, Seconds

LEMMA HalvesCover ==
    ASSUME NEW w \in Windows, Halves(w) # {}
    PROVE  /\ Halves(w) \subseteq Windows
           /\ \A e : OccurredAt[e] \in Nat /\ Within(e, w) => \E h \in Halves(w) : Within(e, h)
<1>1. PICK a, b \in Seconds : w = <<a, b>> /\ a < b
  BY DEF Windows, Seconds
<1>2. a \in Nat /\ b \in Nat /\ a =< MaxTime /\ b =< MaxTime /\ MaxTime \in Nat
  BY <1>1, ConstantsTyped DEF Seconds
<1>3. w[1] = a /\ w[2] = b
  BY <1>1
<1>4. PICK m : m = (a + b) \div 2
  OBVIOUS
<1>5. Halves(w) = {<<a, m>>, <<m, b>>} /\ b - a > 1
  BY <1>2, <1>3, <1>4 DEF Halves, Midpoint
<1>6. m \in Nat /\ a < m /\ m < b
  BY <1>2, <1>4, <1>5
<1>7. Halves(w) \subseteq Windows
  BY <1>2, <1>5, <1>6 DEF Windows
<1>8. ASSUME NEW e, OccurredAt[e] \in Nat, Within(e, w)
      PROVE  \E h \in Halves(w) : Within(e, h)
  <2>1. OccurredAt[e] >= a /\ OccurredAt[e] =< b
    BY <1>3, <1>8 DEF Within
  <2>2. Within(e, <<a, m>>) \/ Within(e, <<m, b>>)
    BY <1>2, <1>6, <1>8, <2>1 DEF Within
  <2>3. QED
    BY <1>5, <2>2
<1>9. QED
  BY <1>7, <1>8

(* The segment that comes next exists.                                     *)
LEMMA SegmentIsPending ==
    ASSUME Run.pending \subseteq Windows, Run.pending # {}
    PROVE  Segment \in Run.pending
<1>1. PICK P : P = Run.pending
  OBVIOUS
<1>2. \A w \in P : w[1] \in 0 .. MaxTime /\ w[2] \in 0 .. MaxTime
  BY <1>1 DEF Windows
<1>3. PICK f, g : f = [w \in P |-> w[1]] /\ g = [w \in P |-> w[2]]
  OBVIOUS
<1>4. \A w \in P : /\ f[w] = w[1] /\ g[w] = w[2]
                   /\ f[w] \in 0 .. MaxTime /\ g[w] \in Nat
  BY <1>2, <1>3
<1>5. PICK u \in P : \A y \in P : IF svc.kind = 0 THEN f[u] =< f[y] ELSE f[y] =< f[u]
  <2>1. CASE svc.kind = 0
    <3>1. \A w \in P : f[w] \in Nat
      BY <1>4
    <3>2. \E x \in P : \A y \in P : f[x] =< f[y]
      BY <1>1, <3>1, LeastExists
    <3>3. QED
      BY <2>1, <3>2
  <2>2. CASE svc.kind # 0
    <3>1. \A w \in P : f[w] \in 0 .. MaxTime
      BY <1>4
    <3>2. \E x \in P : \A y \in P : f[y] =< f[x]
      BY <1>1, <3>1, GreatestExists, ConstantsTyped
    <3>3. QED
      BY <2>2, <3>2
  <2>3. QED
    BY <2>1, <2>2
<1>6. PICK Q : Q = {w \in P : f[w] = f[u]}
  OBVIOUS
<1>7. Q # {} /\ \A w \in Q : g[w] \in Nat
  BY <1>4, <1>6
<1>8. PICK x \in Q : \A y \in Q : g[x] =< g[y]
  BY <1>7, LeastExists
<1>9. x \in P /\ f[x] = f[u]
  BY <1>6, <1>8
<1>10. ASSUME NEW y \in P PROVE Precedes(x, y)
  <2>1. f[x] \in Int /\ f[y] \in Int /\ x[1] = f[x] /\ y[1] = f[y] /\ x[2] = g[x] /\ y[2] = g[y]
    BY <1>4, <1>9
  <2>2. CASE f[y] = f[u]
    <3>1. g[x] =< g[y]
      BY <1>6, <1>8, <2>2
    <3>2. QED
      BY <1>9, <2>1, <2>2, <3>1 DEF Precedes
  <2>3. CASE f[y] # f[u]
    <3>1. IF svc.kind = 0 THEN f[x] =< f[y] ELSE f[y] =< f[x]
      BY <1>5, <1>9
    <3>2. QED
      BY <1>9, <2>1, <2>3, <3>1 DEF Precedes
  <2>4. QED
    BY <2>2, <2>3
<1>11. QED
  BY <1>1, <1>9, <1>10 DEF Segment

LEMMA FirstSweepIsDue ==
    ASSUME DueSweeps # {}
    PROVE  FirstSweep \in DueSweeps /\ FirstSweep \in DOMAIN Sweeps
<1>1. PICK D : D = DueSweeps
  OBVIOUS
<1>2. D \subseteq DOMAIN Sweeps /\ D \in SUBSET Nat /\ D # {}
  BY <1>1, ConstantsTyped DEF DueSweeps
<1>3. \E k \in D : \A j \in D : k =< j
  BY <1>2, NatHasLeast
<1>4. FirstSweep \in D
  BY <1>1, <1>3 DEF FirstSweep
<1>5. QED
  BY <1>1, <1>2, <1>4

LEMMA LatestTyped ==
    ASSUME NEW known \in SUBSET Events, NEW b \in Nat, \A e \in known : OccurredAt[e] =< b
    PROVE  Latest(known) \in Int
<1>1. \A e \in known : OccurredAt[e] \in 0 .. b
  BY EventsAssumption
<1>2. CASE known = {}
  BY <1>2 DEF Latest
<1>3. CASE known # {}
  <2>1. \E x \in known : \A y \in known : OccurredAt[y] =< OccurredAt[x]
    BY <1>1, <1>3, GreatestExists
  <2>2. PICK x : x = CHOOSE z \in known : \A y \in known : OccurredAt[y] =< OccurredAt[z]
    OBVIOUS
  <2>3. x \in known
    BY <2>1, <2>2
  <2>4. Latest(known) = OccurredAt[x]
    BY <1>3, <2>2 DEF Latest
  <2>5. QED
    BY <1>1, <2>3, <2>4
<1>4. QED
  BY <1>2, <1>3

(* What there is to say of a lane.                                         *)
LEMMA LaneTyped ==
    ASSUME TablesTyped, NEW l \in Lanes
    PROVE  /\ cursor[l] \in Cursors
           /\ cursor[l].present \in BOOLEAN /\ cursor[l].complete \in BOOLEAN
           /\ cursor[l].start \in Nat /\ cursor[l].end \in Nat
           /\ cursor[l].start \in Seconds /\ cursor[l].end \in Seconds
           /\ cursor[l].kind \in ScanKinds /\ cursor[l].kind \in Nat
           /\ cursor[l].overlap \in Nat /\ cursor[l].lastEvent \in Int /\ cursor[l].updated \in Nat
           /\ run[l] \in Runs
           /\ run[l].start \in Seconds /\ run[l].end \in Seconds
           /\ run[l].start \in Nat /\ run[l].end \in Nat
           /\ run[l].kind \in ScanKinds
           /\ run[l].status \in {"NONE", "RUNNING", "COMPLETED", "FAILED"}
           /\ run[l].pending \subseteq Windows /\ run[l].shown \subseteq Events
           /\ run[l].written \in Nat /\ run[l].reached \in Int
<1>1. cursor[l] \in Cursors /\ run[l] \in Runs
  BY DEF TablesTyped
<1>2. Seconds \subseteq Nat /\ ScanKinds \subseteq Nat
  BY ConstantsTyped DEF Seconds, ScanKinds
<1>3. PICK c, r : c = cursor[l] /\ r = run[l]
  OBVIOUS
<1>4. /\ c.present \in BOOLEAN /\ c.complete \in BOOLEAN
      /\ c.start \in Seconds /\ c.end \in Seconds /\ c.kind \in ScanKinds
      /\ c.overlap \in Nat /\ c.lastEvent \in Int /\ c.updated \in Nat
  BY <1>1, <1>3 DEF Cursors
<1>5. /\ r.start \in Seconds /\ r.end \in Seconds /\ r.kind \in ScanKinds
      /\ r.status \in {"NONE", "RUNNING", "COMPLETED", "FAILED"}
      /\ r.pending \subseteq Windows /\ r.shown \subseteq Events
      /\ r.written \in Nat /\ r.reached \in Int
  BY <1>1, <1>3 DEF Runs
<1>6. QED
  BY <1>1, <1>2, <1>3, <1>4, <1>5

LEMMA BoundedEndTyped ==
    ASSUME TablesTyped, WorldTyped, CursorsHeld
    PROVE  /\ BoundedEnd \in Int /\ BoundedEnd =< SafeTail
           /\ Anchor \in Int /\ Anchor =< Normal.end
           /\ NormalStart \in Nat
           /\ Normal.present => NormalStart =< Normal.end
           /\ ~Normal.present => NormalStart >= Activated
<1>1. PICK e, o, z, s : e = Normal.end /\ o = Normal.overlap /\ z = Normal.lastEvent
                        /\ s = Normal.start
  OBVIOUS
<1>2. e \in Nat /\ o \in Nat /\ z \in Int /\ s \in Nat /\ Normal.present \in BOOLEAN
  BY <1>1, LaneTyped DEF Normal, Lanes
<1>3. SafeTail \in Int /\ Window \in Nat /\ Activated \in Nat
  BY LocalTyped, ConstantsTyped
<1>4. Anchor \in Int /\ Anchor =< e
  BY <1>1, <1>2, <1>3 DEF Anchor, Sooner
<1>5. BoundedEnd \in Int /\ BoundedEnd =< SafeTail
  BY <1>3, <1>4 DEF BoundedEnd, Sooner
<1>6. Rewound \in Nat
  BY <1>1, <1>2 DEF Rewound, Later
<1>7. /\ RegularStart \in Int
      /\ Normal.present => RegularStart =< e
      /\ ~Normal.present => RegularStart >= Activated
  BY <1>1, <1>2, <1>3, <1>4, <1>5 DEF RegularStart, Later
<1>8. /\ NormalStart \in Nat
      /\ Normal.present => NormalStart =< e
      /\ ~Normal.present => NormalStart >= Activated
  BY <1>1, <1>2, <1>3, <1>6, <1>7 DEF NormalStart, Later
<1>9. QED
  BY <1>1, <1>4, <1>5, <1>8

Open(c) == c.present /\ ~c.complete
(* A lane whose run is open has its window open.                           *)
LEMMA RunningIsOpen ==
    ASSUME RunsAccepted, NEW l \in Lanes, run[l].status = "RUNNING"
    PROVE  /\ Open(cursor[l])
           /\ cursor[l].start = run[l].start /\ cursor[l].end = run[l].end
           /\ cursor[l].kind = run[l].kind /\ run[l].pending # {}
BY DEF RunsAccepted, Open

(* The window chosen is the one that is open on its lane, or the lane has  *)
(* none open and the next one begins where the last one reached.           *)
Resumed(w) ==
    LET c == cursor[LaneOf(w.kind)]
    IN  /\ Open(c) /\ w.start = c.start /\ w.end = c.end /\ w.kind = c.kind
        /\ w.kind # 0 => CompensationOpen /\ ~NormalGetsTurn
MovesOn(w) ==
    /\ ~Open(cursor[LaneOf(w.kind)])
    /\ w.kind # 0 => ~CompensationOpen
    /\ w.kind = 0 => /\ w.end =< SafeTail
                     /\ Normal.present => w.start =< Normal.end
                     /\ ~Normal.present => w.start >= Activated
ChosenWell(w) ==
    /\ w = Choice(w.kind, w.start, w.end)
    /\ w.kind \in ScanKinds /\ w.start \in Seconds /\ w.end \in Seconds
    /\ w.start < w.end
    /\ w.kind # 0 => Normal.present
    /\ Resumed(w) \/ MovesOn(w)

LEMMA ResumedNormal ==
    ASSUME TablesTyped, WorldTyped, CursorsHeld, RunsAccepted, Open(Normal)
    PROVE  ChosenWell(Choice(0, Normal.start, Normal.end))
<1>1. PICK w : w = Choice(0, Normal.start, Normal.end)
  OBVIOUS
<1>2. w.kind = 0 /\ w.start = Normal.start /\ w.end = Normal.end
  BY <1>1 DEF Choice
<1>3. LaneOf(w.kind) = "NORMAL" /\ "NORMAL" \in Lanes
  BY <1>2 DEF LaneOf, Lanes
<1>4. Normal.start < Normal.end /\ Normal.start \in Seconds /\ Normal.end \in Seconds
  BY <1>3, LaneTyped DEF CursorsHeld, Open, Normal
<1>5. Normal.kind = 0 /\ 0 \in ScanKinds
  <2>1. LaneOf(Normal.kind) = "NORMAL"
    BY <1>3 DEF RunsAccepted, Open, Normal
  <2>2. QED
    BY <2>1, LanesOfKinds, ConstantsTyped DEF ScanKinds
<1>6. Resumed(w)
  BY <1>2, <1>3, <1>5 DEF Resumed, Normal
<1>7. QED
  BY <1>1, <1>2, <1>4, <1>5, <1>6 DEF ChosenWell

LEMMA ResumedCompensation ==
    ASSUME TablesTyped, WorldTyped, CursorsHeld, RunsAccepted, CompensationOpen,
           ~NormalGetsTurn
    PROVE  ChosenWell(Choice(Compensation.kind, Compensation.start, Compensation.end))
<1>1. PICK w : w = Choice(Compensation.kind, Compensation.start, Compensation.end)
  OBVIOUS
<1>2. w.kind = Compensation.kind /\ w.start = Compensation.start /\ w.end = Compensation.end
  BY <1>1 DEF Choice
<1>3. "COMPENSATION" \in Lanes /\ Open(Compensation)
  BY DEF Lanes, Open, CompensationOpen
<1>4. LaneOf(w.kind) = "COMPENSATION"
  BY <1>2, <1>3 DEF RunsAccepted, Open, Compensation
<1>5. /\ w.start < w.end /\ w.start \in Seconds /\ w.end \in Seconds /\ w.kind \in ScanKinds
      /\ Normal.present
  BY <1>2, <1>3, LaneTyped DEF CursorsHeld, Open, Compensation
<1>6. Resumed(w)
  BY <1>2, <1>3, <1>4 DEF Resumed, Compensation
<1>7. QED
  BY <1>1, <1>2, <1>5, <1>6 DEF ChosenWell

LEMMA NextSweep ==
    ASSUME TablesTyped, WorldTyped, CursorsHeld, SweepChosen
    PROVE  ChosenWell(Choice(FirstSweep, SweepStart(FirstSweep), BoundedEnd))
<1>1. PICK w : w = Choice(FirstSweep, SweepStart(FirstSweep), BoundedEnd)
  OBVIOUS
<1>2. w.kind = FirstSweep /\ w.start = SweepStart(FirstSweep) /\ w.end = BoundedEnd
  BY <1>1 DEF Choice
<1>3. FirstSweep \in DOMAIN Sweeps
  BY FirstSweepIsDue DEF SweepChosen
<1>4. w.kind \in ScanKinds /\ w.kind # 0
  BY <1>2, <1>3, ConstantsTyped DEF ScanKinds
<1>5. PICK k : k = Anchor - Sweeps[FirstSweep].lookback
  OBVIOUS
<1>6. k \in Int
  BY <1>3, <1>5, BoundedEndTyped, ConstantsTyped
<1>7. w.start = Later(Activated, k)
  BY <1>2, <1>5 DEF SweepStart
<1>8. w.start \in Nat
  BY <1>6, <1>7, ConstantsTyped DEF Later
<1>9. w.start < w.end
  BY <1>2 DEF SweepChosen
<1>10. w.end \in Int /\ w.end =< real
  BY <1>2, BoundedEndTyped, LocalTyped, ConstantsTyped DEF WorldTyped
<1>11. w.start \in Seconds /\ w.end \in Seconds
  BY <1>8, <1>9, <1>10, ConstantsTyped DEF Seconds, WorldTyped
<1>12. MovesOn(w) /\ Normal.present
  BY <1>4 DEF MovesOn, SweepChosen, LaneOf, CompensationOpen, Compensation, Open
<1>13. QED
  BY <1>1, <1>2, <1>4, <1>9, <1>10, <1>11, <1>12 DEF ChosenWell

LEMMA NextNormal ==
    ASSUME TablesTyped, WorldTyped, CursorsHeld, ~Open(Normal), NormalAvailable
    PROVE  ChosenWell(Choice(0, NormalStart, BoundedEnd))
<1>1. PICK w : w = Choice(0, NormalStart, BoundedEnd)
  OBVIOUS
<1>2. w.kind = 0 /\ w.start = NormalStart /\ w.end = BoundedEnd
  BY <1>1 DEF Choice
<1>3. /\ w.start \in Nat /\ w.end \in Int /\ w.start < w.end /\ w.end =< SafeTail
      /\ Normal.present => w.start =< Normal.end
      /\ ~Normal.present => w.start >= Activated
  BY <1>2, BoundedEndTyped DEF NormalAvailable
<1>4. w.end =< real
  BY <1>3, LocalTyped, ConstantsTyped DEF WorldTyped
<1>5. w.start \in Seconds /\ w.end \in Seconds /\ 0 \in ScanKinds
  BY <1>3, <1>4, ConstantsTyped DEF Seconds, ScanKinds, WorldTyped
<1>6. MovesOn(w)
  BY <1>2, <1>3 DEF MovesOn, LaneOf, Normal
<1>7. QED
  BY <1>1, <1>2, <1>3, <1>4, <1>5, <1>6 DEF ChosenWell

LEMMA ChosenWindow ==
    ASSUME TablesTyped, WorldTyped, CursorsHeld, RunsAccepted, ChooseWindow # NoChoice
    PROVE  ChosenWell(ChooseWindow)
<1>3. SafeTail \in Int
  BY LocalTyped
<1>4. CASE SafeTail =< 0
  BY <1>3, <1>4 DEF ChooseWindow
<1>5. CASE SafeTail > 0 /\ Open(Normal)
  <2>1. ChooseWindow = Choice(0, Normal.start, Normal.end)
    BY <1>3, <1>5 DEF ChooseWindow, Open
  <2>2. QED
    BY <1>5, <2>1, ResumedNormal
<1>6. CASE SafeTail > 0 /\ ~Open(Normal)
  <2>1. ChooseWindow =
            IF CompensationOpen /\ ~NormalGetsTurn
            THEN Choice(Compensation.kind, Compensation.start, Compensation.end)
            ELSE IF SweepChosen
            THEN Choice(FirstSweep, SweepStart(FirstSweep), BoundedEnd)
            ELSE IF NormalAvailable THEN Choice(0, NormalStart, BoundedEnd)
            ELSE NoChoice
    BY <1>3, <1>6 DEF ChooseWindow, Open
  <2>2. CASE CompensationOpen /\ ~NormalGetsTurn
    BY <2>1, <2>2, ResumedCompensation
  <2>3. CASE ~(CompensationOpen /\ ~NormalGetsTurn) /\ SweepChosen
    <3>1. ChooseWindow = Choice(FirstSweep, SweepStart(FirstSweep), BoundedEnd)
      BY <2>1, <2>3
    <3>2. QED
      BY <2>3, <3>1, NextSweep
  <2>4. CASE ~(CompensationOpen /\ ~NormalGetsTurn) /\ ~SweepChosen
    <3>1. NormalAvailable
      BY <2>1, <2>4
    <3>2. ChooseWindow = Choice(0, NormalStart, BoundedEnd)
      BY <2>1, <2>4, <3>1
    <3>3. QED
      BY <1>6, <3>1, <3>2, NextNormal
  <2>5. QED
    BY <2>2, <2>3, <2>4
<1>7. QED
  BY <1>3, <1>4, <1>5, <1>6

-----------------------------------------------------------------------------
(* What is common to several actions.                                      *)

(* The batch in flight and the time it writes.                             *)
LEMMA BatchInFlight ==
    ASSUME TablesTyped, WorldTyped, InFlight, RunsAccepted, svc # Idle
    PROVE  /\ Lane \in Lanes /\ svc.kind \in ScanKinds /\ svc.left \in Nat
           /\ svc \in [kind : ScanKinds, left : Nat]
           /\ Run = run[Lane] /\ Run.status = "RUNNING"
           /\ WriteTime \in Nat /\ WriteTime >= Local
           /\ WriteTime >= cursor[Lane].updated /\ WriteTime >= Run.written
           /\ WrittenInOrder /\ history.steady => WriteTime =< Local
<1>1. svc \in [kind : ScanKinds, left : Nat] /\ Run.status = "RUNNING" /\ Run = run[Lane]
  BY DEF InFlight, Run, Lane
<1>2. Lane \in Lanes
  BY DEF Lane, LaneOf, Lanes
<1>3. svc.kind \in ScanKinds /\ svc.left \in Nat
  BY <1>1
<1>4. PICK a, b, c : a = Local /\ b = Run.written /\ c = cursor[Lane].updated
  OBVIOUS
<1>5. a \in Nat /\ b \in Nat /\ c \in Nat
  BY <1>1, <1>2, <1>4, LaneTyped, LocalTyped
<1>6. WriteTime = Later(a, Later(b, c))
  BY <1>4 DEF WriteTime
<1>7. WriteTime \in Nat /\ WriteTime >= a /\ WriteTime >= b /\ WriteTime >= c
  BY <1>5, <1>6 DEF Later
<1>8. ASSUME WrittenInOrder, history.steady PROVE WriteTime =< Local
  <2>1. b =< a /\ c =< a
    BY <1>1, <1>2, <1>4, <1>8 DEF WrittenInOrder
  <2>2. QED
    BY <1>4, <1>5, <1>6, <2>1 DEF Later
<1>9. QED
  BY <1>1, <1>2, <1>3, <1>4, <1>7, <1>8

LEMMA YieldedShape ==
    ASSUME TablesTyped, WorldTyped, InFlight, RunsAccepted, svc # Idle
    PROVE  /\ Yielded \in [Lanes -> Cursors]
           /\ \A l \in Lanes :
                /\ Yielded[l].present = cursor[l].present
                /\ Yielded[l].start = cursor[l].start /\ Yielded[l].end = cursor[l].end
                /\ Yielded[l].kind = cursor[l].kind /\ Yielded[l].complete = cursor[l].complete
                /\ Yielded[l].updated = IF l = Lane THEN WriteTime ELSE cursor[l].updated
<1>1. PICK t : t = WriteTime
  OBVIOUS
<1>2. t \in Nat /\ Lane \in Lanes /\ cursor \in [Lanes -> Cursors]
  BY <1>1, BatchInFlight DEF TablesTyped
<1>3. PICK l0 : l0 = Lane
  OBVIOUS
<1>4. Yielded = [cursor EXCEPT ![l0].updated = t]
  BY <1>1, <1>3 DEF Yielded
<1>5. PICK c : c = [cursor[l0] EXCEPT !.updated = t]
  OBVIOUS
<1>6. Yielded = [cursor EXCEPT ![l0] = c]
  BY <1>4, <1>5
<1>7. PICK d : d = cursor[l0]
  OBVIOUS
<1>8. d \in Cursors /\ c = [d EXCEPT !.updated = t]
  BY <1>2, <1>3, <1>5, <1>7
<1>9. /\ c \in Cursors /\ c.updated = t /\ c.present = d.present /\ c.start = d.start
      /\ c.end = d.end /\ c.kind = d.kind /\ c.complete = d.complete
  BY <1>2, <1>8 DEF Cursors
<1>10. \A l \in Lanes : Yielded[l] = IF l = l0 THEN c ELSE cursor[l]
  BY <1>2, <1>3, <1>6
<1>11. Yielded \in [Lanes -> Cursors]
  BY <1>2, <1>3, <1>6, <1>9
<1>12. QED
  BY <1>1, <1>3, <1>7, <1>9, <1>10, <1>11

(* A run given up keeps all but its status.                                *)
LEMMA RunFails ==
    ASSUME TablesTyped, NEW l0 \in Lanes
    PROVE  LET n == [run EXCEPT ![l0].status = "FAILED"]
           IN  /\ n \in [Lanes -> Runs]
               /\ \A l \in Lanes :
                    /\ n[l].start = run[l].start /\ n[l].end = run[l].end
                    /\ n[l].kind = run[l].kind /\ n[l].pending = run[l].pending
                    /\ n[l].shown = run[l].shown /\ n[l].written = run[l].written
                    /\ n[l].status = IF l = l0 THEN "FAILED" ELSE run[l].status
<1>1. PICK n : n = [run EXCEPT ![l0].status = "FAILED"]
  OBVIOUS
<1>2. run \in [Lanes -> Runs]
  BY DEF TablesTyped
<1>3. PICK r, d : d = run[l0] /\ r = [d EXCEPT !.status = "FAILED"]
  OBVIOUS
<1>4. n = [run EXCEPT ![l0] = r]
  BY <1>1, <1>3
<1>5. d \in Runs
  BY <1>2, <1>3
<1>6. /\ r \in Runs /\ r.status = "FAILED" /\ r.start = d.start /\ r.end = d.end
      /\ r.kind = d.kind /\ r.pending = d.pending /\ r.shown = d.shown
      /\ r.written = d.written
  BY <1>3, <1>5 DEF Runs
<1>7. \A l \in Lanes : n[l] = IF l = l0 THEN r ELSE run[l]
  BY <1>2, <1>4
<1>8. n \in [Lanes -> Runs]
  BY <1>2, <1>4, <1>6
<1>9. QED
  BY <1>1, <1>3, <1>6, <1>7, <1>8

(* The windows and the runs wait: a lane's row is touched and a run may be *)
(* given up, no more.                                                      *)
Waits ==
    /\ \A l \in Lanes :
        /\ cursor'[l].present = cursor[l].present
        /\ cursor'[l].start = cursor[l].start /\ cursor'[l].end = cursor[l].end
        /\ cursor'[l].kind = cursor[l].kind /\ cursor'[l].complete = cursor[l].complete
        /\ run'[l].start = run[l].start /\ run'[l].end = run[l].end
        /\ run'[l].kind = run[l].kind /\ run'[l].pending = run[l].pending
        /\ run'[l].shown = run[l].shown
        /\ run'[l].status = run[l].status \/ run'[l].status = "FAILED"
    /\ origin' = origin /\ history'.from = history.from
    /\ visible \subseteq visible' /\ real' \in Int /\ real' >= real

LEMMA WaitingKeeps ==
    ASSUME TablesTyped, WorldTyped, CursorsHeld, RunsAccepted, ShownAccounted, BehindCursor,
           Waits
    PROVE  CursorsHeld' /\ RunsAccepted' /\ ShownAccounted' /\ BehindCursor'
<1>1. entries' = entries
  BY DEF Waits, entries
<1>2. /\ Normal'.present = Normal.present /\ Normal'.start = Normal.start
      /\ Normal'.end = Normal.end /\ Normal'.complete = Normal.complete
      /\ Compensation'.present = Compensation.present
  BY DEF Waits, Normal, Compensation, Lanes
<1>3. CursorsHeld'
  <2>1. real \in Int /\ Activated \in Int
    BY ConstantsTyped DEF WorldTyped
  <2>2. Normal'.present => real' > Activated
    BY <1>2, <2>1 DEF CursorsHeld, Waits
  <2>3. \A l \in Lanes : /\ cursor'[l].present => cursor'[l].start < cursor'[l].end
                         /\ cursor'[l].complete => cursor'[l].present
    BY DEF CursorsHeld, Waits
  <2>4. QED
    BY <1>2, <2>2, <2>3 DEF CursorsHeld
<1>4. RunsAccepted'
  <2> SUFFICES ASSUME NEW l \in Lanes
               PROVE  /\ run'[l].status = "RUNNING" =>
                            /\ cursor'[l].present /\ ~cursor'[l].complete
                            /\ cursor'[l].start = run'[l].start /\ cursor'[l].end = run'[l].end
                            /\ cursor'[l].kind = run'[l].kind
                            /\ run'[l].pending # {}
                      /\ run'[l].status = "COMPLETED" => run'[l].pending = {}
                      /\ cursor'[l].present => LaneOf(cursor'[l].kind) = l
    BY DEF RunsAccepted
  <2>1. QED
    BY DEF RunsAccepted, Waits
<1>5. ShownAccounted'
  <2> SUFFICES ASSUME NEW l \in Lanes
               PROVE  /\ run'[l].shown \subseteq visible'
                      /\ run'[l].status = "RUNNING" =>
                            \A e \in run'[l].shown :
                                Within(e, <<run'[l].start, run'[l].end>>) =>
                                    e \in entries' \/ \E w \in run'[l].pending : Within(e, w)
    BY DEF ShownAccounted, Within
  <2>1. run[l].shown \subseteq visible
    BY DEF ShownAccounted
  <2>2. QED
    BY <1>1, <2>1 DEF ShownAccounted, Waits
<1>6. BehindCursor'
  <2> SUFFICES ASSUME Normal'.present, NEW e \in Prompt
               PROVE  /\ OccurredAt[e] =< Normal'.end => e \in visible'
                      /\ run'["NORMAL"].status = "RUNNING"
                         /\ Within(e, <<Normal'.start, Normal'.end>>) =>
                            e \in run'["NORMAL"].shown
                      /\ OccurredAt[e] >= history'.from
                         /\ (IF Normal'.complete THEN OccurredAt[e] =< Normal'.end
                                                 ELSE OccurredAt[e] < Normal'.start)
                         => e \in entries'
    BY DEF BehindCursor, Within
  <2>1. "NORMAL" \in Lanes
    BY DEF Lanes
  <2>2. run'["NORMAL"].status = "RUNNING" => run["NORMAL"].status = "RUNNING"
    BY <2>1 DEF Waits
  <2>3. QED
    BY <1>1, <1>2, <2>1, <2>2 DEF BehindCursor, Waits
<1>7. QED
  BY <1>3, <1>4, <1>5, <1>6

(* On a steady clock a row is written at the time on it, and a sweep that  *)
(* hands over is the last to write.                                        *)
LEMMA OrderKept ==
    ASSUME TablesTyped, WorldTyped, WrittenInOrder, NEW t \in Nat,
           history'.steady =>
              /\ history.steady /\ t =< Local /\ Local' \in Int /\ Local' >= Local
              /\ \A l \in Lanes : /\ cursor'[l].updated \in {cursor[l].updated, t}
                                  /\ run'[l].written \in {run[l].written, t}
              /\ \/ history'.lane # "COMPENSATION"
                 \/ Open(Normal')
                 \/ /\ t >= Local /\ Compensation'.updated = t
                    /\ Normal'.updated = Normal.updated
                 \/ /\ history'.lane = history.lane
                    /\ Normal'.updated = Normal.updated
                    /\ Compensation'.updated >= Compensation.updated
                    /\ Open(Normal) => Open(Normal')
    PROVE  WrittenInOrder'
<1> SUFFICES ASSUME history'.steady
             PROVE  /\ \A l \in Lanes : cursor'[l].updated =< Local' /\ run'[l].written =< Local'
                    /\ history'.lane = "COMPENSATION" /\ ~Open(Normal') =>
                          Normal'.updated =< Compensation'.updated
  BY DEF WrittenInOrder, Open
<1>1. PICK now : now = Local
  OBVIOUS
<1>2. now \in Nat /\ t =< now /\ Local' \in Int /\ Local' >= now
  BY <1>1, LocalTyped
<1>3. ASSUME NEW l \in Lanes PROVE cursor'[l].updated =< Local' /\ run'[l].written =< Local'
  <2>1. cursor[l].updated =< now /\ run[l].written =< now
    BY <1>1 DEF WrittenInOrder
  <2>2. cursor[l].updated \in Nat /\ run[l].written \in Nat
    BY LaneTyped
  <2>3. QED
    BY <1>2, <2>1, <2>2
<1>4. ASSUME history'.lane = "COMPENSATION", ~Open(Normal')
      PROVE  Normal'.updated =< Compensation'.updated
  <2>1. Normal.updated \in Nat /\ Compensation.updated \in Nat
    BY LaneTyped DEF Normal, Compensation, Lanes
  <2>2. Compensation'.updated \in Nat
    <3>1. Compensation'.updated \in {Compensation.updated, t}
      BY DEF Compensation, Lanes
    <3>2. QED
      BY <2>1, <3>1
  <2>3. Normal.updated =< now
    BY <1>1 DEF WrittenInOrder, Normal, Lanes
  <2>4. CASE Compensation'.updated = t /\ t >= Local /\ Normal'.updated = Normal.updated
    BY <1>1, <1>2, <2>1, <2>3, <2>4
  <2>5. CASE /\ history'.lane = history.lane /\ Normal'.updated = Normal.updated
             /\ Compensation'.updated >= Compensation.updated
             /\ Open(Normal) => Open(Normal')
    <3>1. Normal.updated =< Compensation.updated
      BY <1>4, <2>5 DEF WrittenInOrder, Open
    <3>2. QED
      BY <2>1, <2>2, <2>5, <3>1
  <2>6. QED
    BY <1>4, <2>4, <2>5
<1>5. QED
  BY <1>3, <1>4

-----------------------------------------------------------------------------
(* The parts that an answer or an error touches.                           *)

LEMMA ExponentialInt == ASSUME NEW n \in Nat PROVE 2^n \in Int
BY SMTT(30)

LEMMA FailureAccepted ==
    ASSUME SchedulesTyped, NEW retryable \in BOOLEAN, NEW after \in Nat, WriteTime \in Nat
    PROVE  LET f == Failure(retryable, after)
           IN  /\ f \in [until : Int, failures : Nat, updated : Nat]
               /\ f.failures >= 1 /\ f.until >= f.updated
               /\ f.until - f.updated =< MaxDelay
<1>1. PICK n : n = Sooner(MaxFailures, cooldown.failures + 1)
  OBVIOUS
<1>2. PICK base : base = IF retryable THEN RetryBase * 2^(n - 1) ELSE PermanentDelay
  OBVIOUS
<1>3. PICK delay : delay = Sooner(MaxDelay, Later(base, after))
  OBVIOUS
<1>4. PICK now : now = Later(WriteTime, cooldown.updated)
  OBVIOUS
<1>5. Failure(retryable, after) = [until |-> now + delay, failures |-> n, updated |-> now]
  BY <1>1, <1>2, <1>3, <1>4 DEF Failure
<1>6. cooldown.failures \in Nat /\ cooldown.updated \in Nat
  BY DEF SchedulesTyped
<1>7. n \in Nat /\ n >= 1
  BY <1>1, <1>6, ConstantsTyped DEF Sooner
<1>8. base \in Int
  <2>1. n - 1 \in Nat
    BY <1>7
  <2>2. PICK p : p = 2^(n - 1)
    OBVIOUS
  <2>3. p \in Int
    BY <2>1, <2>2, ExponentialInt
  <2>4. RetryBase * p \in Int
    BY <2>3, ConstantsTyped
  <2>5. QED
    BY <1>2, <2>2, <2>4, ConstantsTyped
<1>9. delay \in Nat /\ delay =< MaxDelay
  BY <1>3, <1>8, ConstantsTyped DEF Sooner, Later
<1>10. now \in Nat
  BY <1>4, <1>6 DEF Later
<1>11. QED
  BY <1>5, <1>7, <1>9, <1>10, ConstantsTyped

(* The segment asked for, and the events of an answer.                     *)
LEMMA SegmentTyped ==
    ASSUME TablesTyped, WorldTyped, InFlight, RunsAccepted, svc # Idle
    PROVE  /\ Segment \in Windows /\ Segment \in Run.pending
           /\ Shown(Segment) \in SUBSET Events /\ Shown(Segment) \subseteq visible
           /\ <<Segment, Shown(Segment)>> \in Pages
<1>1. Run.status = "RUNNING" /\ Run = run[Lane] /\ Lane \in Lanes
  BY BatchInFlight
<1>2. Run.pending \subseteq Windows /\ Run.pending # {}
  BY <1>1, LaneTyped, RunningIsOpen
<1>3. Segment \in Run.pending
  BY <1>2, SegmentIsPending
<1>4. Shown(Segment) \subseteq visible /\ visible \subseteq Events
  BY DEF Shown, WorldTyped
<1>5. QED
  BY <1>2, <1>3, <1>4 DEF Pages

(* A page is not the mark of an event without one.                         *)
LEMMA PagesAreNotNone ==
    ASSUME NEW w \in Windows, NEW resp
    PROVE  <<w, resp>> # NoPage
<1>1. PICK a, b \in 0 .. MaxTime : w = <<a, b>> /\ a < b
  BY DEF Windows
<1>2. w # <<0, 0>>
  BY <1>1, ConstantsTyped
<1>3. QED
  BY <1>2 DEF NoPage

LEMMA ObservedKeeps ==
    ASSUME TablesTyped, NEW w \in Windows, NEW resp \in SUBSET Events, Observed(w, resp)
    PROVE  /\ latest' \in [Windows -> Observations]
           /\ latest' = [latest EXCEPT ![w] = [response |-> resp, disposition |-> "PROCESSED"]]
           /\ processed' \subseteq Pages
           /\ processed' = processed \cup {<<w, resp>>}
           /\ latest[w].disposition = "NONE" \/ latest[w].response = resp
<1>1. PICK o : o = [response |-> resp, disposition |-> "PROCESSED"]
  OBVIOUS
<1>2. o \in Observations
  BY <1>1 DEF Observations
<1>3. latest' = [latest EXCEPT ![w] = o] /\ processed' = processed \cup {<<w, resp>>}
  BY <1>1 DEF Observed
<1>4. latest' \in [Windows -> Observations]
  BY <1>2, <1>3 DEF TablesTyped
<1>5. processed' \subseteq Pages
  BY <1>3 DEF TablesTyped, Pages
<1>6. QED
  BY <1>1, <1>3, <1>4, <1>5 DEF Observed

(* What was observed last and processed is among the processed pages.      *)
LatestKept ==
    \A w \in Windows : latest[w].disposition = "PROCESSED" =>
        <<w, latest[w].response>> \in processed

LEMMA LatestObserved ==
    ASSUME TablesTyped, LatestKept, NEW w \in Windows, NEW resp,
           latest' = [latest EXCEPT ![w] = [response |-> resp, disposition |-> "PROCESSED"]],
           processed' = processed \cup {<<w, resp>>}
    PROVE  LatestKept'
<1>1. PICK o : o = [response |-> resp, disposition |-> "PROCESSED"]
  OBVIOUS
<1>2. o.response = resp /\ o.disposition = "PROCESSED"
  BY <1>1
<1>3. \A v \in Windows : latest'[v] = IF v = w THEN o ELSE latest[v]
  BY <1>1 DEF TablesTyped
<1>4. ASSUME NEW v \in Windows, latest'[v].disposition = "PROCESSED"
      PROVE  <<v, latest'[v].response>> \in processed'
  BY <1>2, <1>3, <1>4 DEF LatestKept
<1>5. QED
  BY <1>4 DEF LatestKept

(* An oversized page leaves the ledger as it is.                           *)
LEMMA OversizedKeeps ==
    ASSUME TablesTyped, EvidenceKept, NEW w \in Windows, NEW resp \in SUBSET Events,
           Observed(w, resp), Oversized(resp), stored' = stored, origin' = origin
    PROVE  EvidenceKept'
<1>1. /\ latest' = [latest EXCEPT ![w] = [response |-> resp, disposition |-> "PROCESSED"]]
      /\ processed' = processed \cup {<<w, resp>>}
  BY ObservedKeeps
<1>2. entries' = entries
  BY DEF entries
<1>3. LatestKept'
  BY <1>1, LatestObserved DEF EvidenceKept, LatestKept
<1>4. \A page \in processed' : Oversized(page[2]) \/ page \in stored'
  BY <1>1 DEF EvidenceKept, PagesAccepted
<1>5. stored' \subseteq processed' /\ \A e \in entries' : origin'[e] \in stored'
  BY <1>1, <1>2 DEF EvidenceKept, PagesAccepted
<1>6. PagesAccepted'
  BY <1>4, <1>5 DEF PagesAccepted, Oversized
<1>7. \A page \in stored' : page[2] \subseteq entries'
  BY <1>2 DEF EvidenceKept
<1>8. QED
  BY <1>3, <1>6, <1>7 DEF EvidenceKept, LatestKept

(* A page that is accepted is stored and its events are in the ledger, now *)
(* or since it was first processed.                                        *)
LEMMA AcceptedPageKept ==
    ASSUME TablesTyped, EvidenceKept, NEW w \in Windows, NEW resp \in SUBSET Events,
           Observed(w, resp), ~Oversized(resp),
           stored' = IF Normalises(w, resp) THEN stored \cup {<<w, resp>>} ELSE stored,
           origin' = Normalised(w, resp)
    PROVE  /\ origin' \in [Events -> Pages \cup {NoPage}] /\ stored' \subseteq Pages
           /\ entries \subseteq entries' /\ resp \subseteq entries'
           /\ EvidenceKept'
<1>1. /\ latest' = [latest EXCEPT ![w] = [response |-> resp, disposition |-> "PROCESSED"]]
      /\ processed' = processed \cup {<<w, resp>>}
      /\ latest[w].disposition = "NONE" \/ latest[w].response = resp
  BY ObservedKeeps
<1>2. PICK page : page = <<w, resp>>
  OBVIOUS
<1>3. page \in Pages /\ page # NoPage /\ page[2] = resp
  BY <1>2, PagesAreNotNone DEF Pages
<1>4. LatestKept'
  BY <1>1, LatestObserved DEF EvidenceKept, LatestKept
<1>5. CASE Normalises(w, resp)
  <2>1. stored' = stored \cup {page}
    BY <1>2, <1>5
  <2>2. PICK f : f = [e \in Events |-> IF e \in resp \ entries THEN page ELSE origin[e]]
    OBVIOUS
  <2>3. origin' = f
    BY <1>2, <1>5, <2>2 DEF Normalised
  <2>4. \A e \in Events : origin'[e] = IF e \in resp \ entries THEN page ELSE origin[e]
    BY <2>2, <2>3
  <2>5. origin' \in [Events -> Pages \cup {NoPage}]
    <3>1. \A e \in Events : origin'[e] \in Pages \cup {NoPage}
      BY <1>3, <2>4 DEF TablesTyped
    <3>2. QED
      BY <2>2, <2>3, <3>1
  <2>6. entries' = entries \cup resp
    BY <1>3, <2>4 DEF entries
  <2>7. \A q \in processed' : Oversized(q[2]) \/ q \in stored'
    BY <1>1, <1>2, <2>1 DEF EvidenceKept, PagesAccepted
  <2>8. stored' \subseteq processed'
    BY <1>1, <1>2, <2>1 DEF EvidenceKept, PagesAccepted
  <2>9. \A e \in entries' : origin'[e] \in stored'
    BY <2>1, <2>4, <2>6 DEF EvidenceKept, PagesAccepted, entries
  <2>10. \A q \in stored' : q[2] \subseteq entries'
    BY <1>3, <2>1, <2>6 DEF EvidenceKept
  <2>11. PagesAccepted'
    BY <2>7, <2>8, <2>9 DEF PagesAccepted, Oversized
  <2>12. EvidenceKept'
    BY <1>4, <2>10, <2>11 DEF EvidenceKept, LatestKept
  <2>13. stored' \subseteq Pages
    BY <1>3, <2>1 DEF TablesTyped
  <2>14. QED
    BY <2>5, <2>6, <2>12, <2>13
<1>6. CASE ~Normalises(w, resp)
  <2>1. stored' = stored /\ origin' = origin
    BY <1>6 DEF Normalised
  <2>2. entries' = entries
    BY <2>1 DEF entries
  <2>3. page \in processed
    <3>1. latest[w] \in Observations
      BY DEF TablesTyped
    <3>2. latest[w].disposition \in {"NONE", "REJECTED", "PROCESSED"}
      BY <3>1 DEF Observations
    <3>3. QED
      BY <1>1, <1>2, <1>6, <3>2 DEF Normalises, EvidenceKept
  <2>4. page \in stored
    BY <1>3, <2>3 DEF EvidenceKept, PagesAccepted
  <2>5. resp \subseteq entries
    BY <1>3, <2>4 DEF EvidenceKept
  <2>6. processed' = processed
    BY <1>1, <1>2, <2>3
  <2>7. PagesAccepted'
    <3>1. \A q \in processed' : Oversized(q[2]) \/ q \in stored'
      BY <2>1, <2>6 DEF EvidenceKept, PagesAccepted
    <3>2. stored' \subseteq processed' /\ \A e \in entries' : origin'[e] \in stored'
      BY <2>1, <2>2, <2>6 DEF EvidenceKept, PagesAccepted
    <3>3. QED
      BY <3>1, <3>2 DEF PagesAccepted, Oversized
  <2>8. EvidenceKept'
    <3>1. \A q \in stored' : q[2] \subseteq entries'
      BY <2>1, <2>2 DEF EvidenceKept
    <3>2. QED
      BY <1>4, <2>7, <3>1 DEF EvidenceKept, LatestKept
  <2>9. origin' \in [Events -> Pages \cup {NoPage}] /\ stored' \subseteq Pages
    BY <2>1 DEF TablesTyped
  <2>10. QED
    BY <2>2, <2>5, <2>8, <2>9
<1>7. QED
  BY <1>5, <1>6

-----------------------------------------------------------------------------
(* Begin.                                                                  *)

LEMMA NeverRefused ==
    ASSUME RunsAccepted, NEW w, ChosenWell(w)
    PROVE  ~Refused(w, EffectiveOverlap(cursor[LaneOf(w.kind)]))
<1>1. PICK l : l = LaneOf(w.kind)
  OBVIOUS
<1>2. l \in Lanes
  BY <1>1 DEF LaneOf, Lanes
<1>3. PICK c, r : c = cursor[l] /\ r = run[l]
  OBVIOUS
<1>4. PICK o : o = EffectiveOverlap(c)
  OBVIOUS
<1>5. r.status = "RUNNING" => /\ Open(c) /\ c.start = r.start /\ c.end = r.end
                              /\ c.kind = r.kind
  BY <1>2, <1>3, RunningIsOpen
<1>6. Open(c) => o = c.overlap
  BY <1>4 DEF EffectiveOverlap, Open
<1>7. Open(c) => w.start = c.start /\ w.end = c.end /\ w.kind = c.kind
  BY <1>1, <1>3 DEF ChosenWell, Resumed, MovesOn
<1>8. Refused(w, o) =
         (\/ /\ r.status = "RUNNING"
             /\ \/ r.start # w.start \/ r.end # w.end \/ r.kind # w.kind
                \/ ~c.present \/ c.start # w.start \/ c.end # w.end
                \/ c.kind # r.kind \/ c.overlap # o \/ c.complete
          \/ /\ r.status # "RUNNING" /\ c.present /\ ~c.complete
             /\ c.start # w.start \/ c.end # w.end \/ c.overlap # o)
  BY <1>1, <1>3 DEF Refused
<1>9. ~Refused(w, o)
  BY <1>5, <1>6, <1>7, <1>8 DEF Open
<1>10. QED
  BY <1>1, <1>3, <1>4, <1>9

LEMMA OpenedTyped ==
    ASSUME NEW k \in ScanKinds, NEW a \in Seconds, NEW b \in Seconds, NEW z \in Int,
           NEW o \in Nat, NEW t \in Nat
    PROVE  [present |-> TRUE, start |-> a, end |-> b, kind |-> k,
            overlap |-> o, complete |-> FALSE, lastEvent |-> z, updated |-> t] \in Cursors
BY DEF Cursors

(* The row of a lane whose scan begins, and its run.                       *)
Opens(w, l, c, r, t) ==
    /\ c \in Cursors /\ Open(c) /\ c.start = w.start /\ c.end = w.end /\ c.kind = w.kind
    /\ r \in Runs /\ r.status = "RUNNING" /\ r.start = w.start /\ r.end = w.end
    /\ r.kind = w.kind
    /\ c.updated \in {cursor[l].updated, t} /\ r.written \in {run[l].written, t}
    /\ Open(cursor[l]) \/ r.shown = visible
    /\ \/ r = run[l] /\ Open(cursor[l])
       \/ r.pending = {<<w.start, w.end>>} /\ r.shown = visible

LEMMA LaneOpens ==
    ASSUME TablesTyped, WorldTyped, RunsAccepted, NEW w, ChosenWell(w), NEW o \in Nat,
           NEW l, l = LaneOf(w.kind),
           NEW c, c = IF Open(cursor[l]) THEN cursor[l] ELSE OpenedCursor(cursor[l], w, o),
           NEW r, r = IF run[l].status = "RUNNING" THEN run[l] ELSE OpenedRun(cursor[l], w),
           NEW t, t = Later(Local, cursor[l].updated)
    PROVE  Opens(w, l, c, r, t)
<1>1. l \in Lanes
  BY DEF LaneOf, Lanes
<1>2. PICK c0, r0 : c0 = cursor[l] /\ r0 = run[l]
  OBVIOUS
<1>3. t \in Nat
  BY <1>1, LaneTyped, LocalTyped DEF Later
<1>4. w.kind \in ScanKinds /\ w.start \in Seconds /\ w.end \in Seconds /\ w.start < w.end
  BY DEF ChosenWell
<1>5. Open(c0) => w.start = c0.start /\ w.end = c0.end /\ w.kind = c0.kind
  BY <1>2 DEF ChosenWell, Resumed, MovesOn
<1>6. /\ c0 \in Cursors /\ c0.lastEvent \in Int /\ r0 \in Runs
      /\ r0.status \in {"NONE", "RUNNING", "COMPLETED", "FAILED"}
      /\ c0.kind \in ScanKinds
  BY <1>1, <1>2, LaneTyped
<1>7. r0.status = "RUNNING" => /\ Open(c0) /\ c0.start = r0.start /\ c0.end = r0.end
                               /\ c0.kind = r0.kind
  BY <1>1, <1>2, RunningIsOpen
<1>8. /\ c \in Cursors /\ Open(c) /\ c.start = w.start /\ c.end = w.end /\ c.kind = w.kind
      /\ c.updated \in {c0.updated, t}
  <2>1. CASE Open(c0)
    BY <1>2, <1>5, <1>6, <2>1
  <2>2. CASE ~Open(c0)
    <3>1. c = [present |-> TRUE, start |-> w.start, end |-> w.end, kind |-> w.kind,
               overlap |-> o, complete |-> FALSE, lastEvent |-> c0.lastEvent,
               updated |-> t]
      BY <1>2, <2>2 DEF OpenedCursor
    <3>2. c \in Cursors
      BY <1>3, <1>4, <1>6, <3>1, OpenedTyped
    <3>3. QED
      BY <3>1, <3>2 DEF Open
  <2>3. QED
    BY <2>1, <2>2
<1>9. CASE r0.status = "RUNNING"
  BY <1>2, <1>5, <1>6, <1>7, <1>8, <1>9 DEF Opens
<1>10. CASE r0.status # "RUNNING"
  <2>1. PICK k : k = IF Open(c0) THEN c0.kind ELSE w.kind
    OBVIOUS
  <2>2. k = w.kind
    BY <1>5, <2>1
  <2>3. r = [status |-> "RUNNING", start |-> w.start, end |-> w.end, kind |-> k,
             pending |-> {<<w.start, w.end>>}, written |-> t,
             shown |-> visible, reached |-> -1]
    BY <1>2, <1>10, <2>1 DEF OpenedRun, Open
  <2>4. <<w.start, w.end>> \in Windows
    BY <1>4 DEF Windows, Seconds
  <2>5. r \in Runs
    BY <1>3, <1>4, <2>2, <2>3, <2>4 DEF Runs, WorldTyped
  <2>6. /\ r.status = "RUNNING" /\ r.start = w.start /\ r.end = w.end /\ r.kind = w.kind
        /\ r.pending = {<<w.start, w.end>>} /\ r.written = t /\ r.shown = visible
    BY <2>2, <2>3
  <2>7. QED
    BY <1>2, <1>8, <2>5, <2>6 DEF Opens
<1>11. QED
  BY <1>9, <1>10

Begun(w, l, c, r, t) ==
    /\ w = ChooseWindow /\ ChosenWell(w) /\ l = LaneOf(w.kind) /\ l \in Lanes
    /\ Opens(w, l, c, r, t)
    /\ t \in Nat /\ t = Later(Local, cursor[l].updated)
    /\ svc = Idle /\ svc' = [kind |-> w.kind, left |-> Budget(w.kind)]
    /\ cursor' = [cursor EXCEPT ![l] = c] /\ run' = [run EXCEPT ![l] = r]
    /\ history' = IF Normal.present THEN history
                  ELSE [history EXCEPT !.from = w.start]

LEMMA BeginShape ==
    ASSUME GInv, Begin
    PROVE  \E w, l, c, r, t : Begun(w, l, c, r, t)
<1> USE DEF GInv
<1>1. PICK w : w = ChooseWindow
  OBVIOUS
<1>2. PICK l : l = LaneOf(w.kind)
  OBVIOUS
<1>3. PICK o : o = EffectiveOverlap(cursor[l])
  OBVIOUS
<1>4. w # NoChoice
  BY <1>1 DEF Begin
<1>5. ChosenWell(w)
  BY <1>1, <1>4, ChosenWindow
<1>6. ~Refused(w, o)
  BY <1>2, <1>3, <1>5, NeverRefused
<1>7. /\ svc = Idle /\ svc' = [kind |-> w.kind, left |-> Budget(w.kind)]
      /\ run' = IF run[l].status = "RUNNING" THEN run
                ELSE [run EXCEPT ![l] = OpenedRun(cursor[l], w)]
      /\ cursor' = IF cursor[l].present /\ ~cursor[l].complete THEN cursor
                   ELSE [cursor EXCEPT ![l] = OpenedCursor(cursor[l], w, o)]
      /\ history' = IF Normal.present THEN history
                    ELSE [history EXCEPT !.from = w.start]
  BY <1>1, <1>2, <1>3, <1>6 DEF Begin
<1>8. l \in Lanes
  BY <1>2 DEF LaneOf, Lanes
<1>9. PICK c, r, t :
        /\ c = (IF Open(cursor[l]) THEN cursor[l] ELSE OpenedCursor(cursor[l], w, o))
        /\ r = (IF run[l].status = "RUNNING" THEN run[l] ELSE OpenedRun(cursor[l], w))
        /\ t = Later(Local, cursor[l].updated)
  OBVIOUS
<1>10. o \in Nat
  BY <1>3, <1>8, LaneTyped DEF EffectiveOverlap, WorldTyped
<1>11. Opens(w, l, c, r, t)
  BY <1>2, <1>5, <1>9, <1>10, LaneOpens
<1>12. cursor' = [cursor EXCEPT ![l] = c]
  <2>1. cursor \in [Lanes -> Cursors]
    BY DEF TablesTyped
  <2>2. QED
    BY <1>7, <1>8, <1>9, <2>1 DEF Open
<1>13. run' = [run EXCEPT ![l] = r]
  <2>1. run \in [Lanes -> Runs]
    BY DEF TablesTyped
  <2>2. QED
    BY <1>7, <1>8, <1>9, <2>1
<1>14. t \in Nat
  BY <1>8, <1>9, LaneTyped, LocalTyped DEF Later
<1>15. Begun(w, l, c, r, t)
  BY <1>1, <1>2, <1>5, <1>7, <1>8, <1>9, <1>11, <1>12, <1>13, <1>14 DEF Begun
<1>16. QED
  BY <1>15

LEMMA BegunKeeps ==
    ASSUME GInv, NEW w, NEW l, NEW c, NEW r, NEW t, Begun(w, l, c, r, t),
           UNCHANGED <<world, evidence, sweeps, cooldown>>
    PROVE  GInv'
<1>1. /\ cursor' \in [Lanes -> Cursors] /\ run' \in [Lanes -> Runs]
      /\ \A k \in Lanes : /\ cursor'[k] = IF k = l THEN c ELSE cursor[k]
                          /\ run'[k] = IF k = l THEN r ELSE run[k]
  <2>1. cursor \in [Lanes -> Cursors] /\ run \in [Lanes -> Runs] /\ c \in Cursors /\ r \in Runs
    BY DEF GInv, TablesTyped, Begun, Opens
  <2>2. cursor' = [cursor EXCEPT ![l] = c] /\ run' = [run EXCEPT ![l] = r] /\ l \in Lanes
    BY DEF Begun
  <2>3. QED
    BY <2>1, <2>2
<1>2. /\ real' = real /\ skew' = skew /\ visible' = visible /\ overlap' = overlap
      /\ latest' = latest /\ processed' = processed /\ stored' = stored /\ origin' = origin
      /\ due' = due /\ dueUpdated' = dueUpdated /\ cooldown' = cooldown
  BY DEF world, evidence, sweeps
<1>3. /\ l \in Lanes /\ l = LaneOf(w.kind) /\ ChosenWell(w)
      /\ Open(c) /\ c.start = w.start /\ c.end = w.end /\ c.kind = w.kind
      /\ r.status = "RUNNING" /\ r.start = w.start /\ r.end = w.end /\ r.kind = w.kind
      /\ \/ r = run[l] /\ Open(cursor[l])
         \/ r.pending = {<<w.start, w.end>>} /\ r.shown = visible
  BY DEF Begun, Opens
<1>4. /\ w.kind \in ScanKinds /\ w.start \in Nat /\ w.end \in Nat /\ w.start < w.end
      /\ w.kind # 0 => Normal.present
      /\ Resumed(w) \/ MovesOn(w)
  BY <1>3, ConstantsTyped DEF ChosenWell, Seconds
<1>5. real \in Nat /\ SafeTail \in Int /\ SafeTail =< real - Lag /\ Lag \in Nat /\ Activated \in Nat
  BY LocalTyped, ConstantsTyped DEF GInv, WorldTyped
<1>6. "NORMAL" \in Lanes /\ "COMPENSATION" \in Lanes
  BY DEF Lanes
<1>7. /\ l = "NORMAL" <=> w.kind = 0
      /\ Normal' = IF w.kind = 0 THEN c ELSE Normal
      /\ Compensation' = IF w.kind # 0 THEN c ELSE Compensation
      /\ run'["NORMAL"] = IF w.kind = 0 THEN r ELSE run["NORMAL"]
  BY <1>1, <1>3, <1>6, LanesOfKinds DEF Normal, Compensation, LaneOf
<1>8. /\ history' \in [lane : Lanes \cup {"none"}, refused : BOOLEAN, from : Nat, steady : BOOLEAN]
      /\ history'.lane = history.lane /\ history'.refused = history.refused
      /\ history'.steady = history.steady
      /\ history'.from = IF Normal.present THEN history.from ELSE w.start
  <2>1. history \in [lane : Lanes \cup {"none"}, refused : BOOLEAN, from : Nat, steady : BOOLEAN]
    BY DEF GInv, WorldTyped
  <2>2. PICK n : n = w.start
    OBVIOUS
  <2>3. n \in Nat /\ history' = IF Normal.present THEN history ELSE [history EXCEPT !.from = n]
    BY <1>4, <2>2 DEF Begun
  <2>4. QED
    BY <2>1, <2>2, <2>3
<1>9. entries' = entries
  BY <1>2 DEF entries
<1>10. TablesTyped'
  BY <1>1, <1>2 DEF GInv, TablesTyped
<1>11. WorldTyped'
  BY <1>2, <1>8 DEF GInv, WorldTyped
<1>12. SchedulesTyped' /\ SweepsAccepted' /\ CooldownAccepted' /\ StartNeverRefused'
  BY <1>2, <1>8 DEF GInv, SchedulesTyped, SweepsAccepted, CooldownAccepted, StartNeverRefused
<1>13. InFlight'
  <2>1. svc' = [kind |-> w.kind, left |-> Budget(w.kind)]
    BY DEF Begun
  <2>2. Budget(w.kind) \in Nat
    BY ConstantsTyped DEF Budget
  <2>3. svc' \in [kind : ScanKinds, left : Nat] /\ svc'.kind = w.kind
    <3>1. PICK k, b : k = w.kind /\ b = Budget(w.kind)
      OBVIOUS
    <3>2. QED
      BY <1>4, <2>1, <2>2, <3>1
  <2>4. run'[l].status = "RUNNING"
    BY <1>1, <1>3
  <2>5. run'[LaneOf(svc'.kind)].status = "RUNNING"
    BY <1>3, <2>3, <2>4
  <2>6. QED
    BY <2>3, <2>5 DEF InFlight, LaneOf
(* The first window begins after the activation.                           *)
<1>14. w.kind = 0 => real > Activated
  <2> SUFFICES ASSUME w.kind = 0 PROVE real > Activated
    OBVIOUS
  <2>1. CASE Normal.present
    BY <2>1 DEF GInv, CursorsHeld
  <2>2. CASE ~Normal.present
    <3>1. MovesOn(w)
      BY <1>3, <1>4, <1>7, <2>2 DEF Resumed, Open, Normal
    <3>2. w.start >= Activated /\ w.end =< SafeTail
      BY <2>2, <3>1 DEF MovesOn
    <3>3. QED
      BY <1>4, <1>5, <3>2
  <2>3. QED
    BY <2>1, <2>2
<1>15. CursorsHeld'
  <2>1. \A k \in Lanes : /\ cursor'[k].present => cursor'[k].start < cursor'[k].end
                         /\ cursor'[k].complete => cursor'[k].present
    BY <1>1, <1>3, <1>4 DEF GInv, CursorsHeld, Open
  <2>2. Compensation'.present => Normal'.present
    BY <1>3, <1>4, <1>7 DEF GInv, CursorsHeld, Open
  <2>3. Normal'.present => real' > Activated
    BY <1>2, <1>7, <1>14 DEF GInv, CursorsHeld
  <2>4. QED
    BY <2>1, <2>2, <2>3 DEF CursorsHeld
<1>16. RunsAccepted'
  <2> SUFFICES ASSUME NEW k \in Lanes
               PROVE  /\ run'[k].status = "RUNNING" =>
                            /\ cursor'[k].present /\ ~cursor'[k].complete
                            /\ cursor'[k].start = run'[k].start /\ cursor'[k].end = run'[k].end
                            /\ cursor'[k].kind = run'[k].kind
                            /\ run'[k].pending # {}
                      /\ run'[k].status = "COMPLETED" => run'[k].pending = {}
                      /\ cursor'[k].present => LaneOf(cursor'[k].kind) = k
    BY DEF RunsAccepted
  <2>1. CASE k = l
    <3>1. r.pending # {}
      <4>1. CASE r = run[l] /\ Open(cursor[l])
        BY <1>3, <4>1, RunningIsOpen DEF GInv
      <4>2. CASE r.pending = {<<w.start, w.end>>}
        BY <4>2
      <4>3. QED
        BY <1>3, <4>1, <4>2
    <3>2. QED
      BY <1>1, <1>3, <2>1, <3>1 DEF Open
  <2>2. CASE k # l
    BY <1>1, <2>2 DEF GInv, RunsAccepted
  <2>3. QED
    BY <2>1, <2>2
<1>17. EvidenceKept'
  <2>1. PagesAccepted'
    BY <1>2, <1>9 DEF GInv, EvidenceKept, PagesAccepted, Oversized
  <2>2. QED
    BY <1>2, <1>9, <2>1 DEF GInv, EvidenceKept
<1>18. ShownAccounted'
  <2> SUFFICES ASSUME NEW k \in Lanes
               PROVE  /\ run'[k].shown \subseteq visible'
                      /\ run'[k].status = "RUNNING" =>
                            \A e \in run'[k].shown :
                                Within(e, <<run'[k].start, run'[k].end>>) =>
                                    e \in entries' \/ \E v \in run'[k].pending : Within(e, v)
    BY DEF ShownAccounted, Within
  <2>1. CASE run'[k] = run[k]
    BY <1>2, <1>9, <2>1 DEF GInv, ShownAccounted
  <2>2. CASE run'[k] # run[k]
    <3>1. k = l /\ run'[k] = r /\ r.pending = {<<w.start, w.end>>} /\ r.shown = visible
      BY <1>1, <1>3, <2>2
    <3>2. QED
      BY <1>2, <1>3, <3>1
  <2>3. QED
    BY <2>1, <2>2
<1>19. PromptSeen'
  BY <1>2 DEF GInv, PromptSeen
<1>20. BehindCursor'
  <2> SUFFICES ASSUME Normal'.present, NEW e \in Prompt
               PROVE  /\ OccurredAt[e] =< Normal'.end => e \in visible'
                      /\ run'["NORMAL"].status = "RUNNING"
                         /\ Within(e, <<Normal'.start, Normal'.end>>) =>
                            e \in run'["NORMAL"].shown
                      /\ OccurredAt[e] >= history'.from
                         /\ (IF Normal'.complete THEN OccurredAt[e] =< Normal'.end
                                                 ELSE OccurredAt[e] < Normal'.start)
                         => e \in entries'
    BY DEF BehindCursor, Within
  <2>1. OccurredAt[e] \in Nat
    BY EventsAssumption
  <2>2. CASE w.kind # 0
    <3>1. Normal' = Normal /\ Normal.present /\ run'["NORMAL"] = run["NORMAL"]
          /\ history'.from = history.from
      BY <1>4, <1>7, <1>8, <2>2
    <3>2. QED
      BY <1>2, <1>9, <3>1 DEF GInv, BehindCursor
  <2>3. CASE w.kind = 0
    <3>1. /\ Normal' = c /\ run'["NORMAL"] = r /\ ~c.complete /\ l = "NORMAL"
          /\ cursor[l] = Normal
      BY <1>3, <1>7, <2>3 DEF Open, Normal
    <3>2. OccurredAt[e] =< w.end => e \in visible
      <4>1. CASE Resumed(w)
        <5>1. Normal.present /\ w.end = Normal.end
          BY <1>3, <3>1, <4>1 DEF Resumed, Open
        <5>2. QED
          BY <5>1 DEF GInv, BehindCursor
      <4>2. CASE MovesOn(w)
        <5>1. w.end =< SafeTail /\ real > Activated
          BY <1>14, <2>3, <4>2 DEF MovesOn
        <5>2. e \notin visible => real < OccurredAt[e] + Lag
          BY <5>1 DEF GInv, PromptSeen
        <5>3. QED
          BY <1>4, <1>5, <2>1, <5>1, <5>2
      <4>3. QED
        BY <1>4, <4>1, <4>2
    <3>3. Within(e, <<w.start, w.end>>) => e \in r.shown
      <4>1. CASE r.shown = visible
        BY <3>2, <4>1 DEF Within
      <4>2. CASE r = run[l] /\ Open(cursor[l])
        <5>1. /\ run["NORMAL"].status = "RUNNING" /\ Normal.present
              /\ Normal.start = w.start /\ Normal.end = w.end
          BY <1>3, <3>1, <4>2, RunningIsOpen DEF GInv, Open
        <5>2. QED
          BY <3>1, <4>2, <5>1 DEF GInv, BehindCursor
      <4>3. QED
        BY <1>3, <4>1, <4>2
    <3>4. ASSUME OccurredAt[e] >= history'.from, OccurredAt[e] < w.start PROVE e \in entries
      <4>1. CASE ~Normal.present
        BY <1>4, <1>8, <2>1, <3>4, <4>1
      <4>2. CASE Normal.present /\ Resumed(w)
        <5>1. ~Normal.complete /\ w.start = Normal.start /\ history'.from = history.from
          BY <1>3, <1>8, <3>1, <4>2 DEF Resumed, Open
        <5>2. QED
          BY <3>4, <4>2, <5>1 DEF GInv, BehindCursor
      <4>3. CASE Normal.present /\ MovesOn(w)
        <5>1. Normal.complete /\ w.start =< Normal.end /\ history'.from = history.from
          BY <1>3, <1>8, <2>3, <3>1, <4>3, LaneTyped, <1>6 DEF MovesOn, Open, GInv
        <5>2. Normal.end \in Nat
          BY <1>6, LaneTyped DEF GInv, Normal
        <5>3. OccurredAt[e] =< Normal.end
          BY <1>4, <2>1, <3>4, <5>1, <5>2
        <5>4. QED
          BY <3>4, <4>3, <5>1, <5>3 DEF GInv, BehindCursor
      <4>4. QED
        BY <1>4, <4>1, <4>2, <4>3
    <3>5. QED
      BY <1>2, <1>3, <1>9, <3>1, <3>2, <3>3, <3>4
  <2>4. QED
    BY <2>2, <2>3
<1>21. WrittenInOrder'
  <2>1. t \in Nat /\ t = Later(Local, cursor[l].updated)
    BY DEF Begun
  <2>2. /\ Local \in Nat /\ Local' = Local /\ cursor[l].updated \in Nat
    BY <1>2, <1>3, LocalTyped, LaneTyped DEF GInv, Local
  <2>3. history.steady => t =< Local
    BY <1>3, <2>1, <2>2 DEF GInv, WrittenInOrder, Later
  <2>4. c.updated \in {cursor[l].updated, t} /\ r.written \in {run[l].written, t}
    BY DEF Begun, Opens
  <2>5. \A k \in Lanes : /\ cursor'[k].updated \in {cursor[k].updated, t}
                         /\ run'[k].written \in {run[k].written, t}
    BY <1>1, <2>4
  <2>6. \/ Open(Normal')
        \/ /\ history'.lane = history.lane
           /\ Normal'.updated = Normal.updated
           /\ Compensation'.updated >= Compensation.updated
           /\ Open(Normal) => Open(Normal')
    <3>1. CASE w.kind = 0
      BY <1>3, <1>7, <3>1
    <3>2. CASE w.kind # 0
      <4>1. l = "COMPENSATION" /\ Compensation = cursor[l] /\ Compensation' = c
        BY <1>3, <1>7, <3>2 DEF Compensation, LaneOf
      <4>2. c.updated >= cursor[l].updated
        BY <2>1, <2>2, <2>4 DEF Later
      <4>3. QED
        BY <1>7, <1>8, <3>2, <4>1, <4>2
    <3>3. QED
      BY <3>1, <3>2
  <2>7. QED
    BY <1>8, <2>1, <2>2, <2>3, <2>5, <2>6, OrderKept DEF GInv
<1>22. QED
  BY <1>10, <1>11, <1>12, <1>13, <1>15, <1>16, <1>17, <1>18, <1>19, <1>20, <1>21 DEF GInv

LEMMA BeginKeeps == ASSUME GInv, Begin PROVE GInv'
<1>1. PICK w, l, c, r, t : Begun(w, l, c, r, t)
  BY BeginShape
<1>2. UNCHANGED <<world, evidence, sweeps, cooldown>>
  BY DEF Begin
<1>3. QED
  BY <1>1, <1>2, BegunKeeps

-----------------------------------------------------------------------------
(* A batch that ends without having completed its window.                  *)

LEMMA HandedOver ==
    ASSUME TablesTyped, WorldTyped, InFlight, RunsAccepted, svc # Idle, BatchEnds
    PROVE  /\ history' \in [lane : Lanes \cup {"none"}, refused : BOOLEAN,
                            from : Nat, steady : BOOLEAN]
           /\ history'.lane = Lane /\ history'.refused = history.refused
           /\ history'.from = history.from /\ history'.steady = history.steady
           /\ svc' = Idle
<1>1. PICK l : l = Lane
  OBVIOUS
<1>2. l \in Lanes /\ history' = [history EXCEPT !.lane = l] /\ svc' = Idle
  BY <1>1, BatchInFlight DEF BatchEnds
<1>3. QED
  BY <1>1, <1>2 DEF WorldTyped

LEMMA EvidenceUnchanged ==
    ASSUME EvidenceKept, UNCHANGED evidence
    PROVE  EvidenceKept'
<1>1. latest' = latest /\ processed' = processed /\ stored' = stored /\ origin' = origin
  BY DEF evidence
<1>2. entries' = entries
  BY <1>1 DEF entries
<1>3. PagesAccepted'
  BY <1>1, <1>2 DEF EvidenceKept, PagesAccepted, Oversized
<1>4. QED
  BY <1>1, <1>2, <1>3 DEF EvidenceKept

LEMMA SchedulesUnchanged ==
    ASSUME SchedulesTyped, SweepsAccepted, CooldownAccepted, UNCHANGED <<sweeps, cooldown>>
    PROVE  SchedulesTyped' /\ SweepsAccepted' /\ CooldownAccepted'
BY DEF SchedulesTyped, SweepsAccepted, CooldownAccepted, sweeps

LEMMA ScheduleAfterFailure ==
    ASSUME SchedulesTyped, SweepsAccepted, UNCHANGED sweeps, WriteTime \in Nat,
           NEW retryable \in BOOLEAN, NEW after \in Nat, cooldown' = Failure(retryable, after)
    PROVE  SchedulesTyped' /\ SweepsAccepted' /\ CooldownAccepted'
<1>1. PICK f : f = Failure(retryable, after)
  OBVIOUS
<1>2. /\ f \in [until : Int, failures : Nat, updated : Nat]
      /\ f.failures >= 1 /\ f.until >= f.updated
      /\ f.until - f.updated =< MaxDelay
  BY <1>1, FailureAccepted
<1>3. cooldown' = f /\ due' = due /\ dueUpdated' = dueUpdated
  BY <1>1 DEF sweeps
<1>4. QED
  BY <1>2, <1>3 DEF SchedulesTyped, SweepsAccepted, CooldownAccepted

LEMMA ScheduleCleared ==
    ASSUME SchedulesTyped, SweepsAccepted, UNCHANGED sweeps, cooldown' = NoCooldown
    PROVE  SchedulesTyped' /\ SweepsAccepted' /\ CooldownAccepted'
BY DEF SchedulesTyped, SweepsAccepted, CooldownAccepted, sweeps, NoCooldown

(* All that a batch that hands over leaves as it was.                      *)
BatchParts ==
    /\ cursor \in [Lanes -> Cursors] /\ run \in [Lanes -> Runs]
    /\ WorldTyped /\ InFlight /\ CursorsHeld /\ RunsAccepted
    /\ ShownAccounted /\ PromptSeen /\ BehindCursor /\ WrittenInOrder /\ StartNeverRefused

LEMMA HandoverKeeps ==
    ASSUME GInv, svc # Idle, cursor' = Yielded, BatchEnds,
           \/ run' = run
           \/ run' = [run EXCEPT ![Lane].status = "FAILED"],
           UNCHANGED world, origin' = origin
    PROVE  BatchParts'
<1> USE DEF GInv
<1>1. real' = real /\ skew' = skew /\ visible' = visible /\ overlap' = overlap
  BY DEF world
<1>2. Lane \in Lanes /\ WriteTime \in Nat /\ WriteTime >= Local
      /\ (history.steady => WriteTime =< Local)
  BY BatchInFlight
<1>3. /\ run' \in [Lanes -> Runs]
      /\ \A l \in Lanes :
            /\ run'[l].start = run[l].start /\ run'[l].end = run[l].end
            /\ run'[l].kind = run[l].kind /\ run'[l].pending = run[l].pending
            /\ run'[l].shown = run[l].shown /\ run'[l].written = run[l].written
            /\ run'[l].status = run[l].status \/ run'[l].status = "FAILED"
  <2>1. CASE run' = run
    BY <2>1 DEF TablesTyped
  <2>2. CASE run' = [run EXCEPT ![Lane].status = "FAILED"]
    <3>1. PICK n : n = [run EXCEPT ![Lane].status = "FAILED"]
      OBVIOUS
    <3>2. /\ n \in [Lanes -> Runs]
          /\ \A l \in Lanes :
                /\ n[l].start = run[l].start /\ n[l].end = run[l].end
                /\ n[l].kind = run[l].kind /\ n[l].pending = run[l].pending
                /\ n[l].shown = run[l].shown /\ n[l].written = run[l].written
                /\ n[l].status = IF l = Lane THEN "FAILED" ELSE run[l].status
      BY <1>2, <3>1, RunFails
    <3>3. run' = n
      BY <2>2, <3>1
    <3>4. QED
      BY <3>2, <3>3
  <2>3. QED
    BY <2>1, <2>2
<1>4. /\ cursor' \in [Lanes -> Cursors]
      /\ \A l \in Lanes :
            /\ cursor'[l].present = cursor[l].present
            /\ cursor'[l].start = cursor[l].start /\ cursor'[l].end = cursor[l].end
            /\ cursor'[l].kind = cursor[l].kind /\ cursor'[l].complete = cursor[l].complete
            /\ cursor'[l].updated = IF l = Lane THEN WriteTime ELSE cursor[l].updated
  <2>1. PICK n : n = Yielded
    OBVIOUS
  <2>2. /\ n \in [Lanes -> Cursors]
        /\ \A l \in Lanes :
            /\ n[l].present = cursor[l].present
            /\ n[l].start = cursor[l].start /\ n[l].end = cursor[l].end
            /\ n[l].kind = cursor[l].kind /\ n[l].complete = cursor[l].complete
            /\ n[l].updated = IF l = Lane THEN WriteTime ELSE cursor[l].updated
    BY <2>1, YieldedShape
  <2>3. cursor' = n
    BY <2>1
  <2>4. QED
    BY <2>2, <2>3
<1>5. /\ history' \in [lane : Lanes \cup {"none"}, refused : BOOLEAN,
                       from : Nat, steady : BOOLEAN]
      /\ history'.lane = Lane /\ history'.refused = history.refused
      /\ history'.from = history.from /\ history'.steady = history.steady
      /\ svc' = Idle
  BY HandedOver
<1>6. Waits
  <2>1. real \in Int
    BY ConstantsTyped DEF WorldTyped
  <2>2. QED
    BY <1>1, <1>3, <1>4, <1>5, <2>1 DEF Waits
<1>7. CursorsHeld' /\ RunsAccepted' /\ ShownAccounted' /\ BehindCursor'
  BY <1>6, WaitingKeeps
<1>8. WorldTyped'
  BY <1>1, <1>5 DEF WorldTyped
<1>9. InFlight' /\ StartNeverRefused' /\ PromptSeen'
  BY <1>1, <1>5 DEF InFlight, StartNeverRefused, PromptSeen
<1>10. WrittenInOrder'
  <2>1. PICK t : t = WriteTime
    OBVIOUS
  <2>2. t \in Nat /\ t >= Local /\ (history.steady => t =< Local)
    BY <1>2, <2>1
  <2>3. Local' = Local /\ Local \in Nat
    BY <1>1, LocalTyped DEF Local
  <2>4. \A l \in Lanes : /\ cursor'[l].updated \in {cursor[l].updated, t}
                         /\ run'[l].written \in {run[l].written, t}
    BY <1>3, <1>4, <2>1
  <2>5. \/ history'.lane # "COMPENSATION"
        \/ /\ t >= Local /\ Compensation'.updated = t
           /\ Normal'.updated = Normal.updated
    <3>1. CASE Lane = "COMPENSATION"
      <4>1. cursor'["COMPENSATION"].updated = t /\ cursor'["NORMAL"].updated = cursor["NORMAL"].updated
        BY <1>4, <2>1, <3>1 DEF Lanes
      <4>2. QED
        BY <2>2, <4>1 DEF Compensation, Normal
    <3>2. QED
      BY <1>5, <3>1
  <2>6. QED
    BY <1>5, <2>2, <2>3, <2>4, <2>5, OrderKept
<1>11. QED
  BY <1>3, <1>4, <1>7, <1>8, <1>9, <1>10 DEF BatchParts

LEMMA YieldKeeps == ASSUME GInv, Yield PROVE GInv'
<1>1. /\ svc # Idle /\ cursor' = Yielded /\ BatchEnds /\ run' = run
      /\ UNCHANGED world /\ UNCHANGED evidence /\ UNCHANGED <<sweeps, cooldown>>
  BY DEF Yield
<1>2. latest' = latest /\ processed' = processed /\ stored' = stored /\ origin' = origin
  BY <1>1 DEF evidence
<1>3. BatchParts'
  BY <1>1, <1>2, HandoverKeeps
<1>4. EvidenceKept'
  BY <1>1, EvidenceUnchanged DEF GInv
<1>5. SchedulesTyped' /\ SweepsAccepted' /\ CooldownAccepted'
  BY <1>1, SchedulesUnchanged DEF GInv
<1>6. TablesTyped'
  BY <1>2, <1>3 DEF GInv, TablesTyped, BatchParts
<1>7. QED
  BY <1>3, <1>4, <1>5, <1>6 DEF GInv, BatchParts

LEMMA ErrorKeeps ==
    ASSUME GInv, NEW kind \in {"transient", "permanent", "aborted"}, Error(kind)
    PROVE  GInv'
<1>1. /\ svc # Idle /\ cursor' = Yielded /\ BatchEnds
      /\ run' = run \/ run' = [run EXCEPT ![Lane].status = "FAILED"]
      /\ UNCHANGED world /\ UNCHANGED evidence /\ UNCHANGED sweeps
  BY DEF Error
<1>2. latest' = latest /\ processed' = processed /\ stored' = stored /\ origin' = origin
  BY <1>1 DEF evidence
<1>3. BatchParts'
  BY <1>1, <1>2, HandoverKeeps
<1>4. EvidenceKept'
  BY <1>1, EvidenceUnchanged DEF GInv
<1>5. SchedulesTyped' /\ SweepsAccepted' /\ CooldownAccepted'
  <2>1. CASE kind = "aborted"
    <3>1. UNCHANGED <<sweeps, cooldown>>
      BY <1>1, <2>1 DEF Error
    <3>2. QED
      BY <3>1, SchedulesUnchanged DEF GInv
  <2>2. CASE kind # "aborted"
    <3>1. PICK after \in RetryAfters \cup {0} : cooldown' = Failure(kind = "transient", after)
      BY <2>2 DEF Error
    <3>2. after \in Nat
      BY BudgetsAssumption
    <3>3. PICK b \in BOOLEAN : b = (kind = "transient")
      OBVIOUS
    <3>4. cooldown' = Failure(b, after)
      BY <3>1, <3>3
    <3>5. WriteTime \in Nat
      BY <1>1, BatchInFlight DEF GInv
    <3>6. QED
      BY <1>1, <3>2, <3>4, <3>5, ScheduleAfterFailure DEF GInv
  <2>3. QED
    BY <2>1, <2>2
<1>6. TablesTyped'
  BY <1>2, <1>3 DEF GInv, TablesTyped, BatchParts
<1>7. QED
  BY <1>3, <1>4, <1>5, <1>6 DEF GInv, BatchParts

(* A variant is kept as evidence only.                                     *)
LEMMA VariantKeeps ==
    ASSUME GInv, svc # Idle, UNCHANGED world, NEW w \in Windows, NEW resp \in SUBSET Events,
           RecordVariant(w, resp)
    PROVE  GInv'
<1>1. /\ cursor' = Yielded /\ BatchEnds /\ run' = run
      /\ processed' = processed /\ stored' = stored /\ origin' = origin
      /\ UNCHANGED sweeps /\ cooldown' = Failure(TRUE, 0)
      /\ latest' = [latest EXCEPT ![w] = [response |-> resp, disposition |-> "REJECTED"]]
  BY DEF RecordVariant
<1>2. BatchParts'
  BY <1>1, HandoverKeeps
<1>3. PICK o : o = [response |-> resp, disposition |-> "REJECTED"]
  OBVIOUS
<1>4. o \in Observations /\ o.disposition = "REJECTED"
  BY <1>3 DEF Observations
<1>5. /\ latest' \in [Windows -> Observations]
      /\ \A v \in Windows : latest'[v] = IF v = w THEN o ELSE latest[v]
  BY <1>1, <1>3, <1>4 DEF GInv, TablesTyped
<1>6. EvidenceKept'
  <2>1. entries' = entries
    BY <1>1 DEF entries
  <2>2. PagesAccepted'
    BY <1>1, <2>1 DEF GInv, EvidenceKept, PagesAccepted, Oversized
  <2>3. \A v \in Windows : latest'[v].disposition = "PROCESSED" =>
            <<v, latest'[v].response>> \in processed'
    BY <1>1, <1>4, <1>5 DEF GInv, EvidenceKept
  <2>4. QED
    BY <1>1, <2>1, <2>2, <2>3 DEF GInv, EvidenceKept
<1>7. SchedulesTyped' /\ SweepsAccepted' /\ CooldownAccepted'
  <2>1. WriteTime \in Nat
    BY BatchInFlight DEF GInv
  <2>2. QED
    BY <1>1, <2>1, ScheduleAfterFailure DEF GInv
<1>8. TablesTyped'
  BY <1>1, <1>2, <1>5 DEF GInv, TablesTyped, BatchParts
<1>9. QED
  BY <1>2, <1>6, <1>7, <1>8 DEF GInv, BatchParts

-----------------------------------------------------------------------------
(* The steps that leave the rows of the cursors alone.                     *)

LEMMA RowsStand ==
    ASSUME GInv, cursor' = cursor, run' = run, origin' = origin,
           history'.from = history.from, visible \subseteq visible', real' \in Int, real' >= real
    PROVE  CursorsHeld' /\ RunsAccepted' /\ ShownAccounted' /\ BehindCursor'
<1>1. Waits
  BY DEF Waits
<1>2. QED
  BY <1>1, WaitingKeeps DEF GInv

LEMMA OrderStands ==
    ASSUME GInv, cursor' = cursor, \A l \in Lanes : run'[l].written = run[l].written,
           history'.steady => history.steady /\ history'.lane = history.lane
                              /\ Local' \in Int /\ Local' >= Local
    PROVE  WrittenInOrder'
<1>1. Local \in Nat
  BY LocalTyped DEF GInv
<1>2. Normal' = Normal /\ Compensation' = Compensation
  BY DEF Normal, Compensation
<1>3. Compensation.updated \in Nat
  BY LaneTyped DEF GInv, Compensation, Lanes
<1>4. Compensation'.updated >= Compensation.updated
  BY <1>2, <1>3
<1>5. QED
  BY <1>1, <1>2, <1>4, OrderKept DEF GInv

LEMMA CrashKeeps == ASSUME GInv, Crash PROVE GInv'
<1> USE DEF GInv
<1>1. /\ svc' = Idle /\ cursor' = cursor /\ run' = run /\ history' = history
      /\ UNCHANGED world /\ UNCHANGED evidence /\ UNCHANGED <<sweeps, cooldown>>
  BY DEF Crash
<1>2. /\ real' = real /\ skew' = skew /\ visible' = visible /\ overlap' = overlap
      /\ latest' = latest /\ processed' = processed /\ stored' = stored /\ origin' = origin
  BY <1>1 DEF world, evidence
<1>3. real \in Int /\ Local' = Local /\ Local \in Nat
  BY <1>2, LocalTyped, ConstantsTyped DEF WorldTyped, Local
<1>4. CursorsHeld' /\ RunsAccepted' /\ ShownAccounted' /\ BehindCursor'
  BY <1>1, <1>2, <1>3, RowsStand
<1>5. WrittenInOrder'
  BY <1>1, <1>3, OrderStands
<1>6. TablesTyped' /\ WorldTyped' /\ InFlight' /\ PromptSeen' /\ StartNeverRefused'
  BY <1>1, <1>2 DEF TablesTyped, WorldTyped, InFlight, PromptSeen, StartNeverRefused
<1>7. EvidenceKept'
  BY <1>1, EvidenceUnchanged
<1>8. SchedulesTyped' /\ SweepsAccepted' /\ CooldownAccepted'
  BY <1>1, SchedulesUnchanged
<1>9. QED
  BY <1>4, <1>5, <1>6, <1>7, <1>8

(* What the environment leaves alone.                                      *)
LEMMA EnvironmentKeeps ==
    ASSUME GInv, UNCHANGED <<cursor, run, evidence, sweeps, cooldown, svc>>,
           WorldTyped', real' >= real, visible \subseteq visible',
           history'.from = history.from, history'.refused = history.refused,
           history'.steady => history.steady /\ history'.lane = history.lane /\ Local' >= Local,
           PromptSeen'
    PROVE  GInv'
<1> USE DEF GInv
<1>1. /\ cursor' = cursor /\ run' = run /\ svc' = svc
      /\ latest' = latest /\ processed' = processed /\ stored' = stored /\ origin' = origin
  BY DEF evidence
<1>2. real' \in Int
  BY ConstantsTyped DEF WorldTyped
<1>3. Local' \in Int
  <2>1. PICK a, b : a = real' /\ b = skew'
    OBVIOUS
  <2>2. a \in Int /\ b \in Int
    BY <1>2, <2>1 DEF WorldTyped
  <2>3. Local' = Later(0, a - b)
    BY <2>1 DEF Local
  <2>4. QED
    BY <2>2, <2>3 DEF Later
<1>4. CursorsHeld' /\ RunsAccepted' /\ ShownAccounted' /\ BehindCursor'
  BY <1>1, <1>2, RowsStand
<1>5. WrittenInOrder'
  BY <1>1, <1>3, OrderStands
<1>6. TablesTyped' /\ InFlight' /\ StartNeverRefused'
  BY <1>1 DEF TablesTyped, InFlight, StartNeverRefused
<1>7. EvidenceKept'
  BY EvidenceUnchanged
<1>8. SchedulesTyped' /\ SweepsAccepted' /\ CooldownAccepted'
  BY SchedulesUnchanged
<1>9. QED
  BY <1>4, <1>5, <1>6, <1>7, <1>8

LEMMA TickKeeps == ASSUME GInv, Tick PROVE GInv'
<1>1. /\ real < MaxTime /\ real' = real + 1 /\ skew' = skew /\ visible' = visible
      /\ overlap' = overlap /\ history' = history
      /\ \A e \in Prompt \ visible : real + 1 < OccurredAt[e] + Lag
      /\ UNCHANGED <<cursor, run, evidence, sweeps, cooldown, svc>>
  BY DEF Tick
<1>2. real \in Nat /\ skew \in Nat /\ MaxTime \in Nat /\ Activated \in Nat /\ real >= Activated
  BY ConstantsTyped DEF GInv, WorldTyped
<1>3. WorldTyped'
  <2>1. ASSUME NEW e \in visible' PROVE OccurredAt[e] =< real'
    <3>1. OccurredAt[e] \in Nat /\ OccurredAt[e] =< real
      BY <1>1, EventsAssumption DEF GInv, WorldTyped
    <3>2. QED
      BY <1>1, <1>2, <3>1
  <2>2. real' \in Activated .. MaxTime
    BY <1>1, <1>2
  <2>3. QED
    BY <1>1, <2>1, <2>2 DEF GInv, WorldTyped
<1>4. Local' >= Local
  BY <1>1, <1>2 DEF Local, Later
<1>5. PromptSeen'
  BY <1>1 DEF PromptSeen
<1>6. QED
  BY <1>1, <1>2, <1>3, <1>4, <1>5, EnvironmentKeeps

LEMMA ClockKeeps == ASSUME GInv, ClockAdjusted PROVE GInv'
<1>1. /\ skew' \in Skews /\ history' = [history EXCEPT !.steady = FALSE]
      /\ real' = real /\ visible' = visible /\ overlap' = overlap
      /\ UNCHANGED <<cursor, run, evidence, sweeps, cooldown, svc>>
  BY DEF ClockAdjusted
<1>2. /\ history' \in [lane : Lanes \cup {"none"}, refused : BOOLEAN, from : Nat, steady : BOOLEAN]
      /\ ~history'.steady /\ history'.from = history.from /\ history'.refused = history.refused
  BY <1>1 DEF GInv, WorldTyped
<1>3. WorldTyped'
  BY <1>1, <1>2, ClocksAssumption DEF GInv, WorldTyped
<1>4. PromptSeen'
  BY <1>1 DEF GInv, PromptSeen
<1>5. real' >= real
  BY <1>1, ConstantsTyped DEF GInv, WorldTyped
<1>6. QED
  BY <1>1, <1>2, <1>3, <1>4, <1>5, EnvironmentKeeps

LEMMA AppearsKeeps == ASSUME GInv, NEW e \in Events, Appears(e) PROVE GInv'
<1>1. /\ OccurredAt[e] =< real /\ visible' = visible \cup {e}
      /\ real' = real /\ skew' = skew /\ overlap' = overlap /\ history' = history
      /\ UNCHANGED <<cursor, run, evidence, sweeps, cooldown, svc>>
  BY DEF Appears
<1>2. WorldTyped'
  BY <1>1 DEF GInv, WorldTyped
<1>3. PromptSeen'
  BY <1>1 DEF GInv, PromptSeen
<1>4. real' >= real /\ Local' = Local /\ Local \in Nat
  BY <1>1, ConstantsTyped, LocalTyped DEF GInv, WorldTyped, Local
<1>5. Local' >= Local
  BY <1>4
<1>6. QED
  BY <1>1, <1>2, <1>3, <1>4, <1>5, EnvironmentKeeps

LEMMA SettingsKeep == ASSUME GInv, SettingsChanged PROVE GInv'
<1>1. /\ overlap' \in Overlaps /\ history' = history
      /\ real' = real /\ skew' = skew /\ visible' = visible
      /\ UNCHANGED <<cursor, run, evidence, sweeps, cooldown, svc>>
  BY DEF SettingsChanged
<1>2. WorldTyped'
  BY <1>1, ClocksAssumption DEF GInv, WorldTyped
<1>3. PromptSeen'
  BY <1>1 DEF GInv, PromptSeen
<1>4. real' >= real /\ Local' = Local /\ Local \in Nat
  BY <1>1, ConstantsTyped, LocalTyped DEF GInv, WorldTyped, Local
<1>5. Local' >= Local
  BY <1>4
<1>6. QED
  BY <1>1, <1>2, <1>3, <1>4, <1>5, EnvironmentKeeps

(* A second that is too dense ends the run.                                *)
LEMMA TooDenseKeeps ==
    ASSUME GInv, svc # Idle, UNCHANGED world, NEW w \in Windows, NEW resp \in SUBSET Events,
           RecordTooDense(w, resp)
    PROVE  GInv'
<1> USE DEF GInv
<1>1. /\ Oversized(resp) /\ Observed(w, resp)
      /\ run' = [run EXCEPT ![Lane].status = "FAILED"]
      /\ cooldown' = Failure(FALSE, 0) /\ svc' = Idle
      /\ cursor' = cursor /\ stored' = stored /\ origin' = origin
      /\ history' = history /\ UNCHANGED sweeps
  BY DEF RecordTooDense
<1>2. real' = real /\ skew' = skew /\ visible' = visible /\ overlap' = overlap
  BY DEF world
<1>3. /\ run' \in [Lanes -> Runs]
      /\ \A l \in Lanes :
            /\ run'[l].start = run[l].start /\ run'[l].end = run[l].end
            /\ run'[l].kind = run[l].kind /\ run'[l].pending = run[l].pending
            /\ run'[l].shown = run[l].shown /\ run'[l].written = run[l].written
            /\ run'[l].status = run[l].status \/ run'[l].status = "FAILED"
  <2>1. Lane \in Lanes
    BY BatchInFlight
  <2>2. PICK n : n = [run EXCEPT ![Lane].status = "FAILED"]
    OBVIOUS
  <2>3. /\ n \in [Lanes -> Runs]
        /\ \A l \in Lanes :
              /\ n[l].start = run[l].start /\ n[l].end = run[l].end
              /\ n[l].kind = run[l].kind /\ n[l].pending = run[l].pending
              /\ n[l].shown = run[l].shown /\ n[l].written = run[l].written
              /\ n[l].status = IF l = Lane THEN "FAILED" ELSE run[l].status
    BY <2>1, <2>2, RunFails
  <2>4. run' = n
    BY <1>1, <2>2
  <2>5. QED
    BY <2>3, <2>4
<1>4. real \in Int /\ Local' = Local /\ Local \in Nat
  BY <1>2, LocalTyped, ConstantsTyped DEF WorldTyped, Local
<1>5. Waits
  BY <1>1, <1>2, <1>3, <1>4 DEF Waits
<1>6. CursorsHeld' /\ RunsAccepted' /\ ShownAccounted' /\ BehindCursor'
  BY <1>5, WaitingKeeps
<1>7. WrittenInOrder'
  BY <1>1, <1>3, <1>4, OrderStands
<1>8. EvidenceKept'
  BY <1>1, OversizedKeeps
<1>9. SchedulesTyped' /\ SweepsAccepted' /\ CooldownAccepted'
  <2>1. WriteTime \in Nat
    BY BatchInFlight
  <2>2. QED
    BY <1>1, <2>1, ScheduleAfterFailure
<1>10. TablesTyped'
  <2>1. latest' \in [Windows -> Observations] /\ processed' \subseteq Pages
    BY <1>1, ObservedKeeps
  <2>2. QED
    BY <1>1, <1>3, <2>1 DEF TablesTyped
<1>11. WorldTyped' /\ InFlight' /\ PromptSeen' /\ StartNeverRefused'
  BY <1>1, <1>2 DEF WorldTyped, InFlight, PromptSeen, StartNeverRefused
<1>12. QED
  BY <1>6, <1>7, <1>8, <1>9, <1>10, <1>11

-----------------------------------------------------------------------------
(* A run that moves on to its next segment, or has none left.              *)

Progress(c, r) ==
    /\ c.present = cursor[Lane].present /\ c.start = cursor[Lane].start
    /\ c.end = cursor[Lane].end /\ c.kind = cursor[Lane].kind
    /\ r.start = Run.start /\ r.end = Run.end /\ r.kind = Run.kind /\ r.shown = Run.shown
    /\ \/ r.status = "RUNNING" /\ r.pending # {} /\ c.complete = cursor[Lane].complete
       \/ r.status = "COMPLETED" /\ r.pending = {} /\ c.complete

LEMMA ProgressKeeps ==
    ASSUME GInv, svc # Idle, UNCHANGED world, history'.from = history.from,
           entries \subseteq entries',
           \A k \in Lanes : k # Lane => cursor'[k] = cursor[k] /\ run'[k] = run[k],
           NEW c, c = cursor'[Lane], NEW r, r = run'[Lane], Progress(c, r),
           \A e \in r.shown : Within(e, <<r.start, r.end>>) =>
               e \in entries' \/ \E v \in r.pending : Within(e, v)
    PROVE  CursorsHeld' /\ RunsAccepted' /\ ShownAccounted' /\ BehindCursor'
<1> USE DEF GInv
<1>1. real' = real /\ visible' = visible
  BY DEF world
<1>2. PICK l : l = Lane
  OBVIOUS
<1>3. PICK c0, r0 : c0 = cursor[l] /\ r0 = run[l]
  OBVIOUS
<1>4. l \in Lanes /\ r0 = Run /\ r0.status = "RUNNING"
  BY <1>2, <1>3, BatchInFlight
<1>5. /\ Open(c0) /\ c0.start = r0.start /\ c0.end = r0.end /\ c0.kind = r0.kind
  BY <1>3, <1>4, RunningIsOpen
<1>6. /\ c.present = c0.present /\ c.start = c0.start /\ c.end = c0.end /\ c.kind = c0.kind
      /\ r.start = r0.start /\ r.end = r0.end /\ r.kind = r0.kind /\ r.shown = r0.shown
      /\ \/ r.status = "RUNNING" /\ r.pending # {} /\ ~c.complete
         \/ r.status = "COMPLETED" /\ r.pending = {} /\ c.complete
  BY <1>2, <1>3, <1>4, <1>5 DEF Progress, Open
<1>7. \A k \in Lanes : \/ k = l /\ cursor'[k] = c /\ run'[k] = r /\ cursor[k] = c0 /\ run[k] = r0
                       \/ k # l /\ cursor'[k] = cursor[k] /\ run'[k] = run[k]
  BY <1>2, <1>3
<1>8. \A k \in Lanes : /\ cursor'[k].present = cursor[k].present
                       /\ cursor'[k].start = cursor[k].start
                       /\ cursor'[k].end = cursor[k].end
                       /\ cursor'[k].kind = cursor[k].kind
  BY <1>5, <1>6, <1>7 DEF Open
<1>9. CursorsHeld'
  <2>1. \A k \in Lanes : /\ cursor'[k].present => cursor'[k].start < cursor'[k].end
                         /\ cursor'[k].complete => cursor'[k].present
    BY <1>5, <1>7, <1>8 DEF CursorsHeld, Open
  <2>2. Normal'.present = Normal.present /\ Compensation'.present = Compensation.present
    BY <1>8 DEF Normal, Compensation, Lanes
  <2>3. QED
    BY <1>1, <2>1, <2>2 DEF CursorsHeld
<1>10. RunsAccepted'
  <2> SUFFICES ASSUME NEW k \in Lanes
               PROVE  /\ run'[k].status = "RUNNING" =>
                            /\ cursor'[k].present /\ ~cursor'[k].complete
                            /\ cursor'[k].start = run'[k].start /\ cursor'[k].end = run'[k].end
                            /\ cursor'[k].kind = run'[k].kind
                            /\ run'[k].pending # {}
                      /\ run'[k].status = "COMPLETED" => run'[k].pending = {}
                      /\ cursor'[k].present => LaneOf(cursor'[k].kind) = k
    BY DEF RunsAccepted
  <2>1. cursor'[k].present => LaneOf(cursor'[k].kind) = k
    BY <1>8 DEF RunsAccepted
  <2>2. CASE k = l
    BY <1>5, <1>6, <1>7, <2>1, <2>2 DEF Open
  <2>3. CASE k # l
    BY <1>7, <2>1, <2>3 DEF RunsAccepted
  <2>4. QED
    BY <2>2, <2>3
<1>11. ShownAccounted'
  <2> SUFFICES ASSUME NEW k \in Lanes
               PROVE  /\ run'[k].shown \subseteq visible'
                      /\ run'[k].status = "RUNNING" =>
                            \A e \in run'[k].shown :
                                Within(e, <<run'[k].start, run'[k].end>>) =>
                                    e \in entries' \/ \E v \in run'[k].pending : Within(e, v)
    BY DEF ShownAccounted, Within
  <2>1. CASE k = l
    BY <1>1, <1>3, <1>6, <1>7, <2>1 DEF ShownAccounted
  <2>2. CASE k # l
    <3>1. run'[k] = run[k]
      BY <1>7, <2>2
    <3>2. QED
      BY <1>1, <3>1 DEF ShownAccounted
  <2>3. QED
    BY <2>1, <2>2
<1>12. BehindCursor'
  <2> SUFFICES ASSUME Normal'.present, NEW e \in Prompt
               PROVE  /\ OccurredAt[e] =< Normal'.end => e \in visible'
                      /\ run'["NORMAL"].status = "RUNNING"
                         /\ Within(e, <<Normal'.start, Normal'.end>>) =>
                            e \in run'["NORMAL"].shown
                      /\ OccurredAt[e] >= history'.from
                         /\ (IF Normal'.complete THEN OccurredAt[e] =< Normal'.end
                                                 ELSE OccurredAt[e] < Normal'.start)
                         => e \in entries'
    BY DEF BehindCursor, Within
  <2>1. /\ "NORMAL" \in Lanes /\ Normal.present /\ Normal'.start = Normal.start
        /\ Normal'.end = Normal.end
    BY <1>8 DEF Normal, Lanes
  <2>2. OccurredAt[e] \in Nat /\ Normal.start \in Nat /\ Normal.end \in Nat
    BY <2>1, EventsAssumption, LaneTyped DEF Normal
  <2>3. CASE l # "NORMAL"
    <3>1. Normal' = Normal /\ run'["NORMAL"] = run["NORMAL"]
      BY <1>7, <2>1, <2>3 DEF Normal
    <3>2. QED
      BY <1>1, <2>1, <3>1 DEF BehindCursor
  <2>4. CASE l = "NORMAL"
    <3>1. /\ Normal = c0 /\ Normal' = c /\ run["NORMAL"] = r0 /\ run'["NORMAL"] = r
      BY <1>7, <2>1, <2>4 DEF Normal
    <3>2. Within(e, <<Normal.start, Normal.end>>) => e \in r0.shown
      BY <1>4, <2>1, <3>1 DEF BehindCursor
    <3>3. OccurredAt[e] >= history.from /\ OccurredAt[e] < Normal.start => e \in entries
      BY <1>5, <2>1, <3>1 DEF BehindCursor, Open
    <3>4. ASSUME c.complete, OccurredAt[e] >= history.from, OccurredAt[e] =< Normal.end
          PROVE  e \in entries'
      <4>1. CASE OccurredAt[e] < Normal.start
        BY <3>3, <3>4, <4>1
      <4>2. CASE OccurredAt[e] >= Normal.start
        <5>1. Within(e, <<Normal.start, Normal.end>>)
          BY <3>4, <4>2 DEF Within
        <5>2. e \in r.shown /\ Within(e, <<r.start, r.end>>) /\ r.pending = {}
          BY <1>5, <1>6, <3>1, <3>2, <3>4, <5>1
        <5>3. QED
          BY <5>2
      <4>3. QED
        BY <2>2, <4>1, <4>2
    <3>5. QED
      BY <1>1, <1>6, <2>1, <3>1, <3>2, <3>3, <3>4 DEF BehindCursor
  <2>5. QED
    BY <2>3, <2>4
<1>13. QED
  BY <1>9, <1>10, <1>11, <1>12

LEMMA SplitKeeps ==
    ASSUME GInv, svc # Idle, svc.left > 0, UNCHANGED world, NEW w, w = Segment,
           NEW resp \in SUBSET Events, RecordSplit(w, resp)
    PROVE  GInv'
<1> USE DEF GInv
<1>1. /\ Oversized(resp) /\ Halves(w) # {} /\ Observed(w, resp)
      /\ run' = [run EXCEPT ![Lane] = SplitRun(@, w)]
      /\ cooldown' = NoCooldown /\ svc' = [svc EXCEPT !.left = @ - 1]
      /\ cursor' = cursor /\ history' = history /\ stored' = stored /\ origin' = origin
      /\ UNCHANGED sweeps
  BY DEF RecordSplit
<1>2. real' = real /\ skew' = skew /\ visible' = visible /\ overlap' = overlap
  BY DEF world
<1>3. w \in Windows /\ w \in Run.pending
  BY SegmentTyped
<1>4. /\ Lane \in Lanes /\ Run = run[Lane] /\ Run.status = "RUNNING" /\ WriteTime \in Nat
      /\ svc \in [kind : ScanKinds, left : Nat]
      /\ (history.steady => WriteTime =< Local)
  BY BatchInFlight
<1>5. PICK l, t, r0 : l = Lane /\ t = WriteTime /\ r0 = run[l]
  OBVIOUS
<1>6. PICK p : p = (r0.pending \ {w}) \cup Halves(w)
  OBVIOUS
<1>7. r0 \in Runs /\ r0.pending \subseteq Windows /\ p \subseteq Windows /\ p # {}
  BY <1>1, <1>3, <1>4, <1>5, <1>6, LaneTyped, HalvesCover
<1>8. PICK r : r = [r0 EXCEPT !.pending = p, !.written = t]
  OBVIOUS
<1>9. /\ r \in Runs /\ r.pending = p /\ r.written = t /\ r.status = r0.status
      /\ r.start = r0.start /\ r.end = r0.end /\ r.kind = r0.kind /\ r.shown = r0.shown
  BY <1>4, <1>5, <1>7, <1>8 DEF Runs
<1>10. run' = [run EXCEPT ![l] = r]
  BY <1>1, <1>5, <1>6, <1>8 DEF SplitRun
<1>11. run' \in [Lanes -> Runs] /\ \A k \in Lanes : run'[k] = IF k = l THEN r ELSE run[k]
  BY <1>4, <1>5, <1>9, <1>10 DEF TablesTyped
<1>12. entries' = entries
  BY <1>1 DEF entries
<1>13. CursorsHeld' /\ RunsAccepted' /\ ShownAccounted' /\ BehindCursor'
  <2>1. r = run'[Lane] /\ \A k \in Lanes : k # Lane => cursor'[k] = cursor[k] /\ run'[k] = run[k]
    BY <1>1, <1>4, <1>5, <1>11
  <2>2. PICK c : c = cursor'[Lane]
    OBVIOUS
  <2>3. Progress(c, r)
    BY <1>1, <1>4, <1>5, <1>7, <1>9, <2>2 DEF Progress
  <2>4. ASSUME NEW e \in r.shown, Within(e, <<r.start, r.end>>)
        PROVE  e \in entries' \/ \E v \in r.pending : Within(e, v)
    <3>1. e \in entries \/ \E v \in r0.pending : Within(e, v)
      BY <1>4, <1>5, <1>9, <2>4 DEF ShownAccounted
    <3>2. ASSUME NEW v \in r0.pending, Within(e, v) PROVE \E u \in p : Within(e, u)
      <4>1. CASE v # w
        BY <1>6, <3>2, <4>1
      <4>2. CASE v = w
        <5>1. e \in Events
          BY <1>7, <1>9 DEF Runs
        <5>2. OccurredAt[e] \in Nat
          BY <5>1, EventsAssumption
        <5>3. \E h \in Halves(w) : Within(e, h)
          BY <1>1, <1>3, <3>2, <4>2, <5>2, HalvesCover
        <5>4. QED
          BY <1>6, <5>3
      <4>3. QED
        BY <4>1, <4>2
    <3>3. QED
      BY <1>9, <1>12, <3>1, <3>2
  <2>5. history'.from = history.from /\ entries \subseteq entries'
    BY <1>1, <1>12
  <2>6. QED
    BY <2>1, <2>2, <2>3, <2>4, <2>5, ProgressKeeps
<1>14. EvidenceKept'
  BY <1>1, <1>3, OversizedKeeps
<1>15. SchedulesTyped' /\ SweepsAccepted' /\ CooldownAccepted'
  BY <1>1, ScheduleCleared
<1>16. TablesTyped'
  <2>1. latest' \in [Windows -> Observations] /\ processed' \subseteq Pages
    BY <1>1, <1>3, ObservedKeeps
  <2>2. QED
    BY <1>1, <1>11, <2>1 DEF TablesTyped
<1>17. WorldTyped' /\ PromptSeen' /\ StartNeverRefused'
  BY <1>1, <1>2 DEF WorldTyped, PromptSeen, StartNeverRefused
<1>18. InFlight'
  <2>1. svc' \in [kind : ScanKinds, left : Nat] /\ svc'.kind = svc.kind
    BY <1>1, <1>4
  <2>2. run'[l].status = "RUNNING"
    BY <1>4, <1>5, <1>9, <1>11
  <2>3. QED
    BY <1>5, <2>1, <2>2 DEF InFlight, Lane, LaneOf
<1>19. WrittenInOrder'
  <2>1. Local' = Local /\ Local \in Nat /\ t \in Nat
    BY <1>2, <1>4, <1>5, LocalTyped DEF Local
  <2>2. \A k \in Lanes : /\ cursor'[k].updated \in {cursor[k].updated, t}
                         /\ run'[k].written \in {run[k].written, t}
    BY <1>1, <1>9, <1>11
  <2>3. Normal' = Normal /\ Compensation' = Compensation /\ Compensation.updated \in Nat
    BY <1>1, LaneTyped DEF Normal, Compensation, Lanes
  <2>4. history.steady => t =< Local
    BY <1>4, <1>5
  <2>5. Compensation'.updated >= Compensation.updated
    BY <2>3
  <2>6. QED
    BY <1>1, <2>1, <2>2, <2>3, <2>4, <2>5, OrderKept
<1>20. QED
  BY <1>13, <1>14, <1>15, <1>16, <1>17, <1>18, <1>19

(* A sweep that completes is due again one interval after it was written.  *)
LEMMA AdvancedAccepted ==
    ASSUME SchedulesTyped, SweepsAccepted, NEW kind \in ScanKinds, WriteTime \in Nat,
           due' = Advanced(kind), dueUpdated' = AdvancedAt, cooldown' = NoCooldown
    PROVE  SchedulesTyped' /\ SweepsAccepted' /\ CooldownAccepted'
<1>1. PICK t, u : t = WriteTime /\ u = AdvancedAt
  OBVIOUS
<1>2. dueUpdated \in Nat /\ t \in Nat /\ u = Later(dueUpdated, t)
  BY <1>1 DEF SchedulesTyped, AdvancedAt
<1>3. u \in Nat /\ u >= dueUpdated /\ u >= t
  BY <1>2 DEF Later
<1>4. ASSUME NEW k \in DOMAIN Sweeps
      PROVE  /\ Sweeps[k].interval \in Nat
             /\ Advanced(kind)[k] \in Int
             /\ Advanced(kind)[k] - u =< Sweeps[k].interval
  <2>1. PICK i : i = Sweeps[k].interval
    OBVIOUS
  <2>2. i \in Nat
    BY <2>1, ConstantsTyped
  <2>3. CASE due = <<>>
    <3>1. Advanced(kind)[k] = t + i
      BY <1>1, <2>1, <2>3 DEF Advanced
    <3>2. QED
      BY <1>2, <1>3, <2>1, <2>2, <3>1
  <2>4. CASE due # <<>>
    <3>1. due \in [DOMAIN Sweeps -> Int]
      BY <2>4 DEF SchedulesTyped
    <3>2. PICK d : d = due[k]
      OBVIOUS
    <3>3. d \in Int /\ d - dueUpdated =< i
      BY <2>1, <3>1, <3>2 DEF SweepsAccepted
    <3>4. Advanced(kind)[k] = t + i \/ Advanced(kind)[k] = d
      BY <1>1, <2>1, <2>4, <3>2 DEF Advanced
    <3>5. QED
      BY <1>2, <1>3, <2>1, <2>2, <3>3, <3>4
  <2>5. QED
    BY <2>3, <2>4
<1>5. PICK a : a = Advanced(kind)
  OBVIOUS
<1>6. a \in [DOMAIN Sweeps -> Int]
  <2>1. a = [k \in DOMAIN Sweeps |-> a[k]]
    BY <1>5 DEF Advanced
  <2>2. \A k \in DOMAIN Sweeps : a[k] \in Int
    BY <1>4, <1>5
  <2>3. QED
    BY <2>1, <2>2
<1>7. due' = a /\ dueUpdated' = u
  BY <1>1, <1>5
<1>8. SchedulesTyped'
  BY <1>3, <1>6, <1>7 DEF SchedulesTyped, NoCooldown
<1>9. SweepsAccepted'
  <2>1. DOMAIN a = DOMAIN Sweeps
    BY <1>6
  <2>2. \A k \in DOMAIN a : a[k] - u =< Sweeps[k].interval
    BY <1>4, <1>5, <2>1
  <2>3. QED
    BY <1>7, <2>2 DEF SweepsAccepted
<1>10. CooldownAccepted'
  BY DEF CooldownAccepted
<1>11. QED
  BY <1>8, <1>9, <1>10

(* The row of a window that is complete, and the run of a page accepted.   *)
LEMMA CompletedTyped ==
    ASSUME NEW c0 \in Cursors, NEW reached \in Int, WriteTime \in Nat
    PROVE  LET c == CompletedCursor(c0, reached)
           IN  /\ c \in Cursors /\ c.complete = TRUE /\ c.updated = WriteTime
               /\ c.present = c0.present /\ c.start = c0.start /\ c.end = c0.end
               /\ c.kind = c0.kind
<1>1. PICK t, z : t = WriteTime /\ z = Later(c0.lastEvent, reached)
  OBVIOUS
<1>2. PICK c : c = CompletedCursor(c0, reached)
  OBVIOUS
<1>3. t \in Nat
  BY <1>1
<1>4. z \in Int
  <2>1. c0.lastEvent \in Int
    BY DEF Cursors
  <2>2. QED
    BY <1>1, <2>1 DEF Later
<1>5. c = [c0 EXCEPT !.complete = TRUE, !.updated = t, !.lastEvent = z]
  BY <1>1, <1>2 DEF CompletedCursor, Cursors
<1>6. /\ c \in Cursors /\ c.complete = TRUE /\ c.updated = t
      /\ c.present = c0.present /\ c.start = c0.start /\ c.end = c0.end
      /\ c.kind = c0.kind
  BY <1>3, <1>4, <1>5 DEF Cursors
<1>7. QED
  BY <1>1, <1>2, <1>6

LEMMA AcceptedTyped ==
    ASSUME NEW r0 \in Runs, NEW rest \in SUBSET Windows, NEW reached \in Int,
           WriteTime \in Nat, r0.status = "RUNNING"
    PROVE  LET r == AcceptedRun(r0, rest, reached)
           IN  /\ r \in Runs /\ r.pending = rest /\ r.written = WriteTime
               /\ r.start = r0.start /\ r.end = r0.end /\ r.kind = r0.kind
               /\ r.shown = r0.shown
               /\ r.status = IF rest = {} THEN "COMPLETED" ELSE "RUNNING"
<1>1. PICK t, s : t = WriteTime /\ s = IF rest = {} THEN "COMPLETED" ELSE r0.status
  OBVIOUS
<1>2. PICK r : r = AcceptedRun(r0, rest, reached)
  OBVIOUS
<1>3. r = [r0 EXCEPT !.pending = rest, !.written = t, !.reached = reached, !.status = s]
  BY <1>1, <1>2 DEF AcceptedRun, Runs
<1>4. t \in Nat /\ s \in {"COMPLETED", "RUNNING"}
      /\ s = IF rest = {} THEN "COMPLETED" ELSE "RUNNING"
  BY <1>1
<1>5. /\ r \in Runs /\ r.pending = rest /\ r.written = t
      /\ r.start = r0.start /\ r.end = r0.end /\ r.kind = r0.kind
      /\ r.shown = r0.shown /\ r.status = s
  BY <1>3, <1>4 DEF Runs
<1>6. QED
  BY <1>1, <1>2, <1>4, <1>5

(* What is left after a segment is accepted covers what was shown and is   *)
(* not in the ledger yet.                                                  *)
LEMMA AcceptedCovers ==
    ASSUME GInv, svc # Idle, NEW w, w = Segment, RecordAccepted(w, Shown(w))
    PROVE  /\ entries \subseteq entries' /\ EvidenceKept'
           /\ origin' \in [Events -> Pages \cup {NoPage}] /\ stored' \subseteq Pages
           /\ \A e \in Run.shown : Within(e, <<Run.start, Run.end>>) =>
                  e \in entries' \/ \E v \in Run.pending \ {w} : Within(e, v)
<1> USE DEF GInv
<1>1. PICK resp : resp = Shown(w)
  OBVIOUS
<1>2. w \in Windows /\ w \in Run.pending /\ resp \in SUBSET Events
  BY <1>1, SegmentTyped
<1>3. /\ ~Oversized(resp) /\ Observed(w, resp) /\ origin' = Normalised(w, resp)
      /\ stored' = IF Normalises(w, resp) THEN stored \cup {<<w, resp>>} ELSE stored
  BY <1>1 DEF RecordAccepted
<1>4. /\ origin' \in [Events -> Pages \cup {NoPage}] /\ stored' \subseteq Pages
      /\ entries \subseteq entries' /\ resp \subseteq entries' /\ EvidenceKept'
  BY <1>2, <1>3, AcceptedPageKept
<1>5. ASSUME NEW e \in Run.shown, Within(e, <<Run.start, Run.end>>)
      PROVE  e \in entries' \/ \E v \in Run.pending \ {w} : Within(e, v)
  <2>1. Run = run[Lane] /\ Lane \in Lanes /\ Run.status = "RUNNING"
    BY BatchInFlight
  <2>2. e \in visible
    BY <2>1 DEF ShownAccounted
  <2>3. e \in entries \/ \E v \in Run.pending : Within(e, v)
    BY <1>5, <2>1 DEF ShownAccounted
  <2>4. Within(e, w) => e \in resp
    BY <1>1, <2>2 DEF Shown, Within
  <2>5. QED
    BY <1>4, <2>3, <2>4
<1>6. QED
  BY <1>4, <1>5

(* The page accepted, and the batch it belongs to.                         *)
LEMMA AcceptedKeeps ==
    ASSUME GInv, svc # Idle, svc.left > 0, UNCHANGED world, NEW w, w = Segment,
           RecordAccepted(w, Shown(w))
    PROVE  GInv'
<1> USE DEF GInv
<1>1. PICK resp, rest, l, t, r0, c0 :
          /\ resp = Shown(w) /\ rest = Run.pending \ {w} /\ l = Lane /\ t = WriteTime
          /\ r0 = run[l] /\ c0 = cursor[l]
  OBVIOUS
<1>2. PICK reached : reached = Later(Run.reached,
                          Latest({ e \in resp : Normalised(w, resp)[e] = <<w, resp>> }))
  OBVIOUS
<1>3. /\ Observed(w, resp) /\ cooldown' = NoCooldown
      /\ run' = [run EXCEPT ![l] = AcceptedRun(@, rest, reached)]
      /\ IF rest = {}
         THEN /\ cursor' = Completed(reached)
              /\ due' = Advanced(svc.kind) /\ dueUpdated' = AdvancedAt /\ BatchEnds
         ELSE /\ svc' = [svc EXCEPT !.left = @ - 1]
              /\ UNCHANGED <<cursor, sweeps, history>>
  BY <1>1, <1>2 DEF RecordAccepted
<1>4. real' = real /\ skew' = skew /\ visible' = visible /\ overlap' = overlap
  BY DEF world
<1>5. w \in Windows /\ resp \in SUBSET Events /\ resp \subseteq visible
  BY <1>1, SegmentTyped
<1>6. /\ l \in Lanes /\ Run = r0 /\ r0.status = "RUNNING" /\ t \in Nat /\ t >= Local
      /\ t >= c0.updated
      /\ svc \in [kind : ScanKinds, left : Nat] /\ svc.kind \in ScanKinds
      /\ (history.steady => t =< Local)
  BY <1>1, BatchInFlight
<1>7. r0 \in Runs /\ c0 \in Cursors /\ rest \in SUBSET Windows /\ Run.reached \in Int
  BY <1>1, <1>6, LaneTyped
<1>8. reached \in Int
  <2>1. PICK known : known = { e \in resp : Normalised(w, resp)[e] = <<w, resp>> }
    OBVIOUS
  <2>2. known \in SUBSET Events /\ known \subseteq visible
    BY <1>5, <2>1
  <2>3. real \in Nat /\ \A e \in known : OccurredAt[e] =< real
    BY <2>2, ConstantsTyped DEF WorldTyped
  <2>4. Latest(known) \in Int
    BY <2>2, <2>3, LatestTyped
  <2>5. PICK n, m : n = Latest(known) /\ m = Run.reached
    OBVIOUS
  <2>6. QED
    BY <1>2, <1>7, <2>1, <2>4, <2>5, LaterNat
<1>9. PICK r : r = AcceptedRun(r0, rest, reached)
  OBVIOUS
<1>10. /\ r \in Runs /\ r.pending = rest /\ r.written = t
       /\ r.start = r0.start /\ r.end = r0.end /\ r.kind = r0.kind /\ r.shown = r0.shown
       /\ r.status = IF rest = {} THEN "COMPLETED" ELSE "RUNNING"
  BY <1>1, <1>6, <1>7, <1>8, <1>9, AcceptedTyped
<1>11. run' \in [Lanes -> Runs] /\ \A k \in Lanes : run'[k] = IF k = l THEN r ELSE run[k]
  <2>1. run' = [run EXCEPT ![l] = r]
    BY <1>1, <1>3, <1>9
  <2>2. QED
    BY <1>6, <1>10, <2>1 DEF TablesTyped
<1>12. PICK c : c = IF rest = {} THEN CompletedCursor(c0, reached) ELSE c0
  OBVIOUS
<1>13. /\ c \in Cursors /\ c.present = c0.present /\ c.start = c0.start /\ c.end = c0.end
       /\ c.kind = c0.kind
       /\ IF rest = {} THEN c.complete = TRUE /\ c.updated = t ELSE c = c0
  BY <1>1, <1>6, <1>7, <1>8, <1>12, CompletedTyped
<1>14. cursor' \in [Lanes -> Cursors] /\ \A k \in Lanes : cursor'[k] = IF k = l THEN c ELSE cursor[k]
  <2>1. cursor' = [cursor EXCEPT ![l] = c]
    <3>1. CASE rest = {}
      BY <1>1, <1>3, <1>12, <3>1 DEF Completed
    <3>2. CASE rest # {}
      <4>1. cursor' = cursor /\ c = cursor[l] /\ cursor \in [Lanes -> Cursors]
        BY <1>1, <1>3, <1>12, <3>2 DEF TablesTyped
      <4>2. QED
        BY <1>6, <4>1
    <3>3. QED
      BY <3>1, <3>2
  <2>2. QED
    BY <1>6, <1>13, <2>1 DEF TablesTyped
<1>15. /\ history' \in [lane : Lanes \cup {"none"}, refused : BOOLEAN,
                        from : Nat, steady : BOOLEAN]
       /\ history'.refused = history.refused
       /\ history'.from = history.from /\ history'.steady = history.steady
       /\ history'.lane = IF rest = {} THEN l ELSE history.lane
  <2>1. CASE rest = {}
    BY <1>1, <1>3, <2>1, HandedOver
  <2>2. CASE rest # {}
    BY <1>3, <2>2 DEF WorldTyped
  <2>3. QED
    BY <2>1, <2>2
<1>16. /\ entries \subseteq entries' /\ EvidenceKept'
       /\ origin' \in [Events -> Pages \cup {NoPage}] /\ stored' \subseteq Pages
       /\ \A e \in r0.shown : Within(e, <<r0.start, r0.end>>) =>
              e \in entries' \/ \E v \in rest : Within(e, v)
  BY <1>1, <1>6, AcceptedCovers
<1>17. CursorsHeld' /\ RunsAccepted' /\ ShownAccounted' /\ BehindCursor'
  <2>1. /\ r = run'[Lane] /\ c = cursor'[Lane]
        /\ \A k \in Lanes : k # Lane => cursor'[k] = cursor[k] /\ run'[k] = run[k]
    BY <1>1, <1>6, <1>11, <1>14
  <2>2. Progress(c, r)
    BY <1>1, <1>6, <1>10, <1>13 DEF Progress
  <2>3. \A e \in r.shown : Within(e, <<r.start, r.end>>) =>
            e \in entries' \/ \E v \in r.pending : Within(e, v)
    BY <1>10, <1>16
  <2>4. QED
    BY <1>15, <1>16, <2>1, <2>2, <2>3, ProgressKeeps
<1>18. SchedulesTyped' /\ SweepsAccepted' /\ CooldownAccepted'
  <2>1. CASE rest = {}
    BY <1>1, <1>3, <1>6, <2>1, AdvancedAccepted
  <2>2. CASE rest # {}
    BY <1>3, <2>2, ScheduleCleared
  <2>3. QED
    BY <2>1, <2>2
<1>19. TablesTyped'
  <2>1. latest' \in [Windows -> Observations] /\ processed' \subseteq Pages
    BY <1>3, <1>5, ObservedKeeps
  <2>2. QED
    BY <1>11, <1>14, <1>16, <2>1 DEF TablesTyped
<1>20. WorldTyped' /\ PromptSeen' /\ StartNeverRefused'
  BY <1>4, <1>15 DEF WorldTyped, PromptSeen, StartNeverRefused
<1>21. InFlight'
  <2>1. CASE rest = {}
    BY <1>3, <2>1 DEF BatchEnds, InFlight
  <2>2. CASE rest # {}
    <3>1. svc' \in [kind : ScanKinds, left : Nat] /\ svc'.kind = svc.kind
      BY <1>3, <1>6, <2>2
    <3>2. run'[l].status = "RUNNING"
      BY <1>6, <1>10, <1>11, <2>2
    <3>3. QED
      BY <1>1, <3>1, <3>2 DEF InFlight, Lane, LaneOf
  <2>3. QED
    BY <2>1, <2>2
<1>22. WrittenInOrder'
  <2>1. Local' = Local /\ Local \in Nat
    BY <1>4, LocalTyped DEF Local
  <2>2. \A k \in Lanes : /\ cursor'[k].updated \in {cursor[k].updated, t}
                         /\ run'[k].written \in {run[k].written, t}
    BY <1>1, <1>10, <1>11, <1>13, <1>14
  <2>3. Compensation.updated \in Nat /\ "NORMAL" \in Lanes /\ "COMPENSATION" \in Lanes
    BY LaneTyped DEF Compensation, Lanes
  <2>4. \/ history'.lane # "COMPENSATION"
        \/ Open(Normal')
        \/ /\ t >= Local /\ Compensation'.updated = t
           /\ Normal'.updated = Normal.updated
        \/ /\ history'.lane = history.lane
           /\ Normal'.updated = Normal.updated
           /\ Compensation'.updated >= Compensation.updated
           /\ Open(Normal) => Open(Normal')
    <3>1. CASE rest = {} /\ l = "NORMAL"
      BY <1>15, <3>1
    <3>2. CASE rest = {} /\ l = "COMPENSATION"
      <4>1. Compensation'.updated = t /\ Normal'.updated = Normal.updated
        BY <1>13, <1>14, <2>3, <3>2 DEF Compensation, Normal
      <4>2. QED
        BY <1>6, <4>1
    <3>3. CASE rest # {}
      <4>1. cursor' = cursor /\ history' = history
        BY <1>3, <3>3
      <4>2. Normal' = Normal /\ Compensation' = Compensation
        BY <4>1 DEF Normal, Compensation
      <4>3. Compensation'.updated >= Compensation.updated
        BY <2>3, <4>2
      <4>4. QED
        BY <4>1, <4>2, <4>3
    <3>4. QED
      BY <1>6, <3>1, <3>2, <3>3 DEF Lanes
  <2>5. QED
    BY <1>6, <1>15, <2>1, <2>2, <2>4, OrderKept
<1>23. QED
  BY <1>16, <1>17, <1>18, <1>19, <1>20, <1>21, <1>22

-----------------------------------------------------------------------------
(* The invariant.                                                          *)

LEMMA InitialInvariant == ASSUME Init PROVE GInv
<1>1. /\ real = Activated /\ skew \in Skews /\ visible = {} /\ overlap \in Overlaps
      /\ cursor = [l \in Lanes |-> NoCursor] /\ run = [l \in Lanes |-> NoRun]
      /\ latest = [w \in Windows |-> NoObservation]
      /\ processed = {} /\ stored = {} /\ origin = [e \in Events |-> NoPage]
      /\ due = <<>> /\ dueUpdated = 0 /\ cooldown = NoCooldown /\ svc = Idle
      /\ history = [lane |-> "none", refused |-> FALSE, from |-> 0, steady |-> TRUE]
  BY DEF Init
<1>2. 0 \in Seconds /\ 0 \in ScanKinds
  BY ConstantsTyped DEF Seconds, ScanKinds
<1>3. NoCursor \in Cursors /\ NoRun \in Runs /\ NoObservation \in Observations
  <2>1. NoCursor \in Cursors
    BY <1>2 DEF NoCursor, Cursors
  <2>2. NoRun \in Runs
    BY <1>2 DEF NoRun, Runs
  <2>3. NoObservation \in Observations
    BY DEF NoObservation, Observations
  <2>4. QED
    BY <2>1, <2>2, <2>3
<1>4. \A l \in Lanes : cursor[l] = NoCursor /\ run[l] = NoRun
  BY <1>1
<1>5. TablesTyped
  BY <1>1, <1>3 DEF TablesTyped
<1>6. WorldTyped
  <2>1. Activated \in Activated .. MaxTime
    BY ConstantsTyped
  <2>2. skew \in Nat /\ overlap \in Nat
    BY <1>1, ClocksAssumption
  <2>3. QED
    BY <1>1, <2>1, <2>2 DEF WorldTyped
<1>7. SchedulesTyped /\ SweepsAccepted /\ CooldownAccepted
  <2>1. SchedulesTyped
    BY <1>1 DEF SchedulesTyped, NoCooldown
  <2>2. SweepsAccepted
    <3>1. DOMAIN due = {}
      BY <1>1
    <3>2. QED
      BY <3>1 DEF SweepsAccepted
  <2>3. CooldownAccepted
    BY <1>1 DEF CooldownAccepted
  <2>4. QED
    BY <2>1, <2>2, <2>3
<1>8. InFlight /\ StartNeverRefused
  BY <1>1 DEF InFlight, StartNeverRefused
<1>9. Normal = NoCursor /\ Compensation = NoCursor /\ ~NoCursor.present /\ ~NoCursor.complete
  BY <1>4 DEF Normal, Compensation, Lanes, NoCursor
<1>10. CursorsHeld /\ BehindCursor
  BY <1>4, <1>9 DEF CursorsHeld, BehindCursor
<1>11. RunsAccepted /\ ShownAccounted
  <2>1. NoRun.status = "NONE" /\ NoRun.shown = {}
    BY DEF NoRun
  <2>2. QED
    BY <1>4, <1>9, <2>1 DEF RunsAccepted, ShownAccounted
<1>12. EvidenceKept
  <2>1. entries = {}
    BY <1>1 DEF entries
  <2>2. \A w \in Windows : latest[w].disposition = "NONE"
    BY <1>1 DEF NoObservation
  <2>3. QED
    BY <1>1, <2>1, <2>2 DEF EvidenceKept, PagesAccepted
<1>13. PromptSeen
  BY <1>1, ConstantsTyped DEF PromptSeen
<1>14. WrittenInOrder
  <2>1. Local \in Nat
    BY <1>6, LocalTyped
  <2>2. NoCursor.updated = 0 /\ NoRun.written = 0
    BY DEF NoCursor, NoRun
  <2>3. QED
    BY <1>1, <1>4, <2>1, <2>2 DEF WrittenInOrder
<1>15. QED
  BY <1>5, <1>6, <1>7, <1>8, <1>10, <1>11, <1>12, <1>13, <1>14 DEF GInv

(* The four ways an answer is taken.                                       *)
LEMMA AnswerCases ==
    ASSUME GInv, Answer
    PROVE  /\ svc # Idle /\ svc.left > 0 /\ UNCHANGED world
           /\ \E w, resp : /\ w = Segment /\ resp = Shown(w) /\ w \in Windows
                           /\ resp \in SUBSET Events
                           /\ \/ RecordVariant(w, resp) \/ RecordSplit(w, resp)
                              \/ RecordTooDense(w, resp) \/ RecordAccepted(w, resp)
<1>1. svc # Idle /\ svc.left > 0 /\ UNCHANGED world
  BY DEF Answer
<1>2. PICK w, resp : w = Segment /\ resp = Shown(w)
  OBVIOUS
<1>3. \/ RecordVariant(w, resp) \/ RecordSplit(w, resp)
      \/ RecordTooDense(w, resp) \/ RecordAccepted(w, resp)
  BY <1>2 DEF Answer
<1>4. w \in Windows /\ resp \in SUBSET Events
  BY <1>1, <1>2, SegmentTyped DEF GInv
<1>5. QED
  BY <1>1, <1>2, <1>3, <1>4

LEMMA AnswerKeeps == ASSUME GInv, Answer PROVE GInv'
<1>1. svc # Idle /\ svc.left > 0 /\ UNCHANGED world
  BY AnswerCases
<1>2. PICK w, resp : /\ w = Segment /\ resp = Shown(w) /\ w \in Windows
                     /\ resp \in SUBSET Events
                     /\ \/ RecordVariant(w, resp) \/ RecordSplit(w, resp)
                        \/ RecordTooDense(w, resp) \/ RecordAccepted(w, resp)
  BY AnswerCases
<1>3. CASE RecordVariant(w, resp)
  BY <1>1, <1>2, <1>3, VariantKeeps
<1>4. CASE RecordSplit(w, resp)
  BY <1>1, <1>2, <1>4, SplitKeeps
<1>5. CASE RecordTooDense(w, resp)
  BY <1>1, <1>2, <1>5, TooDenseKeeps
<1>6. CASE RecordAccepted(w, resp)
  BY <1>1, <1>2, <1>6, AcceptedKeeps
<1>7. QED
  BY <1>2, <1>3, <1>4, <1>5, <1>6

LEMMA StandingKeeps == ASSUME GInv, UNCHANGED vars PROVE GInv'
<1>1. /\ UNCHANGED <<cursor, run, evidence, sweeps, cooldown, svc>>
      /\ real' = real /\ skew' = skew /\ visible' = visible /\ overlap' = overlap
      /\ history' = history
  BY DEF vars, evidence, sweeps
<1>2. WorldTyped' /\ PromptSeen'
  BY <1>1 DEF GInv, WorldTyped, PromptSeen
<1>3. real' >= real /\ Local' = Local /\ Local \in Nat
  BY <1>1, ConstantsTyped, LocalTyped DEF GInv, WorldTyped, Local
<1>4. Local' >= Local
  BY <1>3
<1>5. QED
  BY <1>1, <1>2, <1>3, <1>4, EnvironmentKeeps

LEMMA StepKeepsInvariant == ASSUME GInv, [Next]_vars PROVE GInv'
<1>1. CASE Begin
  BY <1>1, BeginKeeps
<1>2. CASE Answer
  BY <1>2, AnswerKeeps
<1>3. CASE Yield
  BY <1>3, YieldKeeps
<1>4. CASE \E kind \in {"transient", "permanent", "aborted"} : Error(kind)
  BY <1>4, ErrorKeeps
<1>5. CASE Crash
  BY <1>5, CrashKeeps
<1>6. CASE Tick
  BY <1>6, TickKeeps
<1>7. CASE ClockAdjusted
  BY <1>7, ClockKeeps
<1>8. CASE \E e \in Events : Appears(e)
  BY <1>8, AppearsKeeps
<1>9. CASE SettingsChanged
  BY <1>9, SettingsKeep
<1>10. CASE UNCHANGED vars
  BY <1>10, StandingKeeps
<1>11. QED
  BY <1>1, <1>2, <1>3, <1>4, <1>5, <1>6, <1>7, <1>8, <1>9, <1>10 DEF Next

(* The inductive invariant of the ingestion.                               *)
THEOREM IngestInvariant == Spec => []GInv
<1>1. Init => GInv
  BY InitialInvariant
<1>2. GInv /\ [Next]_vars => GInv'
  BY StepKeepsInvariant
<1>3. QED
  BY <1>1, <1>2, PTL DEF Spec

LEMMA NothingIsMissed == ASSUME GInv PROVE NothingMissedBehindCursor
<1> SUFFICES ASSUME Normal.complete, NEW e \in Prompt,
                    OccurredAt[e] >= history.from, OccurredAt[e] =< Normal.end
             PROVE  e \in entries
  BY DEF NothingMissedBehindCursor
<1>1. Normal.present
  BY DEF GInv, CursorsHeld, Normal, Lanes
<1>2. QED
  BY <1>1 DEF GInv, BehindCursor

(* No event shown in time is missing behind the normal cursor, whatever    *)
(* was split, refused, retried or resumed and whatever the local clock did *)
(* (service.ts:513-631, store.ts:528-699).                                 *)
THEOREM NothingMissed == Spec => []NothingMissedBehindCursor
<1>1. GInv => NothingMissedBehindCursor
  BY NothingIsMissed
<1>2. QED
  BY <1>1, IngestInvariant, PTL

(* The store never refuses the window the service chooses                  *)
(* (service.ts:219-243, store.ts:392-448).                                 *)
THEOREM StartsAreAccepted == Spec => []StartNeverRefused
<1>1. GInv => StartNeverRefused
  BY DEF GInv
<1>2. QED
  BY <1>1, IngestInvariant, PTL

(* The tables of the ledger are ones the next start accepts                *)
(* (countLedgerDomainViolations in src/src/database/database.ts).          *)
THEOREM LedgerAlwaysAccepted == Spec => []LedgerAcceptedAtStartup
<1>1. GInv => LedgerAcceptedAtStartup
  BY DEF GInv, EvidenceKept, LedgerAcceptedAtStartup
<1>2. QED
  BY <1>1, IngestInvariant, PTL

-----------------------------------------------------------------------------
(* What a step may not do.                                                 *)

(* Only a page that is accepted completes a run.                           *)
LEMMA OthersDoNotComplete ==
    ASSUME GInv, [Next]_vars, NEW l \in Lanes,
           run[l].status = "RUNNING", run'[l].status = "COMPLETED"
    PROVE  /\ svc # Idle /\ l = Lane /\ RecordAccepted(Segment, Shown(Segment))
           /\ Run.pending \ {Segment} = {}
<1> USE DEF GInv
<1>1. run'[l] # run[l] /\ run' # run
  OBVIOUS
<1>2. ASSUME NEW l0 \in Lanes, run' = [run EXCEPT ![l0].status = "FAILED"] PROVE FALSE
  <2>1. PICK n : n = [run EXCEPT ![l0].status = "FAILED"]
    OBVIOUS
  <2>2. n[l].status \in {run[l].status, "FAILED"}
    BY <2>1, RunFails
  <2>3. QED
    BY <1>2, <2>1, <2>2
<1>3. CASE Begin
  <2>1. PICK w, k, c, r, t : Begun(w, k, c, r, t)
    BY <1>3, BeginShape
  <2>2. run' = [run EXCEPT ![k] = r] /\ r.status = "RUNNING" /\ k \in Lanes
    BY <2>1 DEF Begun, Opens
  <2>3. run'[l] = run[l] \/ run'[l] = r
    BY <2>2 DEF TablesTyped
  <2>4. QED
    BY <2>2, <2>3
<1>4. CASE Answer
  <2>1. svc # Idle /\ Lane \in Lanes /\ Run = run[Lane] /\ Run.status = "RUNNING"
        /\ WriteTime \in Nat
    BY <1>4, BatchInFlight DEF Answer
  <2>2. PICK w, resp : /\ w = Segment /\ resp = Shown(w)
                       /\ \/ RecordVariant(w, resp) \/ RecordSplit(w, resp)
                          \/ RecordTooDense(w, resp) \/ RecordAccepted(w, resp)
    BY <1>4, AnswerCases
  <2>3. CASE RecordVariant(w, resp)
    BY <1>1, <2>3 DEF RecordVariant
  <2>4. CASE RecordTooDense(w, resp)
    BY <1>2, <2>1, <2>4 DEF RecordTooDense
  <2>5. CASE RecordSplit(w, resp)
    <3>1. PICK q, r, t, p : /\ q = Lane /\ t = WriteTime
                            /\ p = (run[q].pending \ {w}) \cup Halves(w)
                            /\ r = [run[q] EXCEPT !.pending = p, !.written = t]
      OBVIOUS
    <3>2. run' = [run EXCEPT ![q] = r]
      BY <2>5, <3>1 DEF RecordSplit, SplitRun
    <3>3. r.status = run[q].status
      <4>1. run[q] \in Runs
        BY <2>1, <3>1, LaneTyped
      <4>2. QED
        BY <3>1, <4>1 DEF Runs
    <3>4. run'[l] = run[l] \/ (l = q /\ run'[l] = r)
      BY <3>2 DEF TablesTyped
    <3>5. QED
      BY <3>3, <3>4
  <2>6. CASE RecordAccepted(w, resp)
    <3>1. PICK q, rest : q = Lane /\ rest = Run.pending \ {w}
      OBVIOUS
    <3>2. PICK reached : reached = Later(Run.reached,
                            Latest({ e \in resp : Normalised(w, resp)[e] = <<w, resp>> }))
      OBVIOUS
    <3>3. PICK r : r = AcceptedRun(run[q], rest, reached)
      OBVIOUS
    <3>4. run' = [run EXCEPT ![q] = AcceptedRun(@, rest, reached)]
      BY <2>6, <3>1, <3>2 DEF RecordAccepted
    <3>5. run' = [run EXCEPT ![q] = r]
      BY <3>3, <3>4
    <3>6. \/ run'[l] = run[l]
          \/ l = q /\ run'[l] = r
      BY <3>5 DEF TablesTyped
    <3>7. l = q /\ run'[l] = r
      BY <1>1, <3>6
    <3>8. run[q] \in Runs
      BY <2>1, <3>1, LaneTyped
    <3>9. PICK s : s = IF rest = {} THEN "COMPLETED" ELSE run[q].status
      OBVIOUS
    <3>10. r.status = s
      <4>1. PICK t : t = WriteTime
        OBVIOUS
      <4>2. r = [run[q] EXCEPT !.pending = rest, !.written = t, !.reached = reached,
                               !.status = s]
        BY <3>3, <3>9, <4>1 DEF AcceptedRun
      <4>3. QED
        BY <3>8, <4>2 DEF Runs
    <3>11. rest = {}
      BY <3>7, <3>9, <3>10
    <3>12. QED
      BY <2>1, <2>2, <2>6, <3>1, <3>7, <3>11
  <2>7. QED
    BY <2>2, <2>3, <2>4, <2>5, <2>6
<1>5. CASE Yield
  BY <1>1, <1>5 DEF Yield
<1>6. CASE \E kind \in {"transient", "permanent", "aborted"} : Error(kind)
  <2>1. svc # Idle
    BY <1>6 DEF Error
  <2>2. Lane \in Lanes
    BY <2>1, BatchInFlight
  <2>3. run' = run \/ run' = [run EXCEPT ![Lane].status = "FAILED"]
    BY <1>6 DEF Error
  <2>4. QED
    BY <1>1, <1>2, <2>2, <2>3
<1>7. CASE Crash \/ Tick \/ ClockAdjusted \/ SettingsChanged \/ \E e \in Events : Appears(e)
  BY <1>1, <1>7 DEF Crash, Tick, ClockAdjusted, SettingsChanged, Appears
<1>8. CASE UNCHANGED vars
  BY <1>1, <1>8 DEF vars
<1>9. QED
  BY <1>3, <1>4, <1>5, <1>6, <1>7, <1>8 DEF Next

LEMMA CompletionIsComplete ==
    ASSUME GInv, [Next]_vars, NEW l \in Lanes,
           run[l].status = "RUNNING", run'[l].status = "COMPLETED",
           NEW e \in run[l].shown, OccurredAt[e] >= run[l].start, OccurredAt[e] =< run[l].end
    PROVE  e \in entries'
<1>1. PICK w : w = Segment
  OBVIOUS
<1>2. /\ svc # Idle /\ l = Lane /\ RecordAccepted(w, Shown(w)) /\ Run.pending \ {w} = {}
  BY <1>1, OthersDoNotComplete
<1>3. \A x \in Run.shown : Within(x, <<Run.start, Run.end>>) =>
          x \in entries' \/ \E v \in Run.pending \ {w} : Within(x, v)
  BY <1>1, <1>2, AcceptedCovers
<1>4. Run = run[l]
  BY <1>2 DEF Run
<1>5. Within(e, <<Run.start, Run.end>>)
  BY <1>4 DEF Within
<1>6. QED
  BY <1>2, <1>3, <1>4, <1>5

(* A run that completes has recorded every event of its window that the    *)
(* provider showed when it was opened (store.ts:2881-2924).                *)
THEOREM RunsCompleteInFull == Spec => CompletedRunIsComplete
<1>1. ASSUME GInv, [Next]_vars
      PROVE  \A l \in Lanes : run[l].status = "RUNNING" /\ run'[l].status = "COMPLETED" =>
                \A e \in run[l].shown :
                    OccurredAt[e] >= run[l].start /\ OccurredAt[e] =< run[l].end
                        => e \in entries'
  BY <1>1, CompletionIsComplete
<1>2. QED
  BY <1>1, IngestInvariant, PTL DEF Spec, CompletedRunIsComplete

(* A window that is not opened now keeps where it began.                   *)
LEMMA StartsStay ==
    ASSUME GInv, [Next]_vars, ~Begin
    PROVE  Normal'.present = Normal.present /\ Normal'.start = Normal.start
<1> USE DEF GInv
<1>1. CASE cursor' = cursor
  BY <1>1 DEF Normal
<1>2. CASE svc # Idle /\ cursor' = Yielded
  <2>1. PICK n : n = Yielded
    OBVIOUS
  <2>2. n["NORMAL"].present = cursor["NORMAL"].present /\ n["NORMAL"].start = cursor["NORMAL"].start
    BY <1>2, <2>1, YieldedShape DEF Lanes
  <2>3. QED
    BY <1>2, <2>1, <2>2 DEF Normal
<1>3. CASE svc # Idle /\ \E reached \in Int : cursor' = Completed(reached)
  <2>1. PICK reached \in Int : cursor' = Completed(reached)
    BY <1>3
  <2>2. PICK l, c0 : l = Lane /\ c0 = cursor[l]
    OBVIOUS
  <2>3. l \in Lanes /\ c0 \in Cursors /\ WriteTime \in Nat
    BY <1>3, <2>2, BatchInFlight, LaneTyped
  <2>4. PICK c : c = CompletedCursor(c0, reached)
    OBVIOUS
  <2>5. c.present = c0.present /\ c.start = c0.start
    BY <2>3, <2>4, CompletedTyped
  <2>6. cursor' = [cursor EXCEPT ![l] = c]
    BY <2>1, <2>2, <2>4 DEF Completed
  <2>7. Normal' = Normal \/ (Normal' = c /\ Normal = c0)
    BY <2>2, <2>3, <2>6 DEF Normal, TablesTyped, Lanes
  <2>8. QED
    BY <2>5, <2>7
<1>4. CASE Answer
  <2>1. PICK w, resp : /\ w = Segment /\ resp = Shown(w) /\ w \in Windows
                       /\ resp \in SUBSET Events
                       /\ \/ RecordVariant(w, resp) \/ RecordSplit(w, resp)
                          \/ RecordTooDense(w, resp) \/ RecordAccepted(w, resp)
    BY <1>4, AnswerCases
  <2>2. svc # Idle
    BY <1>4 DEF Answer
  <2>3. CASE RecordVariant(w, resp)
    BY <1>2, <2>2, <2>3 DEF RecordVariant
  <2>4. CASE RecordSplit(w, resp) \/ RecordTooDense(w, resp)
    BY <1>1, <2>4 DEF RecordSplit, RecordTooDense
  <2>5. CASE RecordAccepted(w, resp)
    <3>1. PICK known : known = { e \in resp : Normalised(w, resp)[e] = <<w, resp>> }
      OBVIOUS
    <3>2. PICK reached : reached = Later(Run.reached, Latest(known))
      OBVIOUS
    <3>3. cursor' = cursor \/ cursor' = Completed(reached)
      BY <2>5, <3>1, <3>2 DEF RecordAccepted
    <3>4. reached \in Int
      <4>1. known \in SUBSET Events /\ known \subseteq visible
        BY <2>1, <2>2, <3>1, SegmentTyped
      <4>2. real \in Nat /\ \A e \in known : OccurredAt[e] =< real
        BY <4>1, ConstantsTyped DEF WorldTyped
      <4>3. Latest(known) \in Int
        BY <4>1, <4>2, LatestTyped
      <4>4. Run.reached \in Int
        BY <2>2, BatchInFlight, LaneTyped
      <4>5. PICK a, b : a = Run.reached /\ b = Latest(known)
        OBVIOUS
      <4>6. QED
        BY <3>2, <4>3, <4>4, <4>5, LaterNat
    <3>5. QED
      BY <1>1, <1>3, <2>2, <3>3, <3>4
  <2>6. QED
    BY <2>1, <2>3, <2>4, <2>5
<1>5. CASE Yield \/ \E kind \in {"transient", "permanent", "aborted"} : Error(kind)
  BY <1>2, <1>5 DEF Yield, Error
<1>6. CASE Crash \/ Tick \/ ClockAdjusted \/ SettingsChanged \/ \E e \in Events : Appears(e)
  BY <1>1, <1>6 DEF Crash, Tick, ClockAdjusted, SettingsChanged, Appears
<1>7. CASE UNCHANGED vars
  BY <1>1, <1>7 DEF vars
<1>8. QED
  BY <1>4, <1>5, <1>6, <1>7 DEF Next

LEMMA WindowsMeet ==
    ASSUME GInv, [Next]_vars, Normal.present, Normal' # Normal
    PROVE  Normal'.start =< Normal.end /\ Normal'.start < Normal'.end
<1> USE DEF GInv
<1>1. "NORMAL" \in Lanes /\ Normal.start < Normal.end /\ Normal.start \in Nat /\ Normal.end \in Nat
  BY LaneTyped DEF CursorsHeld, Normal, Lanes
<1>2. Normal'.present => Normal'.start < Normal'.end
  <2>1. GInv'
    BY StepKeepsInvariant
  <2>2. QED
    BY <1>1, <2>1 DEF CursorsHeld, Normal
<1>3. Normal.start =< Normal.end
  <2>1. PICK a, b : a = Normal.start /\ b = Normal.end
    OBVIOUS
  <2>2. a \in Nat /\ b \in Nat /\ a < b
    BY <1>1, <2>1
  <2>3. a =< b
    BY <2>2
  <2>4. QED
    BY <2>1, <2>3
<1>4. CASE ~Begin
  <2>1. Normal'.present = Normal.present /\ Normal'.start = Normal.start
    BY <1>4, StartsStay
  <2>2. QED
    BY <1>2, <1>3, <2>1
<1>5. CASE Begin
  <2>1. PICK w, l, c, r, t : Begun(w, l, c, r, t)
    BY <1>5, BeginShape
  <2>2. /\ cursor' = [cursor EXCEPT ![l] = c] /\ l \in Lanes /\ l = LaneOf(w.kind)
        /\ ChosenWell(w) /\ Open(c) /\ c.start = w.start
    BY <2>1 DEF Begun, Opens
  <2>3. l = "NORMAL" /\ Normal' = c /\ Normal = cursor[l]
    BY <1>1, <2>2 DEF Normal, TablesTyped, Lanes
  <2>4. w.kind = 0
    BY <2>2, <2>3, LanesOfKinds
  <2>5. w.start =< Normal.end
    <3>1. CASE Resumed(w)
      BY <1>3, <2>2, <2>3, <3>1 DEF Resumed
    <3>2. CASE MovesOn(w)
      BY <2>4, <3>2 DEF MovesOn
    <3>3. QED
      BY <2>2, <3>1, <3>2 DEF ChosenWell
  <2>6. QED
    BY <1>2, <2>2, <2>3, <2>5 DEF Open
<1>6. QED
  BY <1>4, <1>5

(* Consecutive normal windows leave no gap (service.ts:535-578).           *)
THEOREM WindowsMeetWithoutGap == Spec => WindowsLeaveNoGap
<1>1. ASSUME GInv, [Next]_vars
      PROVE  Normal.present /\ Normal' # Normal =>
                Normal'.start =< Normal.end /\ Normal'.start < Normal'.end
  BY <1>1, WindowsMeet
<1>2. QED
  BY <1>1, IngestInvariant, PTL DEF Spec, WindowsLeaveNoGap

LEMMA SweepLetsNormalBegin ==
    ASSUME GInv, [Next]_vars, svc = Idle, svc'.kind > 0, CompensationOpen, NormalDue,
           history.steady
    PROVE  history.lane # "COMPENSATION"
<1> USE DEF GInv
<1>1. svc' # svc
  BY DEF Idle
<1>2. Begin
  <2>1. ~Tick /\ ~ClockAdjusted /\ ~SettingsChanged /\ ~(\E e \in Events : Appears(e))
        /\ ~(UNCHANGED vars)
    BY <1>1 DEF Tick, ClockAdjusted, SettingsChanged, Appears, vars
  <2>2. ~Answer /\ ~Yield /\ ~Crash
        /\ ~(\E kind \in {"transient", "permanent", "aborted"} : Error(kind))
    BY DEF Answer, Yield, Crash, Error
  <2>3. QED
    BY <2>1, <2>2 DEF Next
<1>3. PICK w, l, c, r, t : Begun(w, l, c, r, t)
  BY <1>2, BeginShape
<1>4. PICK k, b : k = w.kind /\ b = Budget(w.kind)
  OBVIOUS
<1>5. k > 0
  BY <1>3, <1>4 DEF Begun
<1>6. w = ChooseWindow /\ ChosenWell(w) /\ k \in Nat
  BY <1>3, <1>4, ConstantsTyped DEF Begun, ChosenWell, ScanKinds
<1>7. w.kind # 0
  BY <1>4, <1>5, <1>6
<1>8. Resumed(w)
  BY <1>6, <1>7 DEF ChosenWell, MovesOn
<1>9. ~NormalGetsTurn
  BY <1>7, <1>8 DEF Resumed
<1>10. Normal.updated \in Nat /\ Compensation.updated \in Nat
  BY LaneTyped DEF Normal, Compensation, Lanes
<1>11. ~(Normal.updated =< Compensation.updated)
  BY <1>9 DEF NormalGetsTurn
<1>12. ~(Normal.present /\ ~Normal.complete)
  <2>1. SafeTail \in Int
    BY LocalTyped
  <2>2. ASSUME Normal.present, ~Normal.complete PROVE FALSE
    <3>1. CASE SafeTail =< 0
      <4>1. w = NoChoice
        BY <1>6, <2>1, <2>2, <3>1 DEF ChooseWindow
      <4>2. QED
        BY <1>4, <1>5, <4>1 DEF NoChoice
    <3>2. CASE SafeTail > 0
      <4>1. w = Choice(0, Normal.start, Normal.end)
        BY <1>6, <2>1, <2>2, <3>2 DEF ChooseWindow
      <4>2. QED
        BY <1>7, <4>1 DEF Choice
    <3>3. QED
      BY <2>1, <3>1, <3>2
  <2>3. QED
    BY <2>2
<1>13. QED
  BY <1>11, <1>12 DEF WrittenInOrder

(* As long as nobody adjusts the local clock, an open sweep does not keep  *)
(* the provider to itself (service.ts:580-594).                            *)
THEOREM NormalGetsItsTurnWhileSteady == Spec => NormalGetsItsTurnOnSteadyClock
<1>1. ASSUME GInv, [Next]_vars
      PROVE  /\ svc = Idle /\ svc'.kind > 0 /\ CompensationOpen /\ NormalDue
             /\ history.steady
             => history.lane # "COMPENSATION"
  BY <1>1, SweepLetsNormalBegin
<1>2. QED
  BY <1>1, IngestInvariant, PTL DEF Spec, NormalGetsItsTurnOnSteadyClock
=============================================================================
