-------------------------- MODULE MockCameraProofs --------------------------
(***************************************************************************)
(* What is proved of the synthetic backend for every configuration, every  *)
(* clock and any number of frames: its stamps, its pacing and its sites.   *)
(***************************************************************************)
EXTENDS MockCamera, DataLemmas

-----------------------------------------------------------------------------
\* Appending keeps the frames that are there and puts the new one last.
LEMMA AppendShot ==
  ASSUME NEW S, NEW s \in Seq(S), NEW x \in S
  PROVE  /\ Append(s, x) \in Seq(S)
         /\ Len(Append(s, x)) = Len(s) + 1
         /\ Append(s, x)[Len(s) + 1] = x
         /\ \A k \in 1 .. Len(s) : Append(s, x)[k] = s[k]
         /\ Len(s) \in Nat
BY AppendProperties, LenProperties

\* The modulus of a sum of two positions in a grid of t cells.
LEMMA ModRange ==
  ASSUME NEW t \in Nat \ {0}, NEW x \in Nat
  PROVE  x % t \in 0 .. t - 1
BY Z3

LEMMA ModSmall ==
  ASSUME NEW t \in Nat \ {0}, NEW x \in 0 .. t - 1
  PROVE  x % t = x
BY Z3

LEMMA ModOnce ==
  ASSUME NEW t \in Nat \ {0}, NEW x \in t .. 2 * t - 1
  PROVE  x % t = x - t
BY Z3

\* A band no longer than the grid has no cell twice.
LEMMA ModDistinct ==
  ASSUME NEW t \in Nat \ {0}, NEW b \in 0 .. t - 1,
         NEW i \in 0 .. t - 1, NEW j \in 0 .. t - 1,
         (b + i) % t = (b + j) % t
  PROVE  i = j
<1>1. CASE b + i < t /\ b + j < t
  BY <1>1, ModSmall, (b + i) % t = b + i, (b + j) % t = b + j
<1>2. CASE b + i >= t /\ b + j >= t
  BY <1>2, ModOnce, (b + i) % t = b + i - t, (b + j) % t = b + j - t
<1>3. CASE b + i < t /\ b + j >= t
  BY <1>3, ModSmall, ModOnce, (b + i) % t = b + i, (b + j) % t = b + j - t
<1>4. CASE b + i >= t /\ b + j < t
  BY <1>4, ModSmall, ModOnce, (b + i) % t = b + i - t, (b + j) % t = b + j
<1>5. QED BY <1>1, <1>2, <1>3, <1>4

LEMMA MinOfThree ==
  ASSUME NEW a \in Nat, NEW b \in Nat, NEW c \in Nat
  PROVE  /\ Min({a, b, c}) \in Nat
         /\ Min({a, b, c}) <= b /\ Min({a, b, c}) <= c
<1>1. \E x \in {a, b, c} : \A y \in {a, b, c} : x <= y
  <2>1. CASE a <= b /\ a <= c
    BY <2>1
  <2>2. CASE b <= a /\ b <= c
    BY <2>2
  <2>3. CASE c <= a /\ c <= b
    BY <2>3
  <2> QED BY <2>1, <2>2, <2>3
<1>2. /\ Min({a, b, c}) \in {a, b, c}
      /\ \A y \in {a, b, c} : Min({a, b, c}) <= y
  BY <1>1 DEF Min
<1> QED BY <1>2

-----------------------------------------------------------------------------
\* A valid configuration's grid is not empty and its product does not overflow.
LEMMA GridNotEmpty ==
  ASSUME NEW c \in Configs, Valid(c)
  PROVE  /\ Total(c) = c.rows * c.cols
         /\ Total(c) \in Nat \ {0}
<1>1. /\ c.rows \in Nat \ {0} /\ c.cols \in Nat \ {0}
      /\ c.rows * c.cols < Word /\ Word \in Nat \ {0}
  BY MockAssumption DEF Config, Valid
<1>2. c.rows * c.cols \in Nat \ {0}
  BY <1>1
<1> DEFINE t == c.rows * c.cols
<1>3. t \in 0 .. Word - 1
  BY <1>1, <1>2
<1> HIDE DEF t
<1>4. t % Word = t
  BY <1>1, <1>3, ModSmall
<1>5. c.rows * c.cols % Word = c.rows * c.cols
  BY <1>4 DEF t
<1> QED BY <1>2, <1>5 DEF Total

\* The band of a frame: as many cells as fit, each one in the grid, and no cell
\* twice where base + i cannot overflow.
LEMMA BandCells ==
  ASSUME NEW c \in Configs, Valid(c), NEW s \in Nat, NEW capacity \in Nat
  PROVE  /\ Band(c, s, capacity) \in Seq(Nat)
         /\ Len(Band(c, s, capacity)) = BandLength(c, capacity)
         /\ BandLength(c, capacity) <= capacity
         /\ \A i \in 1 .. BandLength(c, capacity) :
              Band(c, s, capacity)[i] < c.rows * c.cols
         /\ NoOverflow(c) => IsInjective(Band(c, s, capacity))
<1> DEFINE t == Total(c)
           n == BandLength(c, capacity)
           b == s % t
<1>1. t \in Nat \ {0} /\ t = c.rows * c.cols
  BY GridNotEmpty
<1>2. c.sites \in Nat /\ Word \in Nat \ {0}
  BY MockAssumption DEF Config
<1>3. n \in Nat /\ n <= t /\ n <= capacity
  BY <1>1, <1>2, MinOfThree DEF BandLength
<1>4. b \in 0 .. t - 1
  BY <1>1, ModRange
<1>5. \A i \in 1 .. n : Band(c, s, capacity)[i] = ((b + (i - 1)) % Word) % t
  BY DEF Band, Site
<1> HIDE DEF t, n, b
<1>6. ASSUME NEW i \in 1 .. n
      PROVE  Band(c, s, capacity)[i] \in 0 .. t - 1
  <2>1. (b + (i - 1)) \in Nat
    BY <1>3, <1>4, <1>1
  <2>2. (b + (i - 1)) % Word \in Nat
    BY <2>1, <1>2, ModRange
  <2>3. ((b + (i - 1)) % Word) % t \in 0 .. t - 1
    BY <2>2, <1>1, ModRange
  <2> QED BY <2>3, <1>5, Zenon
<1>7. Band(c, s, capacity) = [i \in 1 .. n |-> Site(c, s, i - 1)]
  BY DEF Band, n
<1>8. \A i \in 1 .. n : Band(c, s, capacity)[i] = Site(c, s, i - 1)
  BY <1>7
<1>9. \A i \in 1 .. n : Site(c, s, i - 1) \in Nat
  BY <1>6, <1>8, <1>1
<1>10. Band(c, s, capacity) \in Seq(Nat) /\ Len(Band(c, s, capacity)) = n
  BY <1>3, <1>7, <1>9, IsASeq
<1>11. ASSUME NoOverflow(c), NEW i \in 1 .. n, NEW j \in 1 .. n,
              Band(c, s, capacity)[i] = Band(c, s, capacity)[j]
       PROVE  i = j
  <2>1. \A k \in 1 .. n : (b + (k - 1)) % Word = b + (k - 1)
    <3> SUFFICES ASSUME NEW k \in 1 .. n
                 PROVE  (b + (k - 1)) % Word = b + (k - 1)
      OBVIOUS
    <3>1. 2 * t <= Word
      BY <1>11 DEF NoOverflow, t
    <3>2. b + (k - 1) \in 0 .. Word - 1
      BY <3>1, <1>1, <1>2, <1>3, <1>4
    <3> QED BY <3>2, <1>2, ModSmall
  <2>2. \A k \in 1 .. n : Band(c, s, capacity)[k] = (b + (k - 1)) % t
    BY <2>1, <1>5, Zenon
  <2>3. (b + (i - 1)) % t = (b + (j - 1)) % t
    BY <2>2, <1>11, Zenon
  <2>4. i - 1 \in 0 .. t - 1 /\ j - 1 \in 0 .. t - 1
    BY <1>1, <1>3
  <2>5. i - 1 = j - 1
    BY <2>3, <2>4, <1>1, <1>4, ModDistinct, Zenon
  <2> QED BY <2>5, <1>3
<1>12. NoOverflow(c) => IsInjective(Band(c, s, capacity))
  <2>1. DOMAIN Band(c, s, capacity) = 1 .. n
    BY <1>7, Zenon
  <2> QED BY <2>1, <1>11, Zenon DEF IsInjective
<1>13. \A i \in 1 .. n : Band(c, s, capacity)[i] < c.rows * c.cols
  BY <1>1, <1>6
<1> QED BY <1>3, <1>10, <1>12, <1>13 DEF n

-----------------------------------------------------------------------------
(***************************************************************************)
(* The inductive invariant.  The deadline carries what the stamps so far   *)
(* imply for the next one: it lies after the last stamp, a period after    *)
(* the one before it, and one period per frame after init.                 *)
(***************************************************************************)
Paced ==
  up => /\ exists
        /\ sequence = Len(shots)
        /\ Len(shots) >= 1 => shots[Len(shots)].t_ns < next
        /\ Len(shots) >= 2 => shots[Len(shots) - 1].t_ns + cfg.period <= next
        /\ start + (Len(shots) + 1) * cfg.period <= next

Lifecycle ==
  /\ exists => cfg \in Configs /\ Valid(cfg)
  /\ ~exists => shots = <<>>
  /\ waiting # Nobody => up

Stamps ==
  /\ StampsAscend /\ NoBacklog /\ NeverAhead /\ BandAccepted

MockInv == MockTypeOK /\ Lifecycle /\ Paced /\ Stamps

LEMMA InitEstablishes == Init => MockInv
<1> SUFFICES ASSUME Init PROVE MockInv
  OBVIOUS
<1>1. shots = <<>> /\ shots \in Seq(Shot) /\ Len(shots) = 0
  BY EmptySeq DEF Init
<1>2. NoConfig \in Config
  BY DEF NoConfig, Config
<1>3. MockTypeOK
  <2>1. /\ next \in Int /\ now \in Nat /\ start \in Nat /\ sequence \in Nat
        /\ waiting \in Nat \cup {Nobody}
    BY DEF Init
  <2> QED BY <1>1, <1>2, <2>1, Zenon DEF Init, MockTypeOK
<1>4. Stamps
  BY <1>1 DEF Stamps, StampsAscend, NoBacklog, NeverAhead, BandAccepted
<1> QED BY <1>1, <1>3, <1>4 DEF Init, MockInv, Lifecycle, Paced

\* What an empty history satisfies.
LEMMA NothingShot ==
  ASSUME shots' = <<>>
  PROVE  Stamps' /\ shots' \in Seq(Shot)
BY EmptySeq DEF Stamps, StampsAscend, NoBacklog, NeverAhead, BandAccepted

\* The stamps only depend on these.
LEMMA StampsUnchanged ==
  ASSUME Stamps, UNCHANGED <<cfg, start, shots>>
  PROVE  Stamps'
BY DEF Stamps, StampsAscend, NoBacklog, NeverAhead, BandAccepted

\* A frame that is emitted at its deadline or later keeps the invariant.
LEMMA WakePreserves ==
  ASSUME MockInv, Wake
  PROVE  MockInv'
<1> DEFINE band == Band(cfg, sequence, waiting)
           shot == [t_ns |-> now, sequence |-> sequence,
                    capacity |-> waiting, support |-> band]
           n == Len(shots)
           p == cfg.period
<1>1. /\ up /\ exists /\ cfg \in Configs /\ Valid(cfg)
      /\ waiting \in Nat /\ sequence \in Nat /\ sequence = n
      /\ now \in Nat /\ start \in Nat /\ next \in Int /\ next <= now
      /\ shots \in Seq(Shot)
  BY DEF MockInv, MockTypeOK, Lifecycle, Paced, Wake, Nobody
<1>2. /\ p \in Nat \ {0}
  BY <1>1 DEF MockInv, MockTypeOK, Config, Valid
<1>3. /\ band \in Seq(Nat)
      /\ Len(band) <= waiting
      /\ \A i \in 1 .. Len(band) : band[i] < cfg.rows * cfg.cols
      /\ NoOverflow(cfg) => IsInjective(band)
  BY <1>1, BandCells
<1>4. shot \in Shot
  <2> HIDE DEF band
  <2> QED BY <1>1, <1>3 DEF Shot
<1>5. /\ shots' = Append(shots, shot)
      /\ next' = IF next + p <= now THEN now + p ELSE next + p
      /\ sequence' = sequence + 1 /\ waiting' = Nobody
      /\ UNCHANGED <<exists, cfg, up, now, start>>
  BY DEF Wake, DeadlineAfter
<1>6. /\ shot.t_ns = now /\ shot.sequence = sequence
      /\ shot.capacity = waiting /\ shot.support = band
  OBVIOUS
<1> HIDE DEF shot, band
<1>7. /\ shots' \in Seq(Shot) /\ Len(shots') = n + 1
      /\ shots'[n + 1] = shot
      /\ \A k \in 1 .. n : shots'[k] = shots[k]
      /\ n \in Nat
  BY <1>1, <1>4, <1>5, AppendShot
<1>8. \A k \in 1 .. n : shots[k].t_ns \in Int
  <2>1. \A k \in 1 .. n : shots[k] \in Shot
    BY <1>1, ElementOfSeq, Zenon
  <2> QED BY <2>1 DEF Shot
<1>9. /\ n >= 1 => shots[n].t_ns < next
      /\ n >= 2 => shots[n - 1].t_ns + p <= next
      /\ start + (n + 1) * p <= next
  BY <1>1 DEF MockInv, Paced
<1> HIDE DEF n, p
<1>10. \A k \in 1 .. n + 1 : k <= n \/ k = n + 1
  BY <1>7
<1>11. next' \in Int /\ next' >= next + p /\ next' > now /\ next' >= next
  BY <1>1, <1>2, <1>5
<1>12. MockTypeOK'
  BY <1>1, <1>5, <1>7, <1>11 DEF MockInv, MockTypeOK, Valid, n
<1>13. Lifecycle'
  BY <1>1, <1>5 DEF MockInv, Lifecycle, Valid
<1>14. Paced'
  <2>1. exists' /\ sequence' = Len(shots')
    BY <1>1, <1>5, <1>7
  <2>2. shots'[Len(shots')].t_ns < next'
    BY <1>5, <1>6, <1>7, <1>11
  <2>3. n >= 1 => shots'[n].t_ns + p <= next'
    BY <1>1, <1>2, <1>7, <1>8, <1>9, <1>11
  <2>4. (n + 2) * p = (n + 1) * p + p
    BY <1>2, <1>7
  <2>5. start + (n + 2) * p <= next'
    <3>1. (n + 1) * p \in Int
      BY <1>2, <1>7
    <3> DEFINE q == (n + 1) * p
    <3> HIDE DEF q
    <3>2. start + q <= next
      BY <1>9 DEF q
    <3>3. start + q + p <= next'
      BY <3>1, <3>2, <1>1, <1>2, <1>11 DEF q
    <3>4. (n + 2) * p = q + p
      BY <2>4 DEF q
    <3> QED BY <3>1, <3>3, <3>4, <1>1, <1>2 DEF q
  <2>6. Len(shots') - 1 = n /\ Len(shots') + 1 = n + 2
    BY <1>7
  <2>7. cfg'.period = p /\ start' = start
    BY <1>5 DEF p
  <2> QED BY <2>1, <2>2, <2>3, <2>5, <2>6, <2>7, <1>7 DEF Paced
<1>15. StampsAscend'
  <2> SUFFICES ASSUME NEW k \in 1 .. n + 1
               PROVE  /\ shots'[k].sequence = k - 1
                      /\ k > 1 => shots'[k - 1].t_ns < shots'[k].t_ns
    BY <1>7 DEF StampsAscend
  <2>1. CASE k <= n
    BY <2>1, <1>7 DEF MockInv, Stamps, StampsAscend, n
  <2>2. CASE k = n + 1
    <3>1. shots'[k].sequence = k - 1
      BY <2>2, <1>1, <1>6, <1>7 DEF n
    <3>2. n >= 1 => shots'[n].t_ns < shots'[n + 1].t_ns
      BY <1>1, <1>6, <1>7, <1>8, <1>9
    <3> QED BY <2>2, <3>1, <3>2, <1>7
  <2> QED BY <2>1, <2>2, <1>10
<1>16. NoBacklog'
  <2> SUFFICES ASSUME NEW k \in 3 .. n + 1
               PROVE  shots'[k].t_ns >= shots'[k - 2].t_ns + p
    BY <1>5, <1>7 DEF NoBacklog, p
  <2>1. CASE k <= n
    BY <2>1, <1>7 DEF MockInv, Stamps, NoBacklog, n, p
  <2>2. CASE k = n + 1
    <3>1. n >= 2 /\ shots'[k].t_ns = now /\ shots'[k - 2] = shots[n - 1]
      BY <2>2, <1>6, <1>7
    <3> QED BY <3>1, <1>1, <1>2, <1>7, <1>8, <1>9
  <2> QED BY <2>1, <2>2, <1>7
<1>17. NeverAhead'
  <2> SUFFICES ASSUME NEW k \in 1 .. n + 1
               PROVE  shots'[k].t_ns >= start + k * p
    BY <1>5, <1>7 DEF NeverAhead, p
  <2>1. CASE k <= n
    BY <2>1, <1>7 DEF MockInv, Stamps, NeverAhead, n, p
  <2>2. CASE k = n + 1
    <3>1. shots'[n + 1].t_ns = now
      BY <1>6, <1>7
    <3>2. (n + 1) * p \in Int
      BY <1>2, <1>7
    <3>3. now >= start + (n + 1) * p
      BY <3>2, <1>1, <1>9
    <3> QED BY <2>2, <3>1, <3>3
  <2> QED BY <2>1, <2>2, <1>10
<1>18. BandAccepted'
  <2> SUFFICES ASSUME NEW k \in 1 .. n + 1
               PROVE  /\ Len(shots'[k].support) <= shots'[k].capacity
                      /\ \A i \in 1 .. Len(shots'[k].support) :
                           shots'[k].support[i] < cfg.rows * cfg.cols
                      /\ NoOverflow(cfg) => IsInjective(shots'[k].support)
    BY <1>5, <1>7 DEF BandAccepted
  <2>1. CASE k <= n
    BY <2>1, <1>7 DEF MockInv, Stamps, BandAccepted, n
  <2>2. CASE k = n + 1
    BY <2>2, <1>3, <1>6, <1>7
  <2> QED BY <2>1, <2>2, <1>10
<1> QED BY <1>12, <1>13, <1>14, <1>15, <1>16, <1>17, <1>18 DEF MockInv, Stamps

\* Every step keeps the invariant.
LEMMA NextPreserves ==
  ASSUME MockInv, [Next]_mockVars
  PROVE  MockInv'
<1> USE MockAssumption
<1>1. ASSUME NEW c \in Configs, Create(c) PROVE MockInv'
  <2>1. shots = <<>>
    BY <1>1 DEF MockInv, Lifecycle, Create
  <2>2. shots' = <<>>
    BY <2>1, <1>1 DEF Create
  <2>3. c \in Config
    OBVIOUS
  <2>4. Stamps' /\ shots' \in Seq(Shot)
    BY <2>2, NothingShot
  <2>5. next' \in Int /\ sequence' \in Nat /\ up' \in BOOLEAN /\ exists' \in BOOLEAN
    <3>1. next' \in Int /\ sequence' \in Nat
      BY <1>1 DEF Create
    <3>2. up' \in BOOLEAN /\ exists' \in BOOLEAN
      BY <1>1, Zenon DEF Create
    <3> QED BY <3>1, <3>2
  <2>6. cfg' \in Config /\ Valid(cfg')
    BY <1>1, <2>3 DEF Create
  <2>7. MockTypeOK'
    <3>1. UNCHANGED <<waiting, now, start>>
      BY <1>1 DEF Create
    <3>2. waiting' \in Nat \cup {Nobody} /\ now' \in Nat /\ start' \in Nat
      BY <3>1 DEF MockInv, MockTypeOK
    <3>3. cfg'.rows > 0 /\ cfg'.cols > 0 /\ cfg'.period > 0
      BY <2>6 DEF Valid, Config
    <3> QED BY <2>4, <2>5, <2>6, <3>2, <3>3, Zenon DEF MockTypeOK
  <2> QED BY <1>1, <2>2, <2>4, <2>7
          DEF Create, MockInv, MockTypeOK, Lifecycle, Paced, Valid
<1>2. CASE MockInit
  <2>1. cfg.period \in Int /\ exists /\ cfg \in Configs
    BY <1>2 DEF MockInv, MockTypeOK, Lifecycle, Config, MockInit
  <2>2. shots' = <<>> /\ Len(shots') = 0
    BY <1>2 DEF MockInit
  <2>3. next' \in Int /\ next' = now + cfg.period /\ now \in Nat
    BY <1>2, <2>1 DEF MockInit, FirstDeadline, MockInv, MockTypeOK
  <2>4. start' + (Len(shots') + 1) * cfg'.period <= next'
    BY <1>2, <2>1, <2>2, <2>3 DEF MockInit
  <2>5. Paced'
    BY <1>2, <2>2, <2>4 DEF MockInit, Paced
  <2> QED BY <1>2, <2>2, <2>3, <2>5, NothingShot
          DEF MockInit, MockInv, MockTypeOK, Lifecycle, Valid
<1>3. CASE MockDeinit
  <2>1. Stamps'
    BY <1>3, StampsUnchanged DEF MockDeinit, MockInv
  <2>2. next' \in Int /\ up' \in BOOLEAN
    <3>1. next' \in Int
      BY <1>3 DEF MockDeinit
    <3>2. up' \in BOOLEAN
      BY <1>3, Zenon DEF MockDeinit
    <3> QED BY <3>1, <3>2
  <2>3. MockTypeOK'
    <3>1. UNCHANGED <<exists, cfg, sequence, waiting, now, start, shots>>
      BY <1>3 DEF MockDeinit
    <3> QED BY <2>2, <3>1 DEF MockInv, MockTypeOK, Valid
  <2> QED BY <1>3, <2>1, <2>3 DEF MockDeinit, MockInv, Lifecycle, Paced, Valid
<1>4. CASE Destroy
  <2>1. shots' = <<>>
    BY <1>4 DEF Destroy
  <2>2. Stamps' /\ shots' \in Seq(Shot)
    BY <2>1, NothingShot
  <2>3. cfg' \in Config
    BY <1>4 DEF Destroy, NoConfig, Config
  <2>4. MockTypeOK'
    BY <1>4, <2>2, <2>3 DEF Destroy, MockInv, MockTypeOK
  <2> QED BY <1>4, <2>1, <2>2, <2>4 DEF Destroy, MockInv, Lifecycle, Paced
<1>5. ASSUME NEW capacity \in Capacities, Acquire(capacity) PROVE MockInv'
  <2>1. Stamps'
    BY <1>5, StampsUnchanged DEF Acquire, MockInv
  <2> QED BY <1>5, <2>1 DEF Acquire, MockInv, MockTypeOK, Lifecycle, Paced, Valid
<1>6. CASE Wake
  BY <1>6, WakePreserves
<1>7. CASE Tick
  <2>1. Stamps'
    BY <1>7, StampsUnchanged DEF Tick, MockInv
  <2> QED BY <1>7, <2>1 DEF Tick, MockInv, MockTypeOK, Lifecycle, Paced, Valid
<1>8. CASE UNCHANGED mockVars
  <2>1. Stamps'
    BY <1>8, StampsUnchanged DEF mockVars, MockInv
  <2> QED BY <1>8, <2>1 DEF mockVars, MockInv, MockTypeOK, Lifecycle, Paced, Valid
<1> QED BY <1>1, <1>2, <1>3, <1>4, <1>5, <1>6, <1>7, <1>8 DEF Next

LEMMA MockInvariant == MockSpec => []MockInv
BY InitEstablishes, NextPreserves, PTL DEF MockSpec

-----------------------------------------------------------------------------
(***************************************************************************)
(* For every configuration and every clock, the frames of the mock are     *)
(* numbered without a gap and their stamps strictly ascend: mock_acquire   *)
(* gives the sink nothing to complain of.                                  *)
(***************************************************************************)
THEOREM StampsAlwaysAscend == MockSpec => []StampsAscend
BY MockInvariant, PTL DEF MockInv, Stamps

(***************************************************************************)
(* However late the thread wakes, mock_acquire does not emit a backlog.    *)
(***************************************************************************)
THEOREM NeverABacklog == MockSpec => []NoBacklog
BY MockInvariant, PTL DEF MockInv, Stamps

(***************************************************************************)
(* Nor does it ever run ahead of its fps: no frame is earlier than its     *)
(* number of periods after mock_init.                                      *)
(***************************************************************************)
THEOREM NeverRunsAhead == MockSpec => []NeverAhead
BY MockInvariant, PTL DEF MockInv, Stamps

(***************************************************************************)
(* The types of the backend's state, for every configuration.              *)
(***************************************************************************)
THEOREM MockTypeCorrect == MockSpec => []MockTypeOK
BY MockInvariant, PTL DEF MockInv

(***************************************************************************)
(* For every grid, number of sites and capacity of the frame, the sites    *)
(* that mock_acquire writes are cells of the grid, and distinct ones where *)
(* the 32-bit sum cannot overflow.                                         *)
(***************************************************************************)
THEOREM BandAlwaysAccepted == MockSpec => []BandAccepted
BY MockInvariant, PTL DEF MockInv, Stamps

-----------------------------------------------------------------------------
(***************************************************************************)
(* The mock as a backend: the refinement mapping of MockContract.          *)
(***************************************************************************)
FrameOf(shot) == [t_ns     |-> shot.t_ns,
                  sequence |-> shot.sequence,
                  support  |-> shot.support,
                  room     |-> shot.capacity]

Given(done) == [k \in DOMAIN done |-> FrameOf(done[k])]

\* Nothing was given where nothing was emitted.
LEMMA NothingGiven == Given(<<>>) = <<>>
<1>1. DOMAIN <<>> = {} /\ [k \in DOMAIN <<>> |-> FrameOf(<<>>[k])] = <<>>
  BY EmptySeq
<1> QED BY <1>1 DEF Given

\* One more frame is appended to what was given.
LEMMA OneMoreGiven ==
  ASSUME NEW done \in Seq(Shot), NEW shot \in Shot
  PROVE  LET before == Given(done)
             after  == Given(Append(done, shot))
         IN  /\ after # <<>> /\ Front(after) = before
             /\ Last(after) = FrameOf(shot)
             /\ Len(before) = Len(done)
             /\ \A k \in 1 .. Len(done) : before[k] = FrameOf(done[k])
<1> DEFINE T == {FrameOf(s) : s \in Shot}
           n == Len(done)
           next2 == Append(done, shot)
           before == Given(done)
           after == Given(next2)
<1>1. /\ next2 \in Seq(Shot) /\ Len(next2) = n + 1 /\ next2[n + 1] = shot
      /\ \A k \in 1 .. n : next2[k] = done[k]
      /\ n \in Nat /\ DOMAIN done = 1 .. n /\ DOMAIN next2 = 1 .. n + 1
  BY AppendAt, LenProperties
<1> HIDE DEF next2
<1>2. /\ before = [k \in 1 .. n |-> FrameOf(done[k])]
      /\ after = [k \in 1 .. n + 1 |-> FrameOf(next2[k])]
  BY <1>1 DEF Given
<1>3. \A k \in 1 .. n : done[k] \in Shot
  BY <1>1, ElementOfSeq
<1>4. \A k \in 1 .. n + 1 : next2[k] \in Shot
  BY <1>1, ElementOfSeq
<1> HIDE DEF n, before, after
<1>5. before \in [1 .. n -> T] /\ after \in [1 .. n + 1 -> T]
  BY <1>2, <1>3, <1>4
<1> HIDE DEF T
<1>6. \A k \in 1 .. n : after[k] = before[k]
  BY <1>1, <1>2
<1>7. /\ after # <<>> /\ Front(after) = before /\ Last(after) = after[n + 1]
      /\ Len(before) = n
  <2>1. n \in Nat /\ n + 1 \in Nat
    BY <1>1
  <2>2. before \in Seq(T) /\ after \in Seq(T)
    BY <1>5, <2>1, SeqDef
  <2>3. DOMAIN before = 1 .. n /\ DOMAIN after = 1 .. n + 1
    BY <1>2
  <2>4. Len(before) = n /\ Len(after) = n + 1
    BY <2>1, <2>2, <2>3, LenProperties
  <2> QED BY <1>6, <2>1, <2>2, <2>4, OneMore
<1>8. Last(after) = FrameOf(shot)
  BY <1>1, <1>2, <1>7
<1>9. \A k \in 1 .. n : before[k] = FrameOf(done[k])
  BY <1>2
<1> QED BY <1>7, <1>8, <1>9 DEF n, before, after, next2

(***************************************************************************)
(* The mock keeps the contract of camera.h, numbers its frames without a   *)
(* gap and stamps them in ascending order (Paced: the deadline lies after  *)
(* the last stamp, and no frame is emitted before it): every step of it is *)
(* one the contract allows, or changes nothing the contract speaks of.     *)
(* Between the frames of one init the grid is the one that mock_max_sites  *)
(* told, since a context is only replaced while it is down (Paced).        *)
(***************************************************************************)
THEOREM MockIsBackend == MockSpec => MockKeepsContract
<1> DEFINE phase  == IF up THEN "up" ELSE "down"
           frames == IF up THEN Given(shots) ELSE <<>>
           grid   == cfg.rows * cfg.cols
<1>1. Init => MockContract!BackendInit
  <2> SUFFICES ASSUME Init PROVE MockContract!BackendInit
    OBVIOUS
  <2>1. phase = "down" /\ frames = <<>>
    BY DEF Init
  <2>2. grid \in Nat
    BY DEF Init, NoConfig
  <2> QED BY <2>1, <2>2 DEF MockContract!BackendInit, Given, FrameOf
<1>2. MockInv /\ [Next]_mockVars => [MockContract!BackendNext]_(MockContract!backendVars)
  <2> SUFFICES ASSUME MockInv, [Next]_mockVars
               PROVE  \/ MockContract!BackendNext
                      \/ UNCHANGED MockContract!backendVars
    OBVIOUS
  <2>1. /\ MockContract!backendVars = <<phase, grid, frames>>
        /\ MockContract!backendVars' = <<phase', grid', frames'>>
    BY DEF MockContract!backendVars, Given, FrameOf
  <2>2. ASSUME UNCHANGED <<cfg, up, shots>> PROVE UNCHANGED MockContract!backendVars
    BY <2>1, <2>2
  <2>3. ASSUME ~up, ~up', cfg' \in Config PROVE MockContract!BackendNext
    <3>1. phase = "down" /\ phase' = "down" /\ frames = <<>> /\ frames' = <<>>
      BY <2>3
    <3>2. grid' \in Nat
      BY <2>3 DEF Config
    <3> QED BY <3>1, <3>2
            DEF MockContract!BackendNext, MockContract!Configure, Given, FrameOf
  <2>4. MockInv'
    BY NextPreserves
  <2>5. ASSUME NEW c \in Configs, Create(c) PROVE MockContract!BackendNext
    <3>1. ~up /\ ~up'
      BY <2>5 DEF Create, MockInv, Paced
    <3> QED BY <2>3, <2>4, <3>1 DEF MockInv, MockTypeOK
  <2>6. CASE MockInit
    <3>1. up' /\ shots' = <<>> /\ cfg' = cfg
      BY <2>6 DEF MockInit
    <3>2. frames' = <<>> /\ phase' = "up" /\ grid' = grid /\ phase # "failed"
      BY <3>1, NothingGiven
    <3> QED BY <3>2 DEF MockContract!BackendNext, MockContract!Up, Given, FrameOf
  <2>7. CASE MockDeinit
    <3>1. ~up' /\ cfg' = cfg
      BY <2>7 DEF MockDeinit
    <3>2. phase' = "down" /\ frames' = <<>> /\ grid' = grid
      BY <3>1
    <3> QED BY <3>2 DEF MockContract!BackendNext, MockContract!Down, Given, FrameOf
  <2>8. CASE Destroy
    <3>1. ~up /\ ~up'
      BY <2>8 DEF Destroy
    <3> QED BY <2>3, <2>4, <3>1 DEF MockInv, MockTypeOK
  <2>9. CASE (\E capacity \in Capacities : Acquire(capacity)) \/ Tick
    <3>1. UNCHANGED <<cfg, up, shots>>
      BY <2>9 DEF Acquire, Tick
    <3> QED BY <2>2, <3>1
  <2>10. CASE Wake
    <3> DEFINE band == Band(cfg, sequence, waiting)
               shot == [t_ns |-> now, sequence |-> sequence,
                        capacity |-> waiting, support |-> band]
    <3>1. /\ up /\ up' /\ cfg' = cfg /\ cfg \in Configs /\ Valid(cfg)
          /\ shots' = Append(shots, shot) /\ shots \in Seq(Shot)
          /\ sequence = Len(shots) /\ sequence \in Nat
          /\ waiting \in Nat /\ now \in Nat
      BY <2>10 DEF Wake, MockInv, MockTypeOK, Lifecycle, Paced, Nobody
    <3>2. /\ band \in Seq(Nat) /\ Len(band) <= waiting
          /\ \A i \in 1 .. Len(band) : band[i] < grid
      BY <3>1, BandCells
    <3> HIDE DEF band
    <3>3. shot \in Shot
      BY <3>1, <3>2 DEF Shot
    <3> DEFINE last == FrameOf(shot)
    <3>4. /\ last.sequence = sequence /\ last.support = band /\ last.room = waiting
          /\ last.t_ns = now
      BY DEF FrameOf
    <3> HIDE DEF shot
    <3>5. /\ frames' # <<>> /\ Front(frames') = frames /\ Last(frames') = last
          /\ Len(frames) = sequence
          /\ \A k \in 1 .. sequence : frames[k] = FrameOf(shots[k])
      BY <3>1, <3>3, OneMoreGiven
    <3>51. ASSUME sequence # 0 PROVE now > Last(frames).t_ns
      <4>1. sequence \in 1 .. sequence /\ Len(shots) = sequence
        BY <3>1, <3>51
      <4>2. shots[sequence].t_ns < next /\ next <= now
        BY <3>1, <4>1, <2>10 DEF Wake, MockInv, Paced
      <4>3. shots[sequence].t_ns \in Int /\ next \in Int /\ now \in Int
        <5>1. shots[sequence] \in Shot
          BY <3>1, <4>1, ElementOfSeq
        <5> QED BY <5>1, <3>1 DEF Shot, MockInv, MockTypeOK
      <4>4. Last(frames) = frames[sequence]
        <5> HIDE DEF frames
        <5> QED BY <3>5 DEF Last
      <4>5. Last(frames).t_ns = shots[sequence].t_ns
        <5>1. frames[sequence] = FrameOf(shots[sequence])
          BY <3>5, <4>1
        <5> HIDE DEF frames
        <5> QED BY <4>4, <5>1 DEF FrameOf
      <4> HIDE DEF frames
      <4> QED BY <4>2, <4>3, <4>5
    <3>6. phase = "up" /\ phase' = "up" /\ grid' = grid
      BY <3>1
    <3> HIDE DEF last
    <3>7. \A i \in DOMAIN last.support : last.support[i] \in 0 .. grid - 1
      <4>1. grid \in Nat
        BY <3>1, MockAssumption DEF Config
      <4>2. DOMAIN band = 1 .. Len(band) /\ \A i \in 1 .. Len(band) : band[i] \in Nat
        BY <3>2, LenProperties, ElementOfSeq
      <4> HIDE DEF grid
      <4> QED BY <3>2, <3>4, <4>1, <4>2
    <3>8. MockContract!Deliver
      <4> HIDE DEF phase, frames, grid
      <4>1. \A s : MockContract!Last(s) = Last(s) /\ MockContract!Front(s) = Front(s)
        BY DEF MockContract!Last, Last, MockContract!Front, Front
      <4>2. MockContract!Accepted(last)
        BY <3>2, <3>4, <3>7 DEF MockContract!Accepted, grid
      <4>3. MockContract!InOrder(frames, last)
        <5>1. frames # <<>> => sequence # 0
          BY <3>5, <3>1, EmptySeq
        <5>2. frames # <<>> => last.t_ns > MockContract!Last(frames).t_ns
          BY <3>4, <3>51, <4>1, <5>1
        <5> QED BY <3>4, <3>5, <5>2 DEF MockContract!InOrder
      <4>4. /\ MockContract!Front(frames') = frames
            /\ MockContract!Last(frames') = last
        BY <3>5, <4>1
      <4> QED BY <3>5, <3>6, <4>2, <4>3, <4>4
              DEF MockContract!Deliver, phase, frames, grid, Given, FrameOf
    <3> QED BY <3>8 DEF MockContract!BackendNext
  <2>11. CASE UNCHANGED mockVars
    BY <2>2, <2>11 DEF mockVars
  <2> QED BY <2>5, <2>6, <2>7, <2>8, <2>9, <2>10, <2>11 DEF Next
<1>3. MockSpec => MockContract!BackendSpec
  BY <1>1, <1>2, MockInvariant, PTL DEF MockSpec, MockContract!BackendSpec
<1> QED BY <1>3 DEF MockKeepsContract

=============================================================================
