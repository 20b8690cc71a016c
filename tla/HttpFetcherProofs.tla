------------------------- MODULE HttpFetcherProofs -------------------------
(***************************************************************************)
(* The safety properties of HttpFetcher, and that it implements Transfer.  *)
(***************************************************************************)
EXTENDS HttpFetcher, SequenceTheorems, FiniteSetTheorems, TLAPS

-----------------------------------------------------------------------------
(* Where the bytes of range k begin among those wanted, and how many it    *)
(* asks for.                                                               *)
Before(k) == IF k = 1 THEN 0 ELSE ranges[1].length
Size(k) == Len(Positions(ranges[k]))

(* What a request looks like.                                              *)
LEMMA RangeFacts ==
    ASSUME ranges \in Requests
    PROVE  /\ ranges \in Seq([offset : Nat, length : Nat])
           /\ Len(ranges) \in 0..2
           /\ Len(ranges) = 2 => HasLength(ranges[1])
           /\ \A k \in 1..Len(ranges) : /\ ranges[k] \in [offset : Nat, length : Nat]
                                        /\ ranges[k].offset \in Nat /\ ranges[k].length \in Nat
<1> DEFINE R == [offset : Nat, length : Nat]
<1>1. ranges \in Seq(R) /\ Len(ranges) <= 2 /\ (Len(ranges) = 2 => HasLength(ranges[1]))
  BY RequestsAssumption, Zenon
<1>2. (\A k \in 1..Len(ranges) : ranges[k] \in R) /\ Len(ranges) \in Nat
  <2> HIDE DEF R
  <2> QED
    BY <1>1
<1>3. \A k \in 1..Len(ranges) : ranges[k].offset \in Nat /\ ranges[k].length \in Nat
  BY <1>2
<1>4. Len(ranges) \in 0..2
  <2>1. Len(ranges) <= 2 /\ Len(ranges) \in Nat
    BY <1>1, <1>2, Zenon
  <2>2. \A n \in Nat : n <= 2 => n \in 0..2
    OBVIOUS
  <2> QED
    BY <2>1, <2>2, Zenon
<1> QED
  BY <1>1, <1>2, <1>3, <1>4, Zenon

(* The positions of a range: as many as its length, or up to the end of    *)
(* the file.                                                               *)
LEMMA PositionFacts ==
    ASSUME NEW range \in [offset : Nat, length : Nat]
    PROVE  /\ Positions(range) \in Seq(Nat)
           /\ HasLength(range) => Len(Positions(range)) = range.length
           /\ ~HasLength(range) =>
                 Len(Positions(range)) = IF FileSize > range.offset THEN FileSize - range.offset ELSE 0
           /\ \A j \in 1..Len(Positions(range)) : Positions(range)[j] = range.offset + j - 1
<1> DEFINE end == IF HasLength(range) THEN range.offset + range.length ELSE FileSize
           N == IF end > range.offset THEN end - range.offset ELSE 0
<1>1. end \in Nat /\ N \in Nat /\ 1..(end - range.offset) = 1..N
  BY FileAssumption DEF HasLength
<1>2. Positions(range) = [i \in 1..N |-> range.offset + i - 1]
  BY <1>1 DEF Positions
<1>3. \A i \in 1..N : range.offset + i - 1 \in Nat
  BY <1>1
<1> HIDE DEF N
<1>4. Positions(range) \in Seq(Nat) /\ Len(Positions(range)) = N
  BY <1>1, <1>2, <1>3
<1>5. \A j \in 1..N : Positions(range)[j] = range.offset + j - 1
  BY <1>2
<1> QED
  BY <1>4, <1>5 DEF HasLength, N

(* The ranges are asked for one after the other.                           *)
LEMMA WantedIs ==
    ASSUME Len(ranges) \in 0..2
    PROVE  /\ Len(ranges) = 0 => Wanted = <<>>
           /\ Len(ranges) = 1 => Wanted = <<>> \o Positions(ranges[1])
           /\ Len(ranges) = 2 => Wanted = (<<>> \o Positions(ranges[1])) \o Positions(ranges[2])
<1> DEFINE A == <<>> \o Positions(ranges[1])
           B == A \o Positions(ranges[2])
           G == [i \in 0..Len(ranges) |-> IF i = 0 THEN <<>> ELSE IF i = 1 THEN A ELSE B]
           P(f) == f = [i \in 0..Len(ranges) |->
                          IF i = 0 THEN <<>> ELSE f[i - 1] \o Positions(ranges[i])]
           F == CHOOSE f : P(f)
<1>1. P(G)
  <2> DEFINE N == Len(ranges)
             E == <<>>
             Q(i) == Positions(ranges[i])
  <2>1. N \in 0..2 /\ A = E \o Q(1) /\ B = A \o Q(2)
    BY Zenon
  <2> HIDE DEF N, E, Q, A, B
  <2>2. G = [i \in 0..N |-> IF i = 0 THEN E ELSE IF i = 1 THEN A ELSE B]
    BY Zenon DEF E, N
  <2> HIDE DEF G
  <2>3. G[0] = E /\ (1 \in 0..N => G[1] = A) /\ (2 \in 0..N => G[2] = B)
    BY <2>1, <2>2
  <2>4. \A i \in 0..N :
            \/ i = 0
            \/ i = 1 /\ i - 1 = 0 /\ i # 0
            \/ i = 2 /\ i - 1 = 1 /\ i # 0 /\ 1 \in 0..N
    <3>1. N \in 0..2
      BY <2>1, Zenon
    <3> QED
      BY <3>1
  <2>5. \A i \in 0..N : G[i] = IF i = 0 THEN E ELSE G[i - 1] \o Q(i)
    BY <2>1, <2>3, <2>4, Zenon
  <2>6. G = [i \in 0..N |-> G[i]]
    BY <2>2, Zenon
  <2> QED
    BY <2>5, <2>6, Zenon DEF E, N, Q
<1>2. P(F)
  BY <1>1, Zenon
<1>3. Wanted = F[Len(ranges)]
  BY Zenon DEF Wanted
<1> HIDE DEF F
<1>4. \A i \in 0..Len(ranges) : F[i] = IF i = 0 THEN <<>> ELSE F[i - 1] \o Positions(ranges[i])
  BY <1>2, Zenon
<1>5. /\ 0 \in 0..Len(ranges) /\ (Len(ranges) = 1 \/ Len(ranges) = 2 => 1 \in 0..Len(ranges))
      /\ Len(ranges) = 2 => 2 \in 0..Len(ranges)
      /\ 1 - 1 = 0 /\ 2 - 1 = 1 /\ 1 # 0 /\ 2 # 0
  OBVIOUS
<1>6. /\ F[0] = <<>>
      /\ Len(ranges) = 1 \/ Len(ranges) = 2 => F[1] = <<>> \o Positions(ranges[1])
      /\ Len(ranges) = 2 => F[2] = (<<>> \o Positions(ranges[1])) \o Positions(ranges[2])
  BY <1>4, <1>5, Zenon
<1> QED
  BY <1>3, <1>6, Zenon

(* What a success stands for is the sum of the lengths.                    *)
LEMMA NeededIs ==
    ASSUME Len(ranges) \in 0..2
    PROVE  /\ Len(ranges) = 0 => Needed = 0
           /\ Len(ranges) = 1 => Needed = 0 + ranges[1].length
           /\ Len(ranges) = 2 => Needed = (0 + ranges[1].length) + ranges[2].length
<1> DEFINE A == 0 + ranges[1].length
           B == A + ranges[2].length
           G == [i \in 0..Len(ranges) |-> IF i = 0 THEN 0 ELSE IF i = 1 THEN A ELSE B]
           P(f) == f = [i \in 0..Len(ranges) |-> IF i = 0 THEN 0 ELSE f[i - 1] + ranges[i].length]
           F == CHOOSE f : P(f)
<1>1. P(G)
  OBVIOUS
<1>2. P(F)
  BY <1>1, Zenon
<1>3. Needed = F[Len(ranges)]
  BY Zenon DEF Needed
<1> HIDE DEF F
<1>4. \A i \in 0..Len(ranges) : F[i] = IF i = 0 THEN 0 ELSE F[i - 1] + ranges[i].length
  BY <1>2, Zenon
<1>5. /\ 0 \in 0..Len(ranges) /\ (Len(ranges) = 1 \/ Len(ranges) = 2 => 1 \in 0..Len(ranges))
      /\ Len(ranges) = 2 => 2 \in 0..Len(ranges)
      /\ 1 - 1 = 0 /\ 2 - 1 = 1 /\ 1 # 0 /\ 2 # 0
  OBVIOUS
<1>6. /\ F[0] = 0
      /\ Len(ranges) = 1 \/ Len(ranges) = 2 => F[1] = 0 + ranges[1].length
      /\ Len(ranges) = 2 => F[2] = (0 + ranges[1].length) + ranges[2].length
  BY <1>4, <1>5, Zenon
<1> QED
  BY <1>3, <1>6, Zenon

(* The bytes wanted, range by range, and how many of them a success stands *)
(* for.                                                                    *)
LEMMA WantedFacts ==
    ASSUME ranges \in Requests
    PROVE  /\ Wanted \in Seq(Nat)
           /\ Needed \in 0..Len(Wanted)
           /\ ranges = << >> => Needed = 0
           /\ \A k \in 1..Len(ranges) :
                 /\ Before(k) \in Nat /\ Size(k) \in Nat
                 /\ Before(k) + Size(k) <= Len(Wanted)
                 /\ \A j \in 1..Size(k) : Wanted[Before(k) + j] = ranges[k].offset + j - 1
                 /\ k = Len(ranges) => Needed = Before(k) + ranges[k].length
<1>1. /\ ranges \in Seq([offset : Nat, length : Nat]) /\ Len(ranges) \in 0..2
      /\ Len(ranges) = 2 => HasLength(ranges[1])
      /\ \A k \in 1..Len(ranges) : ranges[k] \in [offset : Nat, length : Nat]
  BY RangeFacts
<1>2. \A k \in 1..Len(ranges) :
        /\ Positions(ranges[k]) \in Seq(Nat)
        /\ HasLength(ranges[k]) => Len(Positions(ranges[k])) = ranges[k].length
        /\ \A j \in 1..Len(Positions(ranges[k])) : Positions(ranges[k])[j] = ranges[k].offset + j - 1
        /\ ranges[k].length \in Nat
  BY <1>1, PositionFacts
<1>3. \A s \in Seq(Nat) : <<>> \o s = s
  BY ConcatEmptySeq, Zenon
<1>4. <<>> \in Seq(Nat) /\ Len(<<>>) = 0
  OBVIOUS
<1>7. \A k \in 1..Len(ranges) : ranges[k].length <= Len(Positions(ranges[k]))
  <2> TAKE k \in 1..Len(ranges)
  <2>1. ranges[k].length \in Nat /\ Len(Positions(ranges[k])) \in Nat
        /\ (HasLength(ranges[k]) => Len(Positions(ranges[k])) = ranges[k].length)
    BY <1>2
  <2> QED
    BY <2>1 DEF HasLength
<1>8. CASE Len(ranges) = 0
  <2>1. Wanted = <<>> /\ Needed = 0
    BY <1>1, <1>8, WantedIs, NeededIs, Zenon
  <2> QED
    BY <1>4, <1>8, <2>1
<1>9. CASE Len(ranges) = 1
  <2>1. Wanted = <<>> \o Positions(ranges[1]) /\ Needed = 0 + ranges[1].length
    BY <1>1, <1>9, WantedIs, NeededIs, Zenon
  <2>2. Wanted = Positions(ranges[1]) /\ Wanted \in Seq(Nat)
        /\ Needed = ranges[1].length /\ Needed \in 0..Len(Wanted)
    <3>1. /\ Positions(ranges[1]) \in Seq(Nat) /\ ranges[1].length \in Nat
          /\ ranges[1].length <= Len(Positions(ranges[1]))
      BY <1>2, <1>7, <1>9
    <3>2. Wanted = Positions(ranges[1])
      BY <1>3, <2>1, <3>1, Zenon
    <3> QED
      BY <2>1, <3>1, <3>2
  <2>3. Before(1) = 0 /\ Size(1) = Len(Wanted) /\ Size(1) \in Nat
    BY <2>2 DEF Before, Size
  <2>4. ranges # << >>
    BY <1>9
  <2>5. \A j \in 1..Size(1) : Wanted[0 + j] = ranges[1].offset + j - 1
    BY <1>2, <1>9, <2>2, <2>3
  <2> QED
    BY <1>9, <2>2, <2>3, <2>4, <2>5
<1>10. CASE Len(ranges) = 2
  <2>1. /\ Wanted = (<<>> \o Positions(ranges[1])) \o Positions(ranges[2])
        /\ Needed = (0 + ranges[1].length) + ranges[2].length
    BY <1>1, <1>10, WantedIs, NeededIs, Zenon
  <2> DEFINE A == Positions(ranges[1])
             B == Positions(ranges[2])
  <2>2. A \in Seq(Nat) /\ B \in Seq(Nat) /\ Len(A) = ranges[1].length
        /\ ranges[2].length <= Len(B) /\ ranges[1].length \in Nat /\ ranges[2].length \in Nat
        /\ (\A j \in 1..Len(A) : A[j] = ranges[1].offset + j - 1)
        /\ (\A j \in 1..Len(B) : B[j] = ranges[2].offset + j - 1)
    BY <1>1, <1>2, <1>7, <1>10
  <2>3. Wanted = A \o B
    <3>1. <<>> \o A = A
      BY <1>3, <2>2, Zenon
    <3> QED
      BY <2>1, <3>1, Zenon
  <2>4. Before(1) = 0 /\ Before(2) = Len(A) /\ Size(1) = Len(A) /\ Size(2) = Len(B)
    BY <2>2 DEF Before, Size
  <2> HIDE DEF A, B
  <2>5. Wanted \in Seq(Nat) /\ Len(Wanted) = Len(A) + Len(B)
    <3>1. A \o B \in Seq(Nat) /\ Len(A \o B) = Len(A) + Len(B)
      BY <2>2, ConcatProperties, Zenon
    <3> QED
      BY <2>3, <3>1, Zenon
  <2>6. (\A j \in 1..Len(A) : Wanted[0 + j] = A[j]) /\ (\A j \in 1..Len(B) : Wanted[Len(A) + j] = B[j])
    <3>1. \A i \in 1..Len(A) + Len(B) : Wanted[i] = IF i <= Len(A) THEN A[i] ELSE B[i - Len(A)]
      BY <2>2, <2>3, ConcatProperties, Zenon
    <3>2. Len(A) \in Nat /\ Len(B) \in Nat
      BY <2>2
    <3> QED
      BY <3>1, <3>2
  <2>7. Needed = ranges[1].length + ranges[2].length
    BY <2>1, <2>2
  <2>8. Len(A) \in Nat /\ Len(B) \in Nat
    BY <2>2
  <2>9. Needed \in 0..Len(Wanted)
    <3>1. Len(A) = ranges[1].length /\ ranges[2].length <= Len(B)
          /\ ranges[1].length \in Nat /\ ranges[2].length \in Nat
      BY <2>2, Zenon
    <3>2. Len(Wanted) = Len(A) + Len(B)
      BY <2>5, Zenon
    <3> QED
      BY <2>7, <2>8, <3>1, <3>2
  <2>10. ranges # << >>
    BY <1>10
  <2>11. /\ \A j \in 1..Size(1) : Wanted[Before(1) + j] = ranges[1].offset + j - 1
         /\ \A j \in 1..Size(2) : Wanted[Before(2) + j] = ranges[2].offset + j - 1
    BY <2>2, <2>4, <2>6
  <2>12. \A k \in 1..Len(ranges) : k = 1 \/ k = 2
    BY <1>10
  <2>13. /\ Before(1) + Size(1) <= Len(Wanted)
         /\ Before(2) + Size(2) = Len(Wanted)
         /\ Needed = Before(2) + ranges[2].length
    BY <2>2, <2>4, <2>5, <2>7, <2>8
  <2> QED
    BY <1>10, <2>4, <2>5, <2>8, <2>9, <2>10, <2>11, <2>12, <2>13
<1> QED
  BY <1>1, <1>8, <1>9, <1>10

-----------------------------------------------------------------------------
(* The inductive invariant.  Its first part is about MultiRangeHttpFetcher *)
(* and the DownloadAction between two calls; Calling is what holds of them *)
(* inside one, when the base fetcher has something to tell.                *)
MultiStates == [active : BOOLEAN, pending : BOOLEAN, terminating : BOOLEAN,
                index : Nat, received : Nat]
Downloads == [offset : Nat, stream : Seq(Nat), asked : BOOLEAN, outcome : Promise!Outcomes,
              begun : BOOLEAN, suspended : BOOLEAN]

(* What was handed over is a beginning of what is wanted.                  *)
InOrder(s) == Len(s) <= Len(Wanted) /\ \A i \in 1..Len(s) : s[i] = Wanted[i]

(* How many bytes have been handed over: more may have come than the range *)
(* has.                                                                    *)
Place(m) ==
    Before(m.index) + (IF HasLength(CurrentRange(m)) /\ m.received > CurrentRange(m).length
                       THEN CurrentRange(m).length ELSE m.received)

Calling(m, d) ==
    /\ m \in MultiStates /\ d \in Downloads
    /\ m.active /\ m.index \in 1..Len(ranges)
    /\ d.begun /\ d.outcome = "none"
    /\ d.asked = m.terminating
    /\ InOrder(d.stream) /\ Len(d.stream) = Place(m)

Running(d) == d.begun /\ d.outcome = "none"

Settled(m, d) ==
    /\ m \in MultiStates /\ d \in Downloads
    /\ ~m.pending /\ ~m.terminating
    /\ InOrder(d.stream)
    /\ d.asked = (d.outcome = "terminated")
    /\ d.outcome = "success" => Len(d.stream) >= Needed
    /\ ~d.begun => m = MultiReset /\ d.outcome = "none" /\ ~d.suspended /\ Len(d.stream) = 0
    /\ Running(d) =>
        /\ m.active /\ m.index \in 1..Len(ranges)
        /\ HasLength(CurrentRange(m)) => m.received < CurrentRange(m).length
        /\ Len(d.stream) = Before(m.index) + m.received

(* What a method that ends a range returns, called with the download d: no *)
(* CHECK has failed, nothing is handed over, and either the base fetcher   *)
(* has to begin with the next range or the transfer is over.               *)
Answer(r, d) ==
    /\ Settled(r.multi, r.dl) /\ r.dl.begun
    /\ r.dl.stream = d.stream /\ r.dl.suspended = d.suspended
    /\ r.checks = TRUE
    /\ r.begin = (r.dl.outcome = "none")
    /\ r.begin => r.multi.received = 0
    /\ r = [multi |-> r.multi, dl |-> r.dl, checks |-> r.checks, begin |-> r.begin]

MultiInv == ranges \in Requests /\ Settled(multi, dl) /\ checks = TRUE

(* LibcurlHttpFetcher: a transfer waits for one thing, knows how far it    *)
(* got, and pauses its connection with itself.                             *)
CurlStates ==
    [resolving : BOOLEAN, callback : BOOLEAN, retry : BOOLEAN, inProgress : BOOLEAN,
     paused : BOOLEAN, restartOnUnpause : BOOLEAN, ignoreFailure : BOOLEAN,
     sentByte : BOOLEAN, proxies : Nat, bytes : Nat, length : Nat, resumeOffset : Nat,
     size : Int, retryCount : Nat, noNetRetries : Nat, noNetMax : Nat,
     host : {"kInit", "kRetry", "kNotRetry", "kRetriedSuccess"}]
ConnStates ==
    [state : {"none", "open", "closed"}, code : {"0", "success", "error"}, pos : Nat,
     stop : Nat, contentLength : Int, paused : BOOLEAN, unresolved : BOOLEAN]

Waits(c) == c.resolving \/ c.retry \/ c.inProgress \/ c.restartOnUnpause
WaitsForOne(c) ==
    /\ Waits(c)
    /\ c.resolving => ~c.retry /\ ~c.inProgress /\ ~c.restartOnUnpause
    /\ c.retry => ~c.inProgress /\ ~c.restartOnUnpause
    /\ c.inProgress => ~c.restartOnUnpause

CurlBusy(c, n, m, d) ==
    /\ WaitsForOne(c)
    /\ c.inProgress = (n.state # "none")
    /\ c.restartOnUnpause => c.paused
    /\ c.paused = d.suspended
    /\ c.callback = c.resolving
    /\ ~c.resolving => c.proxies > 0
    /\ c.length = CurrentRange(m).length
    /\ c.bytes = CurrentRange(m).offset + m.received
    /\ n.state = "open" => n.pos = c.bytes /\ n.stop <= FileSize /\ n.paused = c.paused
    /\ n.state = "closed" => c.paused

CurlOK(c, n, m, d) ==
    /\ c \in CurlStates /\ n \in ConnStates
    /\ ~d.begun => ~c.callback /\ ~c.paused
    /\ ~Running(d) => ~Waits(c) /\ n.state = "none"
    /\ Running(d) => CurlBusy(c, n, m, d)

(* FileFetcher: a transfer has a range with a length and knows how far it  *)
(* got.                                                                    *)
FileStates == [inProgress : BOOLEAN, paused : BOOLEAN, ongoing : BOOLEAN,
               copied : Nat, offset : Nat, length : Int]

FileOK(f, m, d) ==
    /\ f \in FileStates
    /\ ~d.begun => ~f.inProgress /\ ~f.paused
    /\ ~Running(d) => ~f.ongoing
    /\ Running(d) =>
        /\ f.inProgress
        /\ f.offset = CurrentRange(m).offset /\ f.length = CurrentRange(m).length
        /\ f.copied = m.received
        /\ HasLength(CurrentRange(m))

Inv ==
    /\ MultiInv
    /\ base \in {"libcurl", "file"}
    /\ base = "libcurl" => CurlOK(curl, conn, multi, dl)
    /\ base = "file" => FileOK(file, multi, dl)

-----------------------------------------------------------------------------
(* The range at hand, and where it lies among the bytes wanted.            *)
LEMMA CurrentFacts ==
    ASSUME ranges \in Requests, NEW m \in MultiStates, m.index \in 1..Len(ranges)
    PROVE  /\ CurrentRange(m).offset \in Nat /\ CurrentRange(m).length \in Nat
           /\ Before(m.index) \in Nat
           /\ HasLength(CurrentRange(m)) =>
                 Before(m.index) + CurrentRange(m).length <= Len(Wanted)
           /\ m.index < Len(ranges) =>
                 /\ HasLength(CurrentRange(m)) /\ m.index + 1 \in 1..Len(ranges)
                 /\ Before(m.index + 1) = Before(m.index) + CurrentRange(m).length
           /\ m.index = Len(ranges) => Needed = Before(m.index) + CurrentRange(m).length
           /\ Len(Wanted) \in Nat
           /\ Len(ranges) \in 0..2
<1>1. /\ Len(ranges) \in 0..2
      /\ Len(ranges) = 2 => HasLength(ranges[1])
      /\ \A k \in 1..Len(ranges) : /\ ranges[k] \in [offset : Nat, length : Nat]
                                   /\ ranges[k].offset \in Nat /\ ranges[k].length \in Nat
  BY RangeFacts, Zenon
<1>2. /\ Wanted \in Seq(Nat)
      /\ \A k \in 1..Len(ranges) :
            /\ Before(k) \in Nat /\ Before(k) + Size(k) <= Len(Wanted)
            /\ k = Len(ranges) => Needed = Before(k) + ranges[k].length
  BY WantedFacts, Zenon
<1>3. \A k \in 1..Len(ranges) : HasLength(ranges[k]) => Size(k) = ranges[k].length
  BY <1>1, PositionFacts, Zenon DEF Size
<1>4. m.index < Len(ranges) => m.index = 1 /\ Len(ranges) = 2
  BY <1>1 DEF MultiStates
<1>5. Before(1) = 0 /\ Before(2) = ranges[1].length
  BY DEF Before
<1>6. m.index < Len(ranges) =>
         /\ HasLength(CurrentRange(m)) /\ m.index + 1 \in 1..Len(ranges)
         /\ Before(m.index + 1) = Before(m.index) + CurrentRange(m).length
  <2> SUFFICES ASSUME m.index < Len(ranges)
               PROVE  /\ HasLength(CurrentRange(m)) /\ m.index + 1 \in 1..Len(ranges)
                      /\ Before(m.index + 1) = Before(m.index) + CurrentRange(m).length
    BY Zenon
  <2>1. m.index = 1 /\ Len(ranges) = 2 /\ m.index + 1 = 2
    BY <1>4
  <2>2. HasLength(CurrentRange(m)) /\ CurrentRange(m).length = ranges[1].length
    BY <1>1, <2>1, Zenon DEF CurrentRange
  <2>3. ranges[1].length \in Nat
    BY <1>1, <2>1
  <2>4. Before(m.index) = 0 /\ Before(m.index + 1) = ranges[1].length
    BY <1>5, <2>1, Zenon
  <2> QED
    BY <2>1, <2>2, <2>3, <2>4
<1>7. Len(Wanted) \in Nat
  BY <1>2
<1>8. HasLength(CurrentRange(m)) => Before(m.index) + CurrentRange(m).length <= Len(Wanted)
  BY <1>2, <1>3, Zenon DEF CurrentRange
<1> QED
  BY <1>1, <1>2, <1>6, <1>7, <1>8, Zenon DEF CurrentRange

(* StartTransfer marks the base fetcher as active.                         *)
LEMMA StartedFacts ==
    ASSUME NEW m \in MultiStates, NEW n, n = [m EXCEPT !.received = 0, !.active = TRUE]
    PROVE  /\ n \in MultiStates /\ n.pending = m.pending /\ n.terminating = m.terminating
           /\ n.active = TRUE /\ n.index = m.index /\ n.received = 0
BY Zenon DEF MultiStates

(* What TransferEnded leaves: either the next range begins, with all of    *)
(* this one handed over, or the transfer is over, and a success means that *)
(* what had to come has come.                                              *)
LEMMA EndedFacts ==
    ASSUME ranges \in Requests, NEW m, NEW d, Calling(m, d), NEW successful \in BOOLEAN,
           NEW r, r = TransferEnded(m, d, successful)
    PROVE  /\ Answer(r, d)
           /\ r.begin => /\ ~m.terminating /\ HasLength(CurrentRange(m))
                         /\ m.received >= CurrentRange(m).length
<1>1. /\ m \in MultiStates /\ d \in Downloads /\ m.active /\ m.index \in 1..Len(ranges)
      /\ d.begun /\ d.outcome = "none" /\ d.asked = m.terminating
      /\ InOrder(d.stream) /\ Len(d.stream) = Place(m)
  BY Zenon DEF Calling
<1>2. /\ CurrentRange(m).offset \in Nat /\ CurrentRange(m).length \in Nat
      /\ Before(m.index) \in Nat
      /\ m.index < Len(ranges) =>
            /\ HasLength(CurrentRange(m)) /\ m.index + 1 \in 1..Len(ranges)
            /\ Before(m.index + 1) = Before(m.index) + CurrentRange(m).length
      /\ m.index = Len(ranges) => Needed = Before(m.index) + CurrentRange(m).length
      /\ Len(ranges) \in 0..2
  BY <1>1, CurrentFacts, Zenon
<1>3. MultiReset \in MultiStates /\ MultiReset = [active |-> FALSE, pending |-> FALSE,
         terminating |-> FALSE, index |-> 1, received |-> 0]
  BY DEF MultiReset, MultiStates
<1> DEFINE Closing(o) == Stay(MultiReset, [d EXCEPT !.outcome = o], m.active)
<1>4. ASSUME NEW o \in {"success", "failure", "terminated"}, r = Closing(o),
             o = "terminated" <=> m.terminating, o = "success" => Len(d.stream) >= Needed
      PROVE  Answer(r, d) /\ r.begin = FALSE
  <2>1. /\ r.multi = MultiReset /\ r.dl = [d EXCEPT !.outcome = o] /\ r.checks = TRUE
        /\ r.begin = FALSE
        /\ r = [multi |-> r.multi, dl |-> r.dl, checks |-> r.checks, begin |-> r.begin]
    BY <1>1, <1>4 DEF Stay, MultiStates
  <2>2. /\ r.dl \in Downloads /\ r.dl.stream = d.stream /\ r.dl.suspended = d.suspended
        /\ r.dl.begun /\ r.dl.outcome = o /\ r.dl.asked = d.asked
    BY <1>1, <2>1 DEF Downloads, Promise!Outcomes
  <2>3. r.dl.asked = (r.dl.outcome = "terminated")
    BY <1>1, <1>4, <2>2, Zenon DEF MultiStates, Downloads
  <2>4. o # "none" /\ (o = "success" => Len(r.dl.stream) >= Needed)
    BY <1>4, <2>2
  <2> QED
    <3>1. r.multi \in MultiStates /\ r.multi.pending = FALSE /\ r.multi.terminating = FALSE
      BY <1>3, <2>1
    <3>2. Settled(r.multi, r.dl)
      BY <1>1, <2>2, <2>3, <2>4, <3>1, Zenon DEF Settled, Running
    <3> QED
      BY <2>1, <2>2, <2>4, <3>2, Zenon DEF Answer
<1>5. CASE m.terminating
  <2>1. r = Closing("terminated")
    BY <1>5 DEF TransferEnded
  <2> QED
    BY <1>4, <1>5, <2>1, Zenon
<1> DEFINE short == HasLength(CurrentRange(m)) /\ m.received < CurrentRange(m).length
<1>6. CASE ~m.terminating /\ short
  <2>1. r = Closing("failure")
    BY <1>6 DEF TransferEnded
  <2> QED
    BY <1>4, <1>6, <2>1, Zenon
<1>7. CASE ~m.terminating /\ ~short /\ m.index < Len(ranges)
  <2>1. r = StartTransfer([m EXCEPT !.pending = FALSE, !.index = @ + 1], d, m.active)
    BY <1>7 DEF TransferEnded
  <2> DEFINE n == [m EXCEPT !.pending = FALSE, !.index = @ + 1]
  <2>2. n \in MultiStates /\ n.index = m.index + 1 /\ ~n.pending /\ ~n.terminating
    <3>1. m.index \in Nat /\ m.index + 1 \in Nat
      BY <1>1 DEF MultiStates
    <3>2. n \in MultiStates
      BY <1>1, <3>1, Zenon DEF MultiStates
    <3>3. n.index = m.index + 1 /\ n.pending = FALSE /\ n.terminating = m.terminating
      BY <1>1 DEF MultiStates
    <3> QED
      BY <1>7, <3>2, <3>3, Zenon
  <2>3. ranges[n.index].offset \in Nat
    BY <1>2, <1>7, <2>2, RangeFacts
  <2> HIDE DEF n
  <2>4. /\ r.multi = [n EXCEPT !.received = 0, !.active = TRUE]
        /\ r.dl = [d EXCEPT !.offset = ranges[n.index].offset]
        /\ r.checks = TRUE /\ r.begin = TRUE
        /\ r = [multi |-> r.multi, dl |-> r.dl, checks |-> r.checks, begin |-> r.begin]
    BY <1>1, <2>1 DEF StartTransfer, MultiStates, n
  <2>5. /\ r.multi \in MultiStates /\ ~r.multi.pending /\ ~r.multi.terminating
        /\ r.multi.active /\ r.multi.index = m.index + 1 /\ r.multi.received = 0
    <3>1. /\ r.multi \in MultiStates
          /\ r.multi.pending = n.pending /\ r.multi.terminating = n.terminating
          /\ r.multi.active = TRUE /\ r.multi.index = n.index /\ r.multi.received = 0
      BY <2>2, <2>4, StartedFacts, Zenon
    <3> QED
      BY <2>2, <3>1, Zenon
  <2>6. /\ r.dl \in Downloads /\ r.dl.stream = d.stream /\ r.dl.suspended = d.suspended
        /\ r.dl.begun /\ r.dl.outcome = "none" /\ r.dl.asked = FALSE
    BY <1>1, <1>7, <2>3, <2>4, SMTT(30) DEF Downloads
  <2>7. m.received \in Nat /\ m.received >= CurrentRange(m).length
    BY <1>1, <1>2, <1>7 DEF MultiStates
  <2>8. Len(r.dl.stream) = Before(m.index) + CurrentRange(m).length
    BY <1>1, <1>2, <1>7, <2>6, <2>7 DEF Place
  <2>9. Len(r.dl.stream) = Before(r.multi.index) + r.multi.received
    BY <1>2, <1>7, <2>5, <2>8
  <2>10. HasLength(CurrentRange(r.multi)) => r.multi.received < CurrentRange(r.multi).length
    BY <2>5 DEF HasLength
  <2> QED
    BY <1>1, <1>2, <1>7, <2>4, <2>5, <2>6, <2>7, <2>9, <2>10, Zenon DEF Settled, Running, Answer
<1>8. CASE ~m.terminating /\ ~short /\ ~(m.index < Len(ranges))
  <2>1. PICK o \in {"success", "failure"} : r = Closing(o)
    BY <1>8 DEF TransferEnded
  <2>2. m.index = Len(ranges) /\ m.received \in Nat
    BY <1>1, <1>2, <1>8 DEF MultiStates
  <2>3. Len(d.stream) >= Needed
    BY <1>1, <1>2, <1>8, <2>2 DEF Place, HasLength
  <2> QED
    BY <1>4, <1>8, <2>1, <2>3, Zenon
<1> QED
  BY <1>5, <1>6, <1>7, <1>8

(* BeginTransfer: the first range begins, or there is nothing to wait for. *)
LEMMA BegunFacts ==
    ASSUME MultiInv, ~dl.begun, NEW r, r = BeginTransfer(multi, dl)
    PROVE  Answer(r, dl)
<1>1. /\ ranges \in Requests /\ multi = MultiReset /\ dl \in Downloads /\ dl.outcome = "none"
      /\ dl.asked = FALSE /\ InOrder(dl.stream) /\ Len(dl.stream) = 0 /\ ~dl.suspended
  BY Zenon DEF MultiInv, Settled
<1>2. MultiReset \in MultiStates /\ MultiReset = [active |-> FALSE, pending |-> FALSE,
         terminating |-> FALSE, index |-> 1, received |-> 0]
  BY DEF MultiReset, MultiStates
<1> DEFINE begun == [dl EXCEPT !.begun = TRUE]
<1>3. /\ begun \in Downloads /\ begun.begun = TRUE /\ begun.outcome = "none"
      /\ begun.stream = dl.stream /\ begun.suspended = dl.suspended /\ begun.asked = FALSE
  BY <1>1, Zenon DEF Downloads
<1>4. CASE ranges = << >>
  <2>1. r = Stay(multi, [begun EXCEPT !.outcome = "success"], TRUE)
    BY <1>1, <1>2, <1>4, Zenon DEF BeginTransfer
  <2> HIDE DEF begun
  <2>2. /\ r.multi = MultiReset /\ r.dl = [begun EXCEPT !.outcome = "success"]
        /\ r.checks = TRUE /\ r.begin = FALSE
        /\ r = [multi |-> r.multi, dl |-> r.dl, checks |-> r.checks, begin |-> r.begin]
    BY <1>1, <2>1 DEF Stay
  <2>3. /\ r.dl \in Downloads /\ r.dl.stream = dl.stream /\ r.dl.suspended = dl.suspended
        /\ r.dl.begun = TRUE /\ r.dl.outcome = "success" /\ r.dl.asked = FALSE
    BY <1>3, <2>2 DEF Downloads, Promise!Outcomes
  <2>4. Needed = 0
    BY <1>1, <1>4, WantedFacts, Zenon
  <2> QED
    <3>1. Len(r.dl.stream) >= Needed
      BY <1>1, <2>3, <2>4
    <3>2. r.multi \in MultiStates /\ r.multi.pending = FALSE /\ r.multi.terminating = FALSE
      BY <1>2, <2>2
    <3>3. "success" # "none" /\ "success" # "terminated"
      OBVIOUS
    <3> QED
      BY <1>1, <2>2, <2>3, <3>1, <3>2, <3>3, Zenon DEF Settled, Running, Answer
<1>5. CASE ranges # << >>
  <2>1. 1 \in 1..Len(ranges) /\ ranges[1].offset \in Nat
    <3>1. ranges \in Seq([offset : Nat, length : Nat]) /\ Len(ranges) \in 0..2
          /\ \A k \in 1..Len(ranges) : ranges[k].offset \in Nat
      BY <1>1, RangeFacts, Zenon
    <3>2. Len(ranges) # 0
      <4> DEFINE R == [offset : Nat, length : Nat]
      <4>1. ranges \in Seq(R)
        BY <3>1
      <4> HIDE DEF R
      <4> QED
        BY <1>5, <4>1
    <3> QED
      BY <3>1, <3>2
  <2>2. r = StartTransfer([multi EXCEPT !.index = 1], begun, TRUE)
    BY <1>1, <1>2, <1>5, Zenon DEF BeginTransfer
  <2> HIDE DEF begun
  <2>3. [multi EXCEPT !.index = 1] = MultiReset
    BY <1>1, <1>2
  <2>4. /\ r.multi = [MultiReset EXCEPT !.received = 0, !.active = TRUE]
        /\ r.dl = [begun EXCEPT !.offset = ranges[1].offset]
        /\ r.checks = TRUE /\ r.begin = TRUE
        /\ r = [multi |-> r.multi, dl |-> r.dl, checks |-> r.checks, begin |-> r.begin]
    <3>1. MultiReset.index = 1
      BY <1>2
    <3>2. r = StartTransfer(MultiReset, begun, TRUE)
      BY <2>2, <2>3, Zenon
    <3> QED
      BY <3>1, <3>2 DEF StartTransfer
  <2>5. /\ r.multi \in MultiStates /\ r.multi.pending = FALSE /\ r.multi.terminating = FALSE
        /\ r.multi.active = TRUE /\ r.multi.index = 1 /\ r.multi.received = 0
    BY <1>2, <2>4, Zenon DEF MultiStates
  <2>6. /\ r.dl \in Downloads /\ r.dl.stream = dl.stream /\ r.dl.suspended = dl.suspended
        /\ r.dl.begun = TRUE /\ r.dl.outcome = "none" /\ r.dl.asked = FALSE
    BY <1>3, <2>1, <2>4 DEF Downloads
  <2>7. Len(r.dl.stream) = Before(r.multi.index) + r.multi.received
    BY <1>1, <2>5, <2>6 DEF Before
  <2>8. HasLength(CurrentRange(r.multi)) => r.multi.received < CurrentRange(r.multi).length
    BY <2>5 DEF HasLength
  <2> QED
    BY <1>1, <2>1, <2>4, <2>5, <2>6, <2>7, <2>8, Zenon DEF Settled, Running, Answer
<1> QED
  BY <1>4, <1>5

(* More of what is wanted keeps the order.                                 *)
LEMMA MoreInOrder ==
    ASSUME NEW w \in Seq(Nat), NEW s \in Seq(Nat), NEW e \in Seq(Nat),
           Len(s) + Len(e) <= Len(w),
           \A i \in 1..Len(s) : s[i] = w[i],
           \A j \in 1..Len(e) : w[Len(s) + j] = e[j]
    PROVE  /\ s \o e \in Seq(Nat) /\ Len(s \o e) = Len(s) + Len(e)
           /\ \A i \in 1..Len(s \o e) : (s \o e)[i] = w[i]
<1>1. s \o e \in Seq(Nat) /\ Len(s \o e) = Len(s) + Len(e)
  OBVIOUS
<1>2. \A i \in 1..(Len(s) + Len(e)) : (s \o e)[i] = IF i <= Len(s) THEN s[i] ELSE e[i - Len(s)]
  OBVIOUS
<1>3. Len(s) \in Nat /\ Len(e) \in Nat
  OBVIOUS
<1>4. ASSUME NEW i \in 1..(Len(s) + Len(e)) PROVE (s \o e)[i] = w[i]
  <2>1. CASE i <= Len(s)
    BY <1>2, <1>3, <2>1
  <2>2. CASE ~(i <= Len(s))
    <3>1. i - Len(s) \in 1..Len(e) /\ Len(s) + (i - Len(s)) = i
      BY <1>3, <2>2
    <3>2. (s \o e)[i] = e[i - Len(s)]
      BY <1>2, <2>2
    <3>3. w[Len(s) + (i - Len(s))] = e[i - Len(s)]
      BY <3>1
    <3> QED
      BY <3>1, <3>2, <3>3
  <2> QED
    BY <2>1, <2>2
<1> QED
  BY <1>1, <1>4

(* A piece of the file.                                                    *)
LEMMA PieceFacts ==
    ASSUME NEW k \in Nat, NEW at \in Nat
    PROVE  LET e == [i \in 1..k |-> at + i - 1]
           IN  e \in Seq(Nat) /\ Len(e) = k /\ \A i \in 1..k : e[i] = at + i - 1
<1>1. \A i \in 1..k : at + i - 1 \in Nat
  OBVIOUS
<1> QED
  BY <1>1

(* The bytes are counted, those past the end of the range included, and    *)
(* the flags are set.                                                      *)
LEMMA CountedFacts ==
    ASSUME NEW m \in MultiStates, NEW n \in Nat, NEW c, c = [m EXCEPT !.received = @ + n]
    PROVE  /\ c \in MultiStates /\ c.received = m.received + n /\ c.index = m.index
           /\ c.active = m.active /\ c.pending = m.pending /\ c.terminating = m.terminating
<1>1. m.received \in Nat /\ m.received + n \in Nat
  BY DEF MultiStates
<1> QED
  BY <1>1 DEF MultiStates

(* The flags of a transfer that the delegate terminates.                   *)
LEMMA FlaggedFacts ==
    ASSUME NEW m \in MultiStates, NEW c, c = [m EXCEPT !.terminating = TRUE, !.pending = TRUE]
    PROVE  /\ c \in MultiStates /\ c.received = m.received /\ c.index = m.index
           /\ c.active = m.active /\ c.pending = TRUE /\ c.terminating = TRUE
BY Zenon DEF MultiStates

(* The flag of a range whose end has been seen.                            *)
LEMMA PendingFacts ==
    ASSUME NEW m \in MultiStates, NEW p \in BOOLEAN, NEW c, c = [m EXCEPT !.pending = p]
    PROVE  /\ c \in MultiStates /\ c.received = m.received /\ c.index = m.index
           /\ c.active = m.active /\ c.pending = p /\ c.terminating = m.terminating
BY DEF MultiStates

(* What ReceivedBytes leaves: the bytes of the range that had not come,    *)
(* and whether that was the last of them.                                  *)
Taken(r, m, d, n) ==
    /\ Calling(r.multi, r.dl)
    /\ r.checks = TRUE
    /\ r.end \in BOOLEAN
    /\ ~r.end => Settled(r.multi, r.dl)
    /\ r.multi.index = m.index /\ r.multi.received = m.received + n
    /\ r.dl.suspended = d.suspended
    /\ Len(r.dl.stream) >= Len(d.stream)

(* Bytes that continue the range where it stands are taken.                *)
LEMMA ReceivedFacts ==
    ASSUME ranges \in Requests, NEW m, NEW d, Settled(m, d), Running(d),
           NEW at, at = CurrentRange(m).offset + m.received,
           NEW n \in Nat \ {0}, at + n <= FileSize,
           NEW accepted \in BOOLEAN,
           NEW r, r = ReceivedBytes(m, d, at, n, accepted)
    PROVE  Taken(r, m, d, n)
<1>1. /\ m \in MultiStates /\ d \in Downloads /\ m.active /\ m.index \in 1..Len(ranges)
      /\ d.begun /\ d.outcome = "none" /\ d.asked = FALSE /\ m.pending = FALSE
      /\ m.terminating = FALSE
      /\ InOrder(d.stream) /\ Len(d.stream) = Before(m.index) + m.received
      /\ HasLength(CurrentRange(m)) => m.received < CurrentRange(m).length
  <2>1. m.pending \in BOOLEAN /\ m.terminating \in BOOLEAN /\ "none" # "terminated"
    BY DEF Settled, MultiStates
  <2> QED
    BY <2>1, Zenon DEF Settled, Running
<1>2. /\ CurrentRange(m).offset \in Nat /\ CurrentRange(m).length \in Nat
      /\ Before(m.index) \in Nat /\ Len(ranges) \in 0..2
      /\ HasLength(CurrentRange(m)) =>
            Before(m.index) + CurrentRange(m).length <= Len(Wanted)
      /\ Len(Wanted) \in Nat
  BY <1>1, CurrentFacts, Zenon
<1>3. m.received \in Nat /\ m.index \in Nat /\ d.stream \in Seq(Nat) /\ d.offset \in Nat /\ at \in Nat
  BY <1>1, <1>2 DEF MultiStates, Downloads
<1> DEFINE range == CurrentRange(m)
           next == IF HasLength(range) /\ range.length - m.received < n
                   THEN range.length - m.received ELSE n
           counted == [m EXCEPT !.received = @ + n]
           more == d.stream \o [i \in 1..next |-> at + i - 1]
           given == [d EXCEPT !.offset = @ + next,
                              !.stream = @ \o [i \in 1..next |-> at + i - 1]]
           done == HasLength(range) /\ counted.received >= range.length
<1>4. next \in Nat
  BY <1>1, <1>2, <1>3
<1>5. Len(d.stream) + next <= Len(Wanted) /\ m.received + next <= Size(m.index)
  <2>1. CASE HasLength(range)
    <3>1. Size(m.index) = range.length
      BY <1>1, <2>1, RangeFacts, PositionFacts, Zenon DEF Size, CurrentRange
    <3> QED
      BY <1>1, <1>2, <1>3, <2>1, <3>1, SMTT(30)
  <2>2. CASE ~HasLength(range)
    <3>1. Size(m.index) = IF FileSize > range.offset THEN FileSize - range.offset ELSE 0
      BY <1>1, <2>2, RangeFacts, PositionFacts, Zenon DEF Size, CurrentRange
    <3>2. Before(m.index) + Size(m.index) <= Len(Wanted)
      BY <1>1, WantedFacts, Zenon
    <3>3. next = n
      BY <2>2
    <3>4. FileSize > range.offset /\ m.received + n <= FileSize - range.offset
      BY <1>2, <1>3, FileAssumption
    <3>5. Size(m.index) = FileSize - range.offset /\ Size(m.index) \in Nat
      BY <1>2, <3>1, <3>4, FileAssumption
    <3> HIDE DEF next, range
    <3> QED
      BY <1>1, <1>2, <1>3, <3>2, <3>3, <3>4, <3>5
  <2> QED
    BY <2>1, <2>2
<1>6. \A j \in 1..next : Wanted[Len(d.stream) + j] = at + j - 1
  <2> HIDE DEF next
  <2> TAKE j \in 1..next
  <2>1. m.received + j \in 1..Size(m.index)
    <3>1. Size(m.index) \in Nat
      BY <1>1, WantedFacts, Zenon
    <3> QED
      BY <1>3, <1>4, <1>5, <3>1
  <2>2. Wanted[Before(m.index) + (m.received + j)] = ranges[m.index].offset + (m.received + j) - 1
    BY <1>1, <2>1, WantedFacts, Zenon
  <2>3. ranges[m.index].offset = range.offset
    BY DEF CurrentRange
  <2>4. Before(m.index) + (m.received + j) = Len(d.stream) + j
    BY <1>1, <1>2, <1>3, <1>4
  <2>5. range.offset + (m.received + j) - 1 = at + j - 1
    BY <1>2, <1>3, <1>4, SMTT(30)
  <2> HIDE DEF range
  <2> QED
    BY <2>2, <2>3, <2>4, <2>5, Zenon
<1>7. more \in Seq(Nat) /\ Len(more) = Len(d.stream) + next /\ InOrder(more)
  <2>1. Wanted \in Seq(Nat)
    BY WantedFacts, Zenon
  <2>2. \A i \in 1..Len(d.stream) : d.stream[i] = Wanted[i]
    BY <1>1, Zenon DEF InOrder
  <2>3. more = d.stream \o [i \in 1..next |-> at + i - 1]
    BY Zenon
  <2> HIDE DEF next, more
  <2>4. /\ d.stream \in Seq(Nat) /\ next \in Nat /\ at \in Nat
        /\ Len(d.stream) + next <= Len(Wanted)
    BY <1>3, <1>4, <1>5, Zenon
  <2>5. more \in Seq(Nat) /\ Len(more) = Len(d.stream) + next /\ \A i \in 1..Len(more) : more[i] = Wanted[i]
    <3> DEFINE e == [i \in 1..next |-> at + i - 1]
    <3>1. e \in Seq(Nat) /\ Len(e) = next /\ \A i \in 1..next : e[i] = at + i - 1
      BY <2>4, PieceFacts
    <3>2. more = d.stream \o e
      BY <2>3
    <3> HIDE DEF e
    <3>3. \A j \in 1..Len(e) : Wanted[Len(d.stream) + j] = e[j]
      BY <1>6, <3>1, Zenon
    <3>4. Len(d.stream) + Len(e) <= Len(Wanted)
      BY <2>4, <3>1, Zenon
    <3> QED
      BY <2>1, <2>2, <2>4, <3>1, <3>2, <3>3, <3>4, MoreInOrder, ZenonT(30)
  <2> QED
    BY <2>4, <2>5, Zenon DEF InOrder
<1>8. /\ counted \in MultiStates /\ counted.received = m.received + n /\ counted.index = m.index
      /\ counted.active = m.active /\ counted.pending = FALSE /\ counted.terminating = FALSE
  <2>1. n \in Nat
    OBVIOUS
  <2> QED
    BY <1>1, <2>1, CountedFacts, ZenonT(30)
<1>9. /\ given \in Downloads /\ given.stream = more /\ given.begun = d.begun
      /\ given.outcome = d.outcome /\ given.suspended = d.suspended /\ given.asked = FALSE
  <2> HIDE DEF next
  <2>1. d.offset + next \in Nat
    BY <1>3, <1>4
  <2> QED
    BY <1>1, <1>7, <2>1, Zenon DEF Downloads
<1>10. /\ r.multi = IF ~accepted THEN [counted EXCEPT !.terminating = TRUE, !.pending = TRUE]
                     ELSE [counted EXCEPT !.pending = done]
       /\ r.dl = IF accepted THEN given ELSE [given EXCEPT !.asked = TRUE]
       /\ r.checks = (~m.pending /\ m.index <= Len(ranges))
       /\ r.end = (~accepted \/ done)
  BY DEF ReceivedBytes
<1> HIDE DEF counted, given, next, more
<1>11. /\ r.multi \in MultiStates /\ r.multi.received = m.received + n /\ r.multi.index = m.index
       /\ r.multi.active = TRUE /\ r.multi.terminating = ~accepted
       /\ accepted => r.multi.pending = done
  <2>1. done \in BOOLEAN /\ m.active = TRUE
    BY <1>1 DEF MultiStates
  <2>2. CASE accepted
    <3>1. r.multi = [counted EXCEPT !.pending = done]
      BY <1>10, <2>2, Zenon
    <3> HIDE DEF done
    <3>2. /\ r.multi \in MultiStates /\ r.multi.received = counted.received
          /\ r.multi.index = counted.index /\ r.multi.active = counted.active
          /\ r.multi.pending = done /\ r.multi.terminating = counted.terminating
      BY <1>8, <2>1, <3>1, PendingFacts
    <3> QED
      BY <1>8, <2>1, <2>2, <3>2, Zenon
  <2>3. CASE ~accepted
    <3>1. r.multi = [counted EXCEPT !.terminating = TRUE, !.pending = TRUE]
      BY <1>10, <2>3, Zenon
    <3>2. /\ r.multi \in MultiStates /\ r.multi.received = counted.received
          /\ r.multi.index = counted.index
          /\ r.multi.active = counted.active /\ r.multi.terminating = TRUE
      BY <1>8, <3>1, FlaggedFacts, Zenon
    <3> QED
      BY <1>8, <2>1, <2>3, <3>2, Zenon
  <2> QED
    BY <2>2, <2>3, Zenon
<1>12. /\ r.dl \in Downloads /\ r.dl.stream = more /\ r.dl.begun = d.begun
       /\ r.dl.outcome = d.outcome /\ r.dl.suspended = d.suspended /\ r.dl.asked = ~accepted
  <2>1. CASE accepted
    BY <1>9, <1>10, <2>1, Zenon
  <2>2. CASE ~accepted
    <3>1. r.dl = [given EXCEPT !.asked = TRUE]
      BY <1>10, <2>2, Zenon
    <3> QED
      BY <1>9, <2>2, <3>1, Zenon DEF Downloads
  <2> QED
    BY <2>1, <2>2
<1>13. Len(r.dl.stream) = Place(r.multi)
  <2>1. CurrentRange(r.multi) = range
    BY <1>11 DEF CurrentRange
  <2>2. Len(r.dl.stream) = Before(m.index) + m.received + next
    BY <1>1, <1>2, <1>3, <1>4, <1>7, <1>12
  <2>3. Place(r.multi) = Before(m.index) + (IF HasLength(range) /\ m.received + n > range.length
                                           THEN range.length ELSE m.received + n)
    BY <1>11, <2>1, Zenon DEF Place
  <2>4. next = IF HasLength(range) /\ range.length - m.received < n
               THEN range.length - m.received ELSE n
    BY Zenon DEF next
  <2>5. range.length \in Nat /\ Before(m.index) \in Nat /\ m.received \in Nat
    BY <1>2, <1>3, Zenon
  <2> HIDE DEF range
  <2> QED
    BY <2>2, <2>3, <2>4, <2>5
<1>14. Calling(r.multi, r.dl)
  BY <1>1, <1>7, <1>11, <1>12, <1>13, Zenon DEF Calling
<1>15. ~r.end => Settled(r.multi, r.dl)
  <2> SUFFICES ASSUME ~r.end PROVE Settled(r.multi, r.dl)
    BY Zenon
  <2>1. accepted /\ ~done
    BY <1>10, Zenon
  <2>2. /\ r.multi.pending = FALSE /\ r.multi.terminating = FALSE
        /\ r.dl.asked = FALSE /\ r.dl.outcome = "none"
    BY <1>1, <1>11, <1>12, <2>1, Zenon
  <2>3. CurrentRange(r.multi) = range
    BY <1>11 DEF CurrentRange
  <2>4. HasLength(range) => r.multi.received < range.length
    <3>1. range.length \in Nat /\ m.received \in Nat
      BY <1>2, <1>3, Zenon
    <3>2. HasLength(range) => ~(m.received + n >= range.length)
      BY <1>8, <2>1, Zenon
    <3> HIDE DEF range
    <3> QED
      BY <1>11, <3>1, <3>2
  <2>5. Len(r.dl.stream) = Before(r.multi.index) + r.multi.received
    BY <1>2, <1>3, <1>11, <1>13, <2>3, <2>4 DEF Place
  <2> QED
    BY <1>1, <1>7, <1>11, <1>12, <2>2, <2>3, <2>4, <2>5, Zenon DEF Settled
<1>16. Len(r.dl.stream) >= Len(d.stream)
  BY <1>3, <1>4, <1>7, <1>12
<1>17. r.checks = TRUE /\ r.end \in BOOLEAN
  <2>1. m.index <= Len(ranges)
    BY <1>1, <1>2, <1>3
  <2> QED
    BY <1>1, <1>10, <2>1, Zenon
<1> QED
  BY <1>11, <1>12, <1>14, <1>15, <1>16, <1>17, Zenon DEF Taken

(* What TerminateTransfer leaves: the transfer is over.                    *)
LEMMA TerminateFacts ==
    ASSUME ranges \in Requests, NEW m, NEW d, Settled(m, d), Running(d),
           NEW r, r = TerminateTransfer(m, d)
    PROVE  Answer(r, d) /\ ~r.begin
<1> DEFINE n == [m EXCEPT !.terminating = TRUE, !.pending = TRUE]
           a == [d EXCEPT !.asked = TRUE]
<1>1. /\ m \in MultiStates /\ d \in Downloads /\ m.active /\ m.index \in 1..Len(ranges)
      /\ d.begun /\ d.outcome = "none" /\ InOrder(d.stream)
      /\ Len(d.stream) = Before(m.index) + m.received
      /\ HasLength(CurrentRange(m)) => m.received < CurrentRange(m).length
  BY Zenon DEF Settled, Running
<1>2. r = TransferEnded(n, a, FALSE)
  BY <1>1 DEF TerminateTransfer
<1>3. /\ n \in MultiStates /\ n.received = m.received /\ n.index = m.index
      /\ n.active = m.active /\ n.terminating = TRUE
  BY <1>1, FlaggedFacts, Zenon
<1>4. /\ a \in Downloads /\ a.stream = d.stream /\ a.begun = d.begun
      /\ a.outcome = d.outcome /\ a.suspended = d.suspended /\ a.asked = TRUE
  BY <1>1, Zenon DEF Downloads
<1> HIDE DEF n, a
<1>5. /\ CurrentRange(m).length \in Nat /\ Before(m.index) \in Nat
  BY <1>1, CurrentFacts, Zenon
<1>6. Place(n) = Before(m.index) + m.received
  <2>1. CurrentRange(n) = CurrentRange(m) /\ m.received \in Nat
    BY <1>1, <1>3 DEF CurrentRange, MultiStates
  <2>2. ~(HasLength(CurrentRange(m)) /\ m.received > CurrentRange(m).length)
    BY <1>1, <1>5, <2>1
  <2> QED
    BY <1>3, <2>1, <2>2, Zenon DEF Place
<1>7. Calling(n, a)
  BY <1>1, <1>3, <1>4, <1>6, Zenon DEF Calling
<1>8. Answer(r, a) /\ (r.begin => ~n.terminating)
  <2>1. FALSE \in BOOLEAN
    OBVIOUS
  <2> QED
    BY <1>2, <1>7, <2>1, EndedFacts, Zenon
<1> QED
  BY <1>3, <1>4, <1>8, Zenon DEF Answer

(* Between two calls a running transfer is in the state of a call.         *)
LEMMA SettledCalls ==
    ASSUME ranges \in Requests, NEW m, NEW d, Settled(m, d), Running(d)
    PROVE  Calling(m, d) /\ m.terminating = FALSE
<1>1. /\ m \in MultiStates /\ d \in Downloads /\ m.active /\ m.index \in 1..Len(ranges)
      /\ d.begun /\ d.outcome = "none" /\ InOrder(d.stream)
      /\ Len(d.stream) = Before(m.index) + m.received
      /\ HasLength(CurrentRange(m)) => m.received < CurrentRange(m).length
  BY Zenon DEF Settled, Running
<1>2. m.terminating = FALSE /\ d.asked = FALSE
  <2>1. m.terminating \in BOOLEAN /\ "none" # "terminated"
    BY <1>1 DEF MultiStates
  <2> QED
    BY <2>1, Zenon DEF Settled, Running
<1>3. /\ CurrentRange(m).length \in Nat /\ Before(m.index) \in Nat /\ m.received \in Nat
  BY <1>1, CurrentFacts DEF MultiStates
<1>4. Place(m) = Before(m.index) + m.received
  <2>2. ~(HasLength(CurrentRange(m)) /\ m.received > CurrentRange(m).length)
    BY <1>1, <1>3
  <2> QED
    BY <2>2, Zenon DEF Place
<1> QED
  BY <1>1, <1>2, <1>4, Zenon DEF Calling

-----------------------------------------------------------------------------
(* The ranges never change, so that what is said of them is not either.    *)
LEMMA SameRanges ==
    ASSUME ranges' = ranges
    PROVE  /\ Wanted' = Wanted /\ Needed' = Needed
           /\ \A k : Before(k)' = Before(k)
           /\ \A m : CurrentRange(m)' = CurrentRange(m)
           /\ \A m, d : Settled(m, d)' = Settled(m, d)
<1>1. Wanted' = Wanted /\ Needed' = Needed
  BY Zenon DEF Wanted, Needed
<1>2. \A k : Before(k)' = Before(k)
  BY Zenon DEF Before
<1>3. \A m : CurrentRange(m)' = CurrentRange(m)
  BY Zenon DEF CurrentRange
<1>4. \A s : InOrder(s)' = InOrder(s)
  BY <1>1, Zenon DEF InOrder
<1>5. ASSUME NEW m, NEW d PROVE Settled(m, d)' = Settled(m, d)
  BY <1>1, <1>2, <1>3, <1>4 DEF Settled, Running, MultiReset
<1> QED
  BY <1>1, <1>2, <1>3, <1>5, Zenon

(* What a step does to the bytes handed over.                              *)
Handed ==
    /\ ranges' = ranges
    /\ dl' = dl \/ (dl.outcome = "none" /\ Len(dl'.stream) >= Len(dl.stream))
Silent == dl.suspended /\ dl'.suspended => dl'.stream = dl.stream

(* A fetcher that waits for nothing, as CleanUp leaves it.                 *)
Stopped(c) == ~c.resolving /\ ~c.retry /\ ~c.inProgress /\ ~c.paused /\ ~c.restartOnUnpause

(* CleanUp leaves nothing to wait for but the proxies.                     *)
LEMMA CleanUpFacts ==
    ASSUME NEW c \in CurlStates, NEW e, e = CleanUp(c)
    PROVE  /\ e \in CurlStates /\ e.retry = FALSE /\ e.inProgress = FALSE /\ e.paused = FALSE
           /\ e.restartOnUnpause = FALSE /\ e.resolving = c.resolving /\ e.callback = c.callback
           /\ e.proxies = c.proxies /\ e.bytes = c.bytes /\ e.length = c.length
BY Zenon DEF CurlStates, CleanUp

(* After a method of MultiRangeHttpFetcher that ended a range, called by a *)
(* fetcher that has stopped.                                               *)
LEMMA ContinueKeeps ==
    ASSUME MultiInv, NEW c \in CurlStates, NEW r, NEW d, Answer(r, d), Stopped(c),
           r.begin => ~c.callback /\ ~r.dl.suspended,
           Continue(c, r), conn' \in ConnStates, conn'.state = "none"
    PROVE  /\ MultiInv' /\ CurlOK(curl, conn, multi, dl)'
           /\ ranges' = ranges /\ dl' = r.dl
<1>1. /\ Settled(r.multi, r.dl) /\ r.dl.begun
      /\ r.checks = TRUE
      /\ r.begin = (r.dl.outcome = "none")
      /\ r.begin => r.multi.received = 0
      /\ r = [multi |-> r.multi, dl |-> r.dl, checks |-> r.checks, begin |-> r.begin]
  BY Zenon DEF Answer
<1>2. r.begin => BaseBeginChecks(c)
  BY Zenon DEF Stopped, BaseBeginChecks
<1>3. /\ multi' = r.multi /\ dl' = r.dl /\ checks' = TRUE /\ ranges' = ranges
      /\ curl' = IF r.begin THEN BaseBegin(c, r) ELSE c
  <2> DEFINE q == [r EXCEPT !.checks = @ /\ (r.begin => BaseBeginChecks(c))]
  <2>1. q.multi = r.multi /\ q.dl = r.dl /\ q.checks = TRUE
    BY <1>1, <1>2, Zenon
  <2>2. Returned(q) /\ curl' = IF r.begin THEN BaseBegin(c, r) ELSE c
    BY Zenon DEF Continue
  <2> HIDE DEF q
  <2> QED
    BY <2>1, <2>2, Zenon DEF Returned, MultiInv
<1>4. MultiInv'
  <2>1. Settled(r.multi, r.dl)'
    BY <1>1, <1>3, SameRanges
  <2>2. Settled(multi, dl)'
    BY <1>3, <2>1 DEF Settled, Running
  <2> QED
    BY <1>3, <2>2 DEF MultiInv
<1>5. CASE ~r.begin
  <2>1. curl' = c /\ ~Running(dl)' /\ dl'.begun
    BY <1>1, <1>3, <1>5, Zenon DEF Running
  <2> QED
    BY <1>3, <1>4, <2>1 DEF CurlOK, Waits, Stopped
<1>6. CASE r.begin
  <2>1. curl' = BaseBegin(c, r) /\ Running(r.dl)
    BY <1>1, <1>3, <1>6, Zenon DEF Running
  <2>2. r.multi \in MultiStates /\ r.multi.index \in 1..Len(ranges)
    BY <1>1, <2>1, Zenon DEF Settled
  <2>3. ranges[r.multi.index].offset \in Nat /\ ranges[r.multi.index].length \in Nat
    BY <2>2, RangeFacts, Zenon DEF MultiInv
  <2>4. /\ curl' \in CurlStates
        /\ curl'.resolving = TRUE /\ curl'.callback = TRUE /\ curl'.retry = c.retry
        /\ curl'.inProgress = c.inProgress /\ curl'.paused = c.paused
        /\ curl'.restartOnUnpause = c.restartOnUnpause
        /\ curl'.bytes = ranges[r.multi.index].offset
        /\ curl'.length = ranges[r.multi.index].length
    <3> DEFINE o == ranges[r.multi.index].offset
               l == ranges[r.multi.index].length
    <3>1. curl' = [c EXCEPT !.bytes = o, !.length = l, !.resolving = TRUE, !.callback = TRUE]
      BY <2>1, Zenon DEF BaseBegin
    <3>2. o \in Nat /\ l \in Nat
      BY <2>3, Zenon
    <3> HIDE DEF o, l
    <3>3. /\ curl' \in CurlStates
          /\ curl'.resolving = TRUE /\ curl'.callback = TRUE /\ curl'.retry = c.retry
          /\ curl'.inProgress = c.inProgress /\ curl'.paused = c.paused
          /\ curl'.restartOnUnpause = c.restartOnUnpause
          /\ curl'.bytes = o /\ curl'.length = l
      BY <3>1, <3>2, Zenon DEF CurlStates
    <3> QED
      BY <3>3, Zenon DEF o, l
  <2>5. CurrentRange(multi)' = ranges[r.multi.index] /\ multi'.received = 0
    BY <1>1, <1>3, <1>6 DEF CurrentRange
  <2>6. curl'.bytes = CurrentRange(multi)'.offset + multi'.received
        /\ curl'.length = CurrentRange(multi)'.length
    BY <2>3, <2>4, <2>5
  <2>7. c.paused = FALSE /\ r.dl.suspended = FALSE /\ dl'.suspended = FALSE
    <3>1. c.paused \in BOOLEAN /\ r.dl.suspended \in BOOLEAN
      BY <1>1 DEF CurlStates, Settled, Downloads
    <3> QED
      BY <1>3, <1>6, <3>1 DEF Stopped
  <2>8. CurlBusy(curl, conn, multi, dl)'
    <3>1. WaitsForOne(curl)' /\ ~curl'.inProgress /\ ~curl'.restartOnUnpause
      BY <2>4, Zenon DEF WaitsForOne, Waits, Stopped
    <3>2. "none" # "open" /\ "none" # "closed"
      OBVIOUS
    <3>3. curl'.inProgress = FALSE
      BY <2>4, <3>1 DEF CurlStates
    <3> QED
      BY <2>4, <2>6, <2>7, <3>1, <3>2, <3>3, Zenon DEF CurlBusy
  <2> QED
    BY <1>1, <1>3, <1>4, <2>1, <2>4, <2>8 DEF CurlOK, Running
<1> QED
  BY <1>3, <1>4, <1>5, <1>6

(* A step that leaves MultiRangeHttpFetcher alone, and of the download     *)
(* changes at most whether it is suspended.                                *)
LEMMA SameTransfer ==
    ASSUME MultiInv, Running(dl), ranges' = ranges, multi' = multi, checks' = TRUE,
           dl' = dl \/ \E s \in BOOLEAN : dl' = [dl EXCEPT !.suspended = s]
    PROVE  /\ MultiInv' /\ Running(dl)' /\ CurrentRange(multi)' = CurrentRange(multi)
           /\ Handed /\ Silent
<1>1. ranges \in Requests /\ Settled(multi, dl) /\ dl \in Downloads
  BY DEF MultiInv, Settled
<1>2. /\ dl' \in Downloads /\ dl'.stream = dl.stream /\ dl'.asked = dl.asked
      /\ dl'.outcome = dl.outcome /\ dl'.begun = dl.begun
  BY <1>1 DEF Downloads
<1>3. Running(dl)'
  BY <1>2 DEF Running
<1>4. Settled(multi, dl)'
  <2>1. /\ Needed' = Needed /\ Wanted' = Wanted
        /\ Before(multi.index)' = Before(multi.index)
        /\ CurrentRange(multi)' = CurrentRange(multi)
    BY Zenon DEF Needed, Before, CurrentRange, Wanted
  <2>2. InOrder(dl.stream)'
    BY <1>1, <1>2, <2>1, Zenon DEF Settled, InOrder
  <2> QED
    BY <1>1, <1>2, <1>3, <2>1, <2>2, Zenon DEF Settled, Running, MultiReset
<1>5. CurrentRange(multi)' = CurrentRange(multi)
  BY Zenon DEF CurrentRange
<1>6. Len(dl.stream) \in Nat
  BY <1>1 DEF Downloads
<1> QED
  BY <1>1, <1>2, <1>3, <1>4, <1>5, <1>6 DEF MultiInv, Handed, Silent, Running

(* What a fetcher of a running transfer knows of its range.                *)
Knows(c) ==
    /\ c.length = CurrentRange(multi).length
    /\ c.bytes = CurrentRange(multi).offset + multi.received

(* ResumeTransfer: a connection is opened where the last one broke off.    *)
LEMMA ResumeKeeps ==
    ASSUME MultiInv, Running(dl), ranges' = ranges, multi' = multi, checks' = TRUE,
           dl' = dl \/ \E s \in BOOLEAN : dl' = [dl EXCEPT !.suspended = s],
           NEW c \in CurlStates, Stopped(c), ~c.callback, c.proxies > 0, Knows(c),
           ~dl'.suspended, ResumeTransfer(c)
    PROVE  MultiInv' /\ CurlOK(curl, conn, multi, dl)' /\ Handed /\ Silent
<1>1. /\ MultiInv' /\ Running(dl)' /\ CurrentRange(multi)' = CurrentRange(multi)
      /\ Handed /\ Silent
  BY SameTransfer, Zenon
<1>2. /\ curl' = [c EXCEPT !.ignoreFailure = FALSE, !.inProgress = TRUE,
                           !.resumeOffset = IF c.bytes > 0 \/ c.length > 0 THEN c.bytes ELSE @]
      /\ conn' = [NoConn EXCEPT !.state = "open", !.pos = c.bytes, !.stop = RequestStop(c)]
  BY Zenon DEF ResumeTransfer
<1>3. c.bytes \in Nat /\ c.length \in Nat /\ c.resumeOffset \in Nat
  BY DEF CurlStates
<1>4. /\ curl' \in CurlStates /\ curl'.inProgress = TRUE
      /\ curl'.resolving = c.resolving /\ curl'.callback = c.callback /\ curl'.retry = c.retry
      /\ curl'.paused = c.paused /\ curl'.restartOnUnpause = c.restartOnUnpause
      /\ curl'.proxies = c.proxies /\ curl'.bytes = c.bytes /\ curl'.length = c.length
  <2> DEFINE o == IF c.bytes > 0 \/ c.length > 0 THEN c.bytes ELSE c.resumeOffset
  <2>1. o \in Nat
    BY <1>3
  <2>2. curl' = [c EXCEPT !.ignoreFailure = FALSE, !.inProgress = TRUE, !.resumeOffset = o]
    BY <1>2
  <2> HIDE DEF o
  <2> QED
    BY <2>1, <2>2, Zenon DEF CurlStates
<1>5. RequestStop(c) \in Nat /\ RequestStop(c) <= FileSize
  BY <1>3, FileAssumption DEF RequestStop
<1>6. /\ conn' \in ConnStates /\ conn'.state = "open" /\ conn'.pos = c.bytes
      /\ conn'.stop <= FileSize /\ conn'.paused = FALSE
  <2> DEFINE s == RequestStop(c)
  <2>1. conn' = [state |-> "open", code |-> "0", pos |-> c.bytes, stop |-> s,
                 contentLength |-> 0, paused |-> FALSE, unresolved |-> FALSE]
    BY <1>2, Zenon DEF NoConn
  <2> HIDE DEF s
  <2> QED
    BY <1>3, <1>5, <2>1 DEF ConnStates, s
<1>7. WaitsForOne(curl)' /\ curl'.paused = FALSE /\ dl'.suspended = FALSE
      /\ curl'.callback = FALSE /\ curl'.resolving = FALSE /\ curl'.restartOnUnpause = FALSE
  <2>1. /\ c.paused \in BOOLEAN /\ c.callback \in BOOLEAN /\ c.resolving \in BOOLEAN
        /\ c.restartOnUnpause \in BOOLEAN
    BY DEF CurlStates
  <2>2. dl'.suspended \in BOOLEAN
    BY <1>1 DEF MultiInv, Settled, Downloads
  <2> QED
    BY <1>4, <2>1, <2>2, Zenon DEF WaitsForOne, Waits, Stopped
<1>8. CurlBusy(curl, conn, multi, dl)'
  <2>1. "open" # "none" /\ "open" # "closed"
    OBVIOUS
  <2>2. curl'.length = CurrentRange(multi)'.length
        /\ curl'.bytes = CurrentRange(multi)'.offset + multi'.received
    BY <1>1, <1>4, Zenon DEF Knows
  <2> QED
    BY <1>4, <1>6, <1>7, <2>1, <2>2, Zenon DEF CurlBusy
<1> QED
  BY <1>1, <1>4, <1>6, <1>8, Zenon DEF CurlOK, Running

(* A connection that is put off until Unpause.                             *)
LEMMA PutOffKeeps ==
    ASSUME MultiInv, Running(dl), ranges' = ranges, multi' = multi, checks' = TRUE, dl' = dl,
           NEW c \in CurlStates, ~c.resolving, ~c.retry, ~c.inProgress, ~c.callback,
           c.paused = dl.suspended, c.paused, c.proxies > 0, Knows(c),
           curl' = [c EXCEPT !.restartOnUnpause = TRUE],
           conn \in ConnStates, conn.state = "none", conn' = conn
    PROVE  MultiInv' /\ CurlOK(curl, conn, multi, dl)' /\ Handed /\ Silent
<1>1. /\ MultiInv' /\ Running(dl)' /\ CurrentRange(multi)' = CurrentRange(multi)
      /\ Handed /\ Silent
  BY SameTransfer, Zenon
<1>2. /\ curl' \in CurlStates /\ curl'.inProgress = c.inProgress
      /\ curl'.resolving = c.resolving /\ curl'.callback = c.callback /\ curl'.retry = c.retry
      /\ curl'.paused = c.paused /\ curl'.restartOnUnpause = TRUE
      /\ curl'.proxies = c.proxies /\ curl'.bytes = c.bytes /\ curl'.length = c.length
  BY Zenon DEF CurlStates
<1>3. c.inProgress = FALSE /\ c.callback = FALSE /\ c.resolving = FALSE
  BY DEF CurlStates
<1>4. WaitsForOne(curl)'
  BY <1>2, <1>3, Zenon DEF WaitsForOne, Waits
<1>5. CurlBusy(curl, conn, multi, dl)'
  <2>1. "none" # "open" /\ "none" # "closed"
    OBVIOUS
  <2>2. curl'.length = CurrentRange(multi)'.length
        /\ curl'.bytes = CurrentRange(multi)'.offset + multi'.received
    BY <1>1, <1>2, Zenon DEF Knows
  <2> QED
    BY <1>2, <1>3, <1>4, <2>1, <2>2, Zenon DEF CurlBusy
<1> QED
  BY <1>1, <1>2, <1>5, Zenon DEF CurlOK, Running

(* A running download that is suspended or resumed stays settled.          *)
LEMMA SuspendedFacts ==
    ASSUME MultiInv, Running(dl), NEW d, d = dl \/ \E s \in BOOLEAN : d = [dl EXCEPT !.suspended = s]
    PROVE  Settled(multi, d) /\ Running(d) /\ d.stream = dl.stream /\ d \in Downloads
<1>1. Settled(multi, dl) /\ dl \in Downloads
  BY DEF MultiInv, Settled
<1>2. /\ d \in Downloads /\ d.stream = dl.stream /\ d.asked = dl.asked
      /\ d.outcome = dl.outcome /\ d.begun = dl.begun
  BY <1>1 DEF Downloads
<1> QED
  BY <1>1, <1>2, Zenon DEF Settled, Running

(* A retry is posted.                                                      *)
LEMMA PostRetryKeeps ==
    ASSUME MultiInv, Running(dl), NEW d, d = dl \/ \E s \in BOOLEAN : d = [dl EXCEPT !.suspended = s],
           ~d.suspended, NEW c \in CurlStates, Stopped(c), ~c.callback, c.proxies > 0, Knows(c),
           PostRetry(c, d), conn' = NoConn
    PROVE  MultiInv' /\ CurlOK(curl, conn, multi, dl)' /\ Handed /\ Silent
<1>1. /\ ranges' = ranges /\ multi' = multi /\ checks' = TRUE /\ dl' = d
      /\ curl' = [c EXCEPT !.retry = TRUE, !.ignoreFailure = FALSE]
  BY DEF PostRetry, MultiInv
<1>2. /\ MultiInv' /\ Running(dl)' /\ CurrentRange(multi)' = CurrentRange(multi)
      /\ Handed /\ Silent
  BY <1>1, SameTransfer, Zenon
<1>3. /\ curl' \in CurlStates /\ curl'.inProgress = c.inProgress
      /\ curl'.resolving = c.resolving /\ curl'.callback = c.callback /\ curl'.retry = TRUE
      /\ curl'.paused = c.paused /\ curl'.restartOnUnpause = c.restartOnUnpause
      /\ curl'.proxies = c.proxies /\ curl'.bytes = c.bytes /\ curl'.length = c.length
  BY <1>1, Zenon DEF CurlStates
<1>4. /\ c.inProgress = FALSE /\ c.callback = FALSE /\ c.resolving = FALSE /\ c.paused = FALSE
      /\ c.restartOnUnpause = FALSE
  BY DEF CurlStates, Stopped
<1>5. d.suspended = FALSE
  BY SuspendedFacts DEF Downloads
<1>6. WaitsForOne(curl)'
  BY <1>3, <1>4, Zenon DEF WaitsForOne, Waits
<1>7. conn' \in ConnStates /\ conn'.state = "none"
  BY DEF NoConn, ConnStates
<1>8. CurlBusy(curl, conn, multi, dl)'
  <2>1. "none" # "open" /\ "none" # "closed"
    OBVIOUS
  <2>2. curl'.length = CurrentRange(multi)'.length
        /\ curl'.bytes = CurrentRange(multi)'.offset + multi'.received
    BY <1>1, <1>2, <1>3, Zenon DEF Knows
  <2> QED
    BY <1>1, <1>3, <1>4, <1>5, <1>6, <1>7, <2>1, <2>2, Zenon DEF CurlBusy
<1> QED
  BY <1>2, <1>3, <1>7, <1>8, Zenon DEF CurlOK, Running

(* The counters at the end of a connection.                                *)
LEMMA AccountedFacts ==
    ASSUME NEW c \in CurlStates, ~c.resolving, NEW code \in {"0", "success", "error"},
           NEW unresolved \in BOOLEAN, NEW a, a = Accounted(c, code, unresolved)
    PROVE  /\ a \in CurlStates /\ Stopped(a) /\ a.callback = c.callback
           /\ a.proxies = c.proxies /\ a.bytes = c.bytes /\ a.length = c.length
<1> DEFINE host == IF code # "0" THEN UpdateState(c.host, FALSE)
                   ELSE IF unresolved THEN UpdateState(c.host, TRUE) ELSE c.host
           Hosts == {"kInit", "kRetry", "kNotRetry", "kRetriedSuccess"}
<1>1. c.host \in Hosts /\ c.noNetRetries \in Nat /\ c.noNetMax \in Nat
  BY DEF CurlStates
<1>2. UpdateState(c.host, TRUE) \in Hosts /\ UpdateState(c.host, FALSE) \in Hosts
  BY <1>1 DEF UpdateState
<1>3. host \in Hosts
  BY <1>1, <1>2, Zenon
<1> DEFINE e == CleanUp(c)
<1>4. /\ e \in CurlStates /\ e.retry = FALSE /\ e.inProgress = FALSE /\ e.paused = FALSE
      /\ e.restartOnUnpause = FALSE /\ e.resolving = c.resolving /\ e.callback = c.callback
      /\ e.proxies = c.proxies /\ e.bytes = c.bytes /\ e.length = c.length
  BY CleanUpFacts, Zenon
<1> HIDE DEF e, host
<1> DEFINE retries == IF code # "0" THEN 0 ELSE c.noNetRetries
           bounded == c.noNetMax >= NoNetworkBound
           n == IF host = "kRetry" /\ bounded /\ retries > 0 THEN retries - 1 ELSE retries
           x == IF host = "kRetry" /\ ~bounded THEN e.noNetMax + 1 ELSE e.noNetMax
<1>5. n \in Nat /\ x \in Nat
  <2>1. e.noNetMax \in Nat /\ retries \in Nat
    BY <1>1, <1>4 DEF CurlStates
  <2> QED  BY <2>1
<1>6. a = [e EXCEPT !.host = host, !.noNetRetries = n, !.noNetMax = x]
  BY DEF Accounted, e, host
<1> HIDE DEF n, x
<1>7. /\ a \in CurlStates /\ a.retry = FALSE /\ a.inProgress = FALSE /\ a.paused = FALSE
      /\ a.restartOnUnpause = FALSE /\ a.resolving = c.resolving /\ a.callback = c.callback
      /\ a.proxies = c.proxies /\ a.bytes = c.bytes /\ a.length = c.length
  BY <1>3, <1>4, <1>5, <1>6, Zenon DEF CurlStates
<1> QED
  BY <1>7, Zenon DEF Stopped

(* The end of a connection: another try, or the end of the range.          *)
LEMMA FinishedKeeps ==
    ASSUME MultiInv, Running(dl), NEW d, d = dl \/ \E s \in BOOLEAN : d = [dl EXCEPT !.suspended = s],
           ~d.suspended, NEW c \in CurlStates, ~c.resolving, ~c.callback, c.proxies > 0, Knows(c),
           NEW code \in {"0", "success", "error"}, NEW unresolved \in BOOLEAN,
           Finished(c, d, code, unresolved)
    PROVE  MultiInv' /\ CurlOK(curl, conn, multi, dl)' /\ Handed /\ Silent
<1> DEFINE a == Accounted(c, code, unresolved)
           tries == IF a.ignoreFailure THEN a.retryCount ELSE a.retryCount + 1
           complete(successful) == TransferEnded(multi, d, successful)
           Kept == MultiInv' /\ CurlOK(curl, conn, multi, dl)' /\ Handed /\ Silent
<1>1. /\ a \in CurlStates /\ Stopped(a) /\ a.callback = c.callback
      /\ a.proxies = c.proxies /\ a.bytes = c.bytes /\ a.length = c.length
  BY AccountedFacts, ZenonT(30)
<1>2. conn' = NoConn /\ conn' \in ConnStates /\ conn'.state = "none"
  <2>1. conn' = NoConn
    BY Zenon DEF Finished
  <2> QED
    BY <2>1 DEF NoConn, ConnStates
<1>3. \/ PostRetry([a EXCEPT !.noNetRetries = @ + 1], d)
      \/ a.proxies > 1 /\ PostRetry([a EXCEPT !.proxies = @ - 1], d)
      \/ Continue([a EXCEPT !.proxies = 0], complete(FALSE))
      \/ Continue([a EXCEPT !.retryCount = tries], complete(FALSE))
      \/ PostRetry([a EXCEPT !.retryCount = tries], d)
      \/ Continue(a, complete(IsHttpResponseSuccess(code)))
  BY Zenon DEF Finished
<1> HIDE DEF a
<1>4. Settled(multi, d) /\ Running(d) /\ d.stream = dl.stream /\ d \in Downloads
  BY SuspendedFacts, Zenon
<1>5. Calling(multi, d)
  BY <1>4, SettledCalls, Zenon DEF MultiInv
<1>6. ASSUME NEW e \in CurlStates, Stopped(e), e.callback = c.callback,
             NEW b \in BOOLEAN, Continue(e, complete(b))
      PROVE  Kept
  <2> DEFINE r == complete(b)
  <2>1. Answer(r, d)
    BY <1>5, EndedFacts, Zenon DEF MultiInv
  <2> HIDE DEF r
  <2>2. r.dl.suspended = d.suspended /\ r.dl.stream = d.stream
    BY <2>1, Zenon DEF Answer
  <2>3. Continue(e, r)
    BY <1>6, Zenon DEF r
  <2>4. MultiInv' /\ CurlOK(curl, conn, multi, dl)' /\ ranges' = ranges /\ dl' = r.dl
    BY <1>2, <1>6, <2>1, <2>2, <2>3, ContinueKeeps, Zenon
  <2>5. dl'.stream = dl.stream /\ Len(dl.stream) \in Nat /\ dl.outcome = "none"
    BY <1>4, <2>2, <2>4 DEF Running, Downloads
  <2>6. Handed /\ Silent
    BY <2>4, <2>5 DEF Handed, Silent
  <2> QED
    BY <2>4, <2>6, Zenon
<1>7. ASSUME NEW e \in CurlStates, Stopped(e), e.callback = c.callback, e.proxies > 0,
             e.bytes = c.bytes, e.length = c.length, PostRetry(e, d)
      PROVE  Kept
  <2>1. Knows(e)
    BY <1>7, Zenon DEF Knows
  <2> QED
    BY <1>2, <1>7, <2>1, PostRetryKeeps, Zenon
<1>8. a.proxies \in Nat /\ a.noNetRetries \in Nat /\ a.retryCount \in Nat /\ tries \in Nat
  BY <1>1 DEF CurlStates
<1>9. CASE PostRetry([a EXCEPT !.noNetRetries = @ + 1], d)
  <2> DEFINE e == [a EXCEPT !.noNetRetries = @ + 1]
  <2>1. /\ e \in CurlStates /\ Stopped(e) /\ e.callback = a.callback
        /\ e.proxies = a.proxies /\ e.bytes = a.bytes /\ e.length = a.length
    BY <1>1, <1>8 DEF CurlStates, Stopped
  <2> HIDE DEF e
  <2>2. PostRetry(e, d)
    BY <1>9, Zenon DEF e
  <2> QED
    BY <1>1, <1>7, <2>1, <2>2, Zenon
<1>10. CASE a.proxies > 1 /\ PostRetry([a EXCEPT !.proxies = @ - 1], d)
  <2> DEFINE e == [a EXCEPT !.proxies = @ - 1]
  <2>0. a.proxies - 1 \in Nat /\ a.proxies - 1 > 0
    BY <1>8, <1>10
  <2>1. /\ e \in CurlStates /\ Stopped(e) /\ e.callback = a.callback
        /\ e.proxies = a.proxies - 1 /\ e.bytes = a.bytes /\ e.length = a.length
    BY <1>1, <2>0 DEF CurlStates, Stopped
  <2> HIDE DEF e
  <2>2. PostRetry(e, d)
    BY <1>10, Zenon DEF e
  <2> QED
    BY <1>1, <1>7, <2>0, <2>1, <2>2, Zenon
<1>11. CASE Continue([a EXCEPT !.proxies = 0], complete(FALSE))
  <2> DEFINE e == [a EXCEPT !.proxies = 0]
  <2>1. e \in CurlStates /\ Stopped(e) /\ e.callback = a.callback /\ FALSE \in BOOLEAN
    BY <1>1 DEF CurlStates, Stopped
  <2> HIDE DEF e
  <2>2. Continue(e, complete(FALSE))
    BY <1>11, Zenon DEF e
  <2> QED
    BY <1>1, <1>6, <2>1, <2>2, Zenon
<1>12. CASE Continue([a EXCEPT !.retryCount = tries], complete(FALSE))
  <2> HIDE DEF tries
  <2> DEFINE e == [a EXCEPT !.retryCount = tries]
  <2>1. e \in CurlStates /\ Stopped(e) /\ e.callback = a.callback /\ FALSE \in BOOLEAN
    BY <1>1, <1>8 DEF CurlStates, Stopped
  <2> HIDE DEF e
  <2>2. Continue(e, complete(FALSE))
    BY <1>12, Zenon DEF e
  <2> QED
    BY <1>1, <1>6, <2>1, <2>2, Zenon
<1>13. CASE PostRetry([a EXCEPT !.retryCount = tries], d)
  <2> HIDE DEF tries
  <2> DEFINE e == [a EXCEPT !.retryCount = tries]
  <2>1. /\ e \in CurlStates /\ Stopped(e) /\ e.callback = a.callback
        /\ e.proxies = a.proxies /\ e.bytes = a.bytes /\ e.length = a.length
    BY <1>1, <1>8 DEF CurlStates, Stopped
  <2> HIDE DEF e
  <2>2. PostRetry(e, d)
    BY <1>13, Zenon DEF e
  <2> QED
    BY <1>1, <1>7, <2>1, <2>2, Zenon
<1>14. CASE Continue(a, complete(IsHttpResponseSuccess(code)))
  <2>1. IsHttpResponseSuccess(code) \in BOOLEAN
    BY DEF IsHttpResponseSuccess
  <2> QED
    BY <1>1, <1>6, <1>14, <2>1, Zenon
<1> QED
  BY <1>3, <1>9, <1>10, <1>11, <1>12, <1>13, <1>14, Zenon

-----------------------------------------------------------------------------
(* The steps of LibcurlHttpFetcher.                                        *)
CurlInv == MultiInv /\ CurlOK(curl, conn, multi, dl)
CurlKept == CurlInv' /\ Handed /\ Silent

(* Whatever is waited for belongs to a running transfer.                   *)
LEMMA CurlRuns ==
    ASSUME CurlInv, Waits(curl) \/ conn.state # "none"
    PROVE  Running(dl) /\ CurlBusy(curl, conn, multi, dl)
BY Zenon DEF CurlInv, CurlOK

(* BeginTransfer: the first range begins, or nothing was asked for.        *)
LEMMA CurlBeginKeeps ==
    ASSUME CurlInv, CurlBeginTransfer
    PROVE  CurlKept
<1> DEFINE r == BeginTransfer(multi, dl)
<1>1. /\ MultiInv /\ ~dl.begun /\ curl \in CurlStates /\ conn \in ConnStates
      /\ conn.state = "none" /\ ~Waits(curl) /\ ~curl.callback /\ ~curl.paused
      /\ Continue(curl, r) /\ conn' = conn
  BY Zenon DEF CurlInv, CurlOK, CurlBeginTransfer, Running
<1>2. Answer(r, dl)
  BY <1>1, BegunFacts, Zenon
<1> HIDE DEF r
<1>3. ~dl.suspended /\ dl.outcome = "none" /\ dl \in Downloads
  BY <1>1, Zenon DEF MultiInv, Settled
<1>4. r.dl.suspended = dl.suspended /\ r.dl.stream = dl.stream
  BY <1>2, Zenon DEF Answer
<1>5. MultiInv' /\ CurlOK(curl, conn, multi, dl)' /\ ranges' = ranges /\ dl' = r.dl
  <2>1. conn' \in ConnStates /\ conn'.state = "none" /\ Stopped(curl)
    BY <1>1, Zenon DEF Stopped, Waits
  <2> QED
    BY <1>1, <1>2, <1>3, <1>4, <2>1, ContinueKeeps, Zenon
<1>6. dl'.stream = dl.stream /\ Len(dl.stream) \in Nat
  BY <1>3, <1>4, <1>5 DEF Downloads
<1> QED
  BY <1>3, <1>5, <1>6 DEF CurlKept, CurlInv, Handed, Silent

(* ProxiesResolved and RetryTimeoutCallback: the connection is opened now  *)
(* or when the fetcher is unpaused.                                        *)
LEMMA StartKeeps ==
    ASSUME CurlInv, Running(dl), conn.state = "none",
           NEW c \in CurlStates, ~c.resolving, ~c.retry, ~c.inProgress, ~c.restartOnUnpause,
           ~c.callback, c.paused = dl.suspended, c.proxies > 0, Knows(c),
           StartUnlessPaused(c), ranges' = ranges, multi' = multi, checks' = TRUE, dl' = dl
    PROVE  CurlKept
<1>1. MultiInv /\ conn \in ConnStates
  BY Zenon DEF CurlInv, CurlOK
<1>2. CASE c.paused
  <2>1. curl' = [c EXCEPT !.restartOnUnpause = TRUE] /\ conn' = conn
    BY <1>2, Zenon DEF StartUnlessPaused
  <2> QED
    BY <1>1, <1>2, <2>1, PutOffKeeps, Zenon DEF CurlKept, CurlInv
<1>3. CASE ~c.paused
  <2>1. ResumeTransfer(c) /\ ~dl'.suspended /\ Stopped(c)
    BY <1>3, Zenon DEF StartUnlessPaused, Stopped
  <2> QED
    BY <1>1, <1>3, <2>1, ResumeKeeps, Zenon DEF CurlKept, CurlInv
<1> QED
  BY <1>2, <1>3, Zenon

(* The proxies are known.                                                  *)
LEMMA ProxiesResolvedKeeps ==
    ASSUME CurlInv, ProxiesResolved
    PROVE  CurlKept
<1>1. /\ curl.resolving /\ ranges' = ranges /\ multi' = multi /\ dl' = dl
      /\ checks' = (checks /\ ~curl.inProgress)
  BY DEF ProxiesResolved
<1>2. PICK n \in 1..MaxProxies : StartUnlessPaused(StartCounting(curl, n))
  BY Zenon DEF ProxiesResolved
<1>3. Running(dl) /\ CurlBusy(curl, conn, multi, dl) /\ MultiInv /\ curl \in CurlStates /\ conn \in ConnStates
  BY <1>1, CurlRuns, Zenon DEF Waits, CurlInv, CurlOK
<1>4. ~curl.retry /\ ~curl.inProgress /\ ~curl.restartOnUnpause /\ Knows(curl)
      /\ curl.paused = dl.suspended
  BY <1>1, <1>3, Zenon DEF CurlBusy, WaitsForOne, Knows
<1>5. conn.state = "none" /\ checks' = TRUE
  <2>1. curl.inProgress \in BOOLEAN
    BY <1>3 DEF CurlStates
  <2> QED
    BY <1>1, <1>3, <1>4, <2>1, Zenon DEF CurlBusy, MultiInv
<1> DEFINE c == StartCounting(curl, n)
<1>6. n \in Nat /\ n > 0
  BY CurlAssumption
<1>7. /\ c \in CurlStates /\ c.resolving = FALSE /\ c.callback = FALSE /\ c.proxies = n
      /\ c.retry = curl.retry /\ c.inProgress = curl.inProgress /\ c.paused = curl.paused
      /\ c.restartOnUnpause = curl.restartOnUnpause /\ c.bytes = curl.bytes
      /\ c.length = curl.length
  <2>1. -1 \in Int
    OBVIOUS
  <2> QED
    BY <1>3, <1>6, <2>1, Zenon DEF StartCounting, CurlStates
<1> HIDE DEF c
<1>8. Knows(c) /\ StartUnlessPaused(c)
  BY <1>2, <1>4, <1>7, Zenon DEF Knows, c
<1> QED
  BY <1>1, <1>3, <1>4, <1>5, <1>6, <1>7, <1>8, StartKeeps, Zenon

(* The time for a retry has come.                                          *)
LEMMA RetryKeeps ==
    ASSUME CurlInv, RetryTimeoutCallback
    PROVE  CurlKept
<1> DEFINE c == [curl EXCEPT !.retry = FALSE]
<1>1. /\ curl.retry /\ ranges' = ranges /\ multi' = multi /\ dl' = dl
      /\ checks' = (checks /\ ~curl.inProgress /\ curl.proxies > 0)
      /\ StartUnlessPaused(c)
  BY DEF RetryTimeoutCallback
<1>2. Running(dl) /\ CurlBusy(curl, conn, multi, dl) /\ MultiInv /\ curl \in CurlStates /\ conn \in ConnStates
  BY <1>1, CurlRuns, Zenon DEF Waits, CurlInv, CurlOK
<1>3. ~curl.resolving /\ ~curl.inProgress /\ ~curl.restartOnUnpause /\ Knows(curl)
      /\ curl.paused = dl.suspended /\ curl.proxies > 0
  BY <1>1, <1>2, Zenon DEF CurlBusy, WaitsForOne, Knows
<1>4. conn.state = "none" /\ checks' = TRUE /\ curl.callback = FALSE
  <2>1. curl.inProgress \in BOOLEAN /\ curl.resolving \in BOOLEAN
    BY <1>2 DEF CurlStates
  <2> QED
    BY <1>1, <1>2, <1>3, <2>1, Zenon DEF CurlBusy, MultiInv
<1>5. /\ c \in CurlStates /\ c.resolving = curl.resolving /\ c.callback = curl.callback
      /\ c.proxies = curl.proxies
      /\ c.retry = FALSE /\ c.inProgress = curl.inProgress /\ c.paused = curl.paused
      /\ c.restartOnUnpause = curl.restartOnUnpause /\ c.bytes = curl.bytes
      /\ c.length = curl.length
  BY <1>2, Zenon DEF CurlStates
<1> HIDE DEF c
<1>6. Knows(c)
  BY <1>3, <1>5, Zenon DEF Knows
<1> QED
  BY <1>1, <1>2, <1>3, <1>4, <1>5, <1>6, StartKeeps, Zenon

(* A step of a running transfer that hands nothing over.                   *)
LEMMA BusyKeeps ==
    ASSUME CurlInv, Running(dl), ranges' = ranges, multi' = multi, checks' = TRUE,
           dl' = dl \/ \E s \in BOOLEAN : dl' = [dl EXCEPT !.suspended = s],
           curl' \in CurlStates, conn' \in ConnStates, CurlBusy(curl', conn', multi, dl')
    PROVE  CurlKept
<1>1. MultiInv
  BY Zenon DEF CurlInv
<1>2. MultiInv' /\ Running(dl)' /\ CurrentRange(multi)' = CurrentRange(multi) /\ Handed /\ Silent
  BY <1>1, SameTransfer, Zenon
<1>3. CurlBusy(curl, conn, multi, dl)'
  BY <1>2, Zenon DEF CurlBusy, WaitsForOne, Waits
<1>4. CurlOK(curl, conn, multi, dl)'
  BY <1>2, <1>3, Zenon DEF CurlOK, Running
<1> QED
  BY <1>2, <1>4, Zenon DEF CurlKept, CurlInv

(* The server answers.                                                     *)
LEMMA ResponseKeeps ==
    ASSUME CurlInv, Response
    PROVE  CurlKept
<1>1. conn.state = "open" /\ ranges' = ranges /\ multi' = multi /\ dl' = dl /\ checks' = checks
      /\ curl' = curl
  BY DEF Response, Open, multiVars
<1>2. "none" # "open"
  OBVIOUS
<1>3. Running(dl) /\ CurlBusy(curl, conn, multi, dl) /\ checks = TRUE /\ curl \in CurlStates
      /\ conn \in ConnStates
  BY <1>1, <1>2, CurlRuns, Zenon DEF CurlInv, CurlOK, MultiInv
<1>4. /\ conn' \in ConnStates /\ conn'.state = conn.state /\ conn'.pos = conn.pos
      /\ conn'.stop = conn.stop /\ conn'.paused = conn.paused
  <2>1. \A length \in {0, conn.stop - conn.pos} : length \in Int
    BY <1>3 DEF ConnStates
  <2>2. ASSUME NEW length \in Int, NEW e, e = [conn EXCEPT !.code = "success", !.contentLength = length]
        PROVE  /\ e \in ConnStates /\ e.state = conn.state /\ e.pos = conn.pos
               /\ e.stop = conn.stop /\ e.paused = conn.paused
    BY <1>3, <2>2, Zenon DEF ConnStates
  <2>3. ASSUME NEW e, e = [conn EXCEPT !.code = "error"]
        PROVE  /\ e \in ConnStates /\ e.state = conn.state /\ e.pos = conn.pos
               /\ e.stop = conn.stop /\ e.paused = conn.paused
    BY <1>3, <2>3 DEF ConnStates
  <2> QED
    BY <2>1, <2>2, <2>3, Zenon DEF Response
<1>5. CurlBusy(curl', conn', multi, dl')
  BY <1>1, <1>3, <1>4, Zenon DEF CurlBusy
<1> QED
  BY <1>1, <1>3, <1>4, <1>5, BusyKeeps, Zenon

(* Pause stops the connection along with the fetcher.                      *)
LEMMA CurlPauseKeeps ==
    ASSUME CurlInv, CurlPause
    PROVE  CurlKept
<1>1. /\ Running(dl) /\ ~dl.suspended /\ ranges' = ranges /\ multi' = multi /\ checks' = checks
      /\ dl' = [dl EXCEPT !.suspended = TRUE]
      /\ curl' = [curl EXCEPT !.paused = TRUE] /\ conn' = [conn EXCEPT !.paused = curl.inProgress]
  BY DEF CurlPause, Running
<1>2. CurlBusy(curl, conn, multi, dl) /\ checks = TRUE /\ curl \in CurlStates /\ conn \in ConnStates
      /\ dl \in Downloads
  BY <1>1, Zenon DEF CurlInv, CurlOK, MultiInv, Settled
<1>3. dl'.suspended = TRUE
  BY <1>1, <1>2 DEF Downloads
<1>4. /\ curl' \in CurlStates /\ curl'.paused = TRUE /\ curl'.resolving = curl.resolving
      /\ curl'.retry = curl.retry /\ curl'.inProgress = curl.inProgress
      /\ curl'.restartOnUnpause = curl.restartOnUnpause /\ curl'.callback = curl.callback
      /\ curl'.proxies = curl.proxies /\ curl'.bytes = curl.bytes /\ curl'.length = curl.length
  BY <1>1, <1>2, Zenon DEF CurlStates
<1>5. /\ conn' \in ConnStates /\ conn'.state = conn.state /\ conn'.pos = conn.pos
      /\ conn'.stop = conn.stop /\ conn'.paused = curl.inProgress
  <2>1. curl.inProgress \in BOOLEAN
    BY <1>2 DEF CurlStates
  <2> QED
    BY <1>1, <1>2, <2>1 DEF ConnStates
<1>6. conn.state = "open" => curl.inProgress = TRUE
  <2>1. "none" # "open"
    OBVIOUS
  <2>2. curl.inProgress \in BOOLEAN
    BY <1>2 DEF CurlStates
  <2> QED
    BY <1>2, <2>1, <2>2, Zenon DEF CurlBusy
<1>7. CurlBusy(curl', conn', multi, dl')
  BY <1>2, <1>3, <1>4, <1>5, <1>6, Zenon DEF CurlBusy, WaitsForOne, Waits
<1> QED
  BY <1>1, <1>2, <1>4, <1>5, <1>7, BusyKeeps, Zenon

(* TerminateTransfer between two callbacks.                                *)
LEMMA CurlTerminateKeeps ==
    ASSUME CurlInv, CurlTerminate
    PROVE  CurlKept
<1> DEFINE r == TerminateTransfer(multi, dl)
           o == CancelProxyResolution(curl)
           c == CleanUp(o)
<1>1. Running(dl) /\ conn' = NoConn /\ Continue(c, r)
  BY DEF CurlTerminate, Running, ForceTransferTermination
<1>2. MultiInv /\ curl \in CurlStates /\ Settled(multi, dl) /\ ranges \in Requests
      /\ CurlBusy(curl, conn, multi, dl)
  BY <1>1, Zenon DEF CurlInv, CurlOK, MultiInv
<1>3. Answer(r, dl) /\ ~r.begin
  BY <1>1, <1>2, TerminateFacts, Zenon
<1>4. o \in CurlStates /\ o.resolving = FALSE
  BY <1>2, Zenon DEF CurlStates, CancelProxyResolution
<1> HIDE DEF r, o
<1>5. c \in CurlStates /\ Stopped(c)
  BY <1>4, CleanUpFacts, Zenon DEF Stopped
<1> HIDE DEF c
<1>6. conn' \in ConnStates /\ conn'.state = "none"
  BY <1>1 DEF NoConn, ConnStates
<1>7. MultiInv' /\ CurlOK(curl, conn, multi, dl)' /\ ranges' = ranges /\ dl' = r.dl
  BY <1>1, <1>2, <1>3, <1>5, <1>6, ContinueKeeps, Zenon
<1>8. dl'.stream = dl.stream /\ dl.outcome = "none" /\ Len(dl.stream) \in Nat
  <2>1. dl \in Downloads
    BY <1>2, Zenon DEF Settled
  <2> QED
    BY <1>1, <1>3, <1>7, <2>1 DEF Answer, Running, Downloads
<1> QED
  BY <1>7, <1>8 DEF CurlKept, CurlInv, Handed, Silent

(* The checks of two calls, one inside the other.                          *)
LEMMA BothChecked ==
    ASSUME NEW r, NEW d, Answer(r, d), NEW ok, ok = TRUE, NEW e, e = [r EXCEPT !.checks = @ /\ ok]
    PROVE  e = r
<1> DEFINE m == r.multi
           t == r.dl
           b == r.begin
<1>1. r = [multi |-> m, dl |-> t, checks |-> TRUE, begin |-> b]
  BY Zenon DEF Answer
<1> HIDE DEF m, t, b
<1> QED
  BY <1>1, Zenon

(* The bytes are counted and handed over; the last ones end the range.     *)
LEMMA LibcurlWriteKeeps ==
    ASSUME CurlInv, LibcurlWrite
    PROVE  CurlKept
<1>1. conn.state = "open" /\ ~conn.paused
  BY DEF LibcurlWrite, Open
<1>2. Running(dl) /\ CurlBusy(curl, conn, multi, dl) /\ MultiInv /\ curl \in CurlStates
      /\ conn \in ConnStates /\ Settled(multi, dl) /\ ranges \in Requests /\ dl \in Downloads
  <2>1. "none" # "open"
    OBVIOUS
  <2> QED
    BY <1>1, <2>1, CurlRuns, Zenon DEF CurlInv, CurlOK, MultiInv, Settled
<1>3. /\ ~dl.suspended /\ ~curl.resolving /\ ~curl.callback /\ conn.pos = curl.bytes
      /\ conn.stop <= FileSize /\ curl.bytes = CurrentRange(multi).offset + multi.received
  <2>1. curl.inProgress
    <3>1. "none" # "open"
      OBVIOUS
    <3> QED
      BY <1>1, <1>2, <3>1, Zenon DEF CurlBusy
  <2> QED
    BY <1>1, <1>2, <2>1, Zenon DEF CurlBusy, WaitsForOne
<1>4. PICK n \in 1..MaxChunk, accepted \in BOOLEAN :
        /\ conn.pos + n <= conn.stop
        /\ LET r == ReceivedBytes(multi, dl, conn.pos, n, accepted)
               e == TransferEnded(r.multi, r.dl, FALSE)
               c == [curl EXCEPT
                        !.sentByte = TRUE, !.bytes = @ + n,
                        !.size = IF conn.contentLength > 0
                                 THEN curl.resumeOffset + conn.contentLength ELSE @]
           IN  IF r.end
               THEN ForceTransferTermination(c, [e EXCEPT !.checks = @ /\ r.checks])
               ELSE /\ curl' = c
                    /\ conn' = [conn EXCEPT !.pos = @ + n]
                    /\ Returned(r)
  BY Zenon DEF LibcurlWrite
<1> DEFINE r == ReceivedBytes(multi, dl, conn.pos, n, accepted)
           e == TransferEnded(r.multi, r.dl, FALSE)
           size == IF conn.contentLength > 0 THEN curl.resumeOffset + conn.contentLength
                   ELSE curl.size
           c == [curl EXCEPT !.sentByte = TRUE, !.bytes = @ + n, !.size = size]
           e2 == [e EXCEPT !.checks = @ /\ r.checks]
<1>5. /\ r.end => ForceTransferTermination(c, e2)
      /\ ~r.end => curl' = c /\ conn' = [conn EXCEPT !.pos = @ + n] /\ Returned(r)
  BY <1>4, Zenon
<1>6. n \in Nat \ {0} /\ conn.pos + n <= FileSize /\ size \in Int
  <2>1. n \in Nat \ {0}
    BY CurlAssumption
  <2>2. conn.pos \in Nat /\ conn.stop \in Nat /\ conn.contentLength \in Int
        /\ curl.resumeOffset \in Nat /\ curl.size \in Int
    BY <1>2 DEF ConnStates, CurlStates
  <2> QED
    BY <1>3, <1>4, <2>1, <2>2, FileAssumption
<1>12. Taken(r, multi, dl, n)
  <2>1. conn.pos = CurrentRange(multi).offset + multi.received
    BY <1>3, Zenon
  <2>2. r = ReceivedBytes(multi, dl, conn.pos, n, accepted)
    BY Zenon
  <2>3. accepted \in BOOLEAN /\ n \in Nat \ {0} /\ conn.pos + n <= FileSize
    BY <1>4, <1>6, Zenon
  <2> HIDE DEF r
  <2> QED
    BY <1>2, <2>1, <2>2, <2>3, ReceivedFacts, Zenon
<1> HIDE DEF r, size
<1>7. /\ Calling(r.multi, r.dl) /\ r.checks = TRUE /\ r.end \in BOOLEAN
      /\ ~r.end => Settled(r.multi, r.dl)
      /\ r.multi.index = multi.index /\ r.multi.received = multi.received + n
      /\ r.dl.suspended = dl.suspended /\ Len(r.dl.stream) >= Len(dl.stream)
  BY <1>12, Zenon DEF Taken
<1>8. n \in Nat
  BY <1>6
<1>9. /\ c \in CurlStates /\ c.bytes = curl.bytes + n /\ c.length = curl.length
      /\ c.resolving = curl.resolving /\ c.retry = curl.retry /\ c.inProgress = curl.inProgress
      /\ c.restartOnUnpause = curl.restartOnUnpause /\ c.callback = curl.callback
      /\ c.proxies = curl.proxies /\ c.paused = curl.paused
  <2> DEFINE b == curl.bytes + n
  <2>1. b \in Nat /\ curl.bytes + n = b
    BY <1>2, <1>8 DEF CurlStates
  <2>2. c = [curl EXCEPT !.sentByte = TRUE, !.bytes = b, !.size = size]
    BY Zenon
  <2> HIDE DEF b, c
  <2> QED
    BY <1>2, <1>6, <2>1, <2>2, Zenon DEF CurlStates
<1> HIDE DEF c
<1>10. CASE r.end
  <2>1. Answer(e, r.dl)
    BY <1>2, <1>7, EndedFacts, Zenon
  <2>2. e2 = e
    <3>1. e2 = [e EXCEPT !.checks = @ /\ r.checks]
      BY Zenon
    <3> HIDE DEF e, e2
    <3> QED
      BY <1>7, <2>1, <3>1, BothChecked, Zenon
  <2> HIDE DEF e, e2
  <2> DEFINE o == CancelProxyResolution(c)
             s == CleanUp(o)
  <2>3. o \in CurlStates /\ o.resolving = FALSE /\ o.callback = c.callback
    BY <1>9, Zenon DEF CurlStates, CancelProxyResolution
  <2>4. conn' = NoConn /\ Continue(s, e)
    BY <1>5, <1>10, <2>2, Zenon DEF ForceTransferTermination
  <2> HIDE DEF o
  <2>5. s \in CurlStates /\ Stopped(s) /\ s.callback = c.callback
    BY <2>3, CleanUpFacts, Zenon DEF Stopped
  <2> HIDE DEF s
  <2>6. conn' \in ConnStates /\ conn'.state = "none"
    BY <2>4 DEF NoConn, ConnStates
  <2>7. ~s.callback /\ ~e.dl.suspended
    BY <1>3, <1>7, <1>9, <2>1, <2>5, Zenon DEF Answer
  <2>8. MultiInv' /\ CurlOK(curl, conn, multi, dl)' /\ ranges' = ranges /\ dl' = e.dl
    BY <1>2, <2>1, <2>4, <2>5, <2>6, <2>7, ContinueKeeps, Zenon
  <2>9. dl'.stream = r.dl.stream /\ dl.outcome = "none"
    BY <1>2, <2>1, <2>8, Zenon DEF Answer, Running
  <2> QED
    BY <1>3, <1>7, <2>8, <2>9, Zenon DEF CurlKept, CurlInv, Handed, Silent
<1>11. CASE ~r.end
  <2>1. curl' = c /\ conn' = [conn EXCEPT !.pos = @ + n] /\ multi' = r.multi /\ dl' = r.dl
        /\ ranges' = ranges /\ checks' = TRUE
    <3>1. Returned(r) /\ checks = TRUE
      BY <1>2, <1>5, <1>11, Zenon DEF MultiInv
    <3> QED
      BY <1>5, <1>7, <1>11, <3>1, Zenon DEF Returned
  <2>2. MultiInv'
    BY <1>2, <1>7, <1>11, <2>1, SameRanges, Zenon DEF MultiInv
  <2>3. /\ conn' \in ConnStates /\ conn'.state = conn.state /\ conn'.pos = conn.pos + n
        /\ conn'.stop = conn.stop /\ conn'.paused = conn.paused
    BY <1>2, <1>8, <2>1 DEF ConnStates
  <2>4. CurrentRange(multi)' = CurrentRange(multi) /\ Running(dl')
    <3>1. Running(dl')
      BY <1>7, <2>1, Zenon DEF Calling, Running
    <3> QED
      BY <1>7, <2>1, <3>1 DEF CurrentRange
  <2>5. curl'.bytes = CurrentRange(multi).offset + multi'.received
    <3>1. multi.received \in Nat /\ CurrentRange(multi).offset \in Nat
      <4>1. multi \in MultiStates /\ multi.index \in 1..Len(ranges)
        BY <1>2, Zenon DEF Settled
      <4> QED
        BY <1>2, <4>1, CurrentFacts DEF MultiStates
    <3> QED
      BY <1>3, <1>7, <1>8, <1>9, <2>1, <3>1
  <2>6. CurlBusy(curl, conn, multi, dl)'
    BY <1>2, <1>3, <1>7, <1>9, <2>1, <2>3, <2>4, <2>5, Zenon DEF CurlBusy, WaitsForOne, Waits
  <2>7. CurlOK(curl, conn, multi, dl)'
    BY <1>9, <2>1, <2>3, <2>4, <2>6, Zenon DEF CurlOK, Running
  <2> QED
    BY <1>2, <1>3, <1>7, <2>1, <2>2, <2>7, Zenon DEF CurlKept, CurlInv, Handed, Silent, Running
<1> QED
  BY <1>10, <1>11, Zenon

(* A paused fetcher takes note that its connection is gone; another one    *)
(* tries again or ends the range.                                          *)
LEMMA ConnectionEndsKeeps ==
    ASSUME CurlInv, ConnectionEnds
    PROVE  CurlKept
<1>1. conn.state = "open"
  BY DEF ConnectionEnds, Open
<1>2. PICK unresolved \in BOOLEAN :
        IF curl.paused
        THEN /\ conn' = [conn EXCEPT !.state = "closed", !.unresolved = unresolved]
             /\ curl' = [curl EXCEPT !.ignoreFailure = TRUE]
             /\ UNCHANGED multiVars
        ELSE Finished(curl, dl, conn.code, unresolved)
  BY Zenon DEF ConnectionEnds
<1>3. "none" # "open" /\ "none" # "closed" /\ "open" # "closed"
  OBVIOUS
<1>4. Running(dl) /\ CurlBusy(curl, conn, multi, dl) /\ MultiInv /\ curl \in CurlStates
      /\ conn \in ConnStates /\ checks = TRUE
  BY <1>1, <1>3, CurlRuns, Zenon DEF CurlInv, CurlOK, MultiInv
<1>5. ~curl.resolving /\ ~curl.callback /\ curl.proxies > 0 /\ Knows(curl) /\ curl.inProgress
      /\ curl.paused = dl.suspended
  BY <1>1, <1>3, <1>4, Zenon DEF CurlBusy, WaitsForOne, Knows
<1>6. CASE curl.paused
  <2>1. conn' = [conn EXCEPT !.state = "closed", !.unresolved = unresolved]
        /\ curl' = [curl EXCEPT !.ignoreFailure = TRUE]
        /\ ranges' = ranges /\ multi' = multi /\ dl' = dl /\ checks' = TRUE
    BY <1>2, <1>4, <1>6 DEF multiVars
  <2>2. conn' \in ConnStates /\ conn'.state = "closed"
    BY <1>4, <2>1, Zenon DEF ConnStates
  <2>3. /\ curl' \in CurlStates /\ curl'.paused = curl.paused /\ curl'.resolving = curl.resolving
        /\ curl'.retry = curl.retry /\ curl'.inProgress = curl.inProgress
        /\ curl'.restartOnUnpause = curl.restartOnUnpause /\ curl'.callback = curl.callback
        /\ curl'.proxies = curl.proxies /\ curl'.bytes = curl.bytes /\ curl'.length = curl.length
    BY <1>4, <2>1, Zenon DEF CurlStates
  <2>4. curl.inProgress = TRUE
    BY <1>4, <1>5 DEF CurlStates
  <2>5. curl'.inProgress = (conn'.state # "none")
    BY <1>3, <2>2, <2>3, <2>4, Zenon
  <2>6. WaitsForOne(curl')
    BY <1>4, <2>3, Zenon DEF CurlBusy, WaitsForOne, Waits
  <2>7. CurlBusy(curl', conn', multi, dl')
    BY <1>3, <1>4, <1>6, <2>1, <2>2, <2>3, <2>5, <2>6, Zenon DEF CurlBusy
  <2> QED
    BY <1>4, <2>1, <2>2, <2>3, <2>7, BusyKeeps, Zenon
<1>7. CASE ~curl.paused
  <2>1. conn.code \in {"0", "success", "error"}
    BY <1>4 DEF ConnStates
  <2>2. Finished(curl, dl, conn.code, unresolved) /\ ~dl.suspended
    BY <1>2, <1>5, <1>7, Zenon
  <2> QED
    BY <1>4, <1>5, <2>1, <2>2, FinishedKeeps, Zenon DEF CurlKept, CurlInv
<1> QED
  BY <1>6, <1>7, Zenon

(* Unpause starts the connection that was put off, looks after the one     *)
(* that ended meanwhile, or lets the one there is go on.                   *)
LEMMA CurlUnpauseKeeps ==
    ASSUME CurlInv, CurlUnpause
    PROVE  CurlKept
<1> DEFINE c == [curl EXCEPT !.paused = FALSE, !.restartOnUnpause = FALSE]
           d == [dl EXCEPT !.suspended = FALSE]
<1>1. dl.suspended /\ dl.outcome = "none"
  BY DEF CurlUnpause
<1>2. Running(dl) /\ CurlBusy(curl, conn, multi, dl) /\ MultiInv /\ curl \in CurlStates
      /\ conn \in ConnStates /\ checks = TRUE /\ dl \in Downloads
  BY <1>1, Zenon DEF CurlInv, CurlOK, MultiInv, Settled, Running
<1>3. /\ c \in CurlStates /\ c.paused = FALSE /\ c.resolving = curl.resolving
      /\ c.retry = curl.retry /\ c.inProgress = curl.inProgress
      /\ c.restartOnUnpause = FALSE /\ c.callback = curl.callback
      /\ c.proxies = curl.proxies /\ c.bytes = curl.bytes /\ c.length = curl.length
  BY <1>2, Zenon DEF CurlStates
<1>4. ~d.suspended /\ \E s \in BOOLEAN : d = [dl EXCEPT !.suspended = s]
  <2>1. ~d.suspended
    BY <1>2 DEF Downloads
  <2> QED
    BY <2>1, Zenon
<1>5. curl.paused /\ Knows(c) /\ ~c.paused
  BY <1>1, <1>2, <1>3, Zenon DEF CurlBusy, Knows
<1>6. curl.resolving \in BOOLEAN /\ curl.inProgress \in BOOLEAN
  BY <1>2 DEF CurlStates
<1> DEFINE next == \/ /\ curl.restartOnUnpause /\ ResumeTransfer(c) /\ dl' = d
                      /\ checks' = (checks /\ ~curl.inProgress /\ curl.proxies > 0)
                      /\ ranges' = ranges /\ multi' = multi
                   \/ /\ ~curl.restartOnUnpause /\ conn.state = "closed"
                      /\ Finished(c, d, conn.code, conn.unresolved)
                   \/ /\ ~curl.restartOnUnpause /\ conn.state # "closed"
                      /\ curl' = c /\ conn' = [conn EXCEPT !.paused = FALSE] /\ dl' = d
                      /\ ranges' = ranges /\ multi' = multi /\ checks' = checks
<1>7. next
  BY <1>5 DEF CurlUnpause
<1> HIDE DEF c, d
<1>8. CASE /\ curl.restartOnUnpause /\ ResumeTransfer(c) /\ dl' = d
           /\ checks' = (checks /\ ~curl.inProgress /\ curl.proxies > 0)
           /\ ranges' = ranges /\ multi' = multi
  <2>1. ~curl.resolving /\ ~curl.retry /\ ~curl.inProgress
    BY <1>2, <1>8, Zenon DEF CurlBusy, WaitsForOne
  <2>2. curl.proxies > 0 /\ ~curl.callback
    BY <1>2, <2>1, Zenon DEF CurlBusy
  <2>3. checks' = TRUE
    BY <1>2, <1>8, <2>1, <2>2, Zenon
  <2>4. Stopped(c) /\ ~c.callback /\ c.proxies > 0
    BY <1>3, <2>1, <2>2, Zenon DEF Stopped
  <2> QED
    BY <1>2, <1>3, <1>4, <1>5, <1>8, <2>3, <2>4, ResumeKeeps, Zenon DEF CurlKept, CurlInv
<1>9. CASE ~curl.restartOnUnpause /\ conn.state = "closed" /\ Finished(c, d, conn.code, conn.unresolved)
  <2>1. "none" # "closed"
    OBVIOUS
  <2>2. ~curl.resolving /\ ~curl.callback /\ curl.proxies > 0
    BY <1>2, <1>9, <2>1, Zenon DEF CurlBusy, WaitsForOne
  <2>3. conn.code \in {"0", "success", "error"} /\ conn.unresolved \in BOOLEAN
    BY <1>2 DEF ConnStates
  <2> QED
    BY <1>2, <1>3, <1>4, <1>5, <1>9, <2>2, <2>3, FinishedKeeps, ZenonT(30) DEF CurlKept, CurlInv
<1>10. CASE /\ ~curl.restartOnUnpause /\ conn.state # "closed"
            /\ curl' = c /\ conn' = [conn EXCEPT !.paused = FALSE] /\ dl' = d
            /\ ranges' = ranges /\ multi' = multi /\ checks' = checks
  <2>1. /\ conn' \in ConnStates /\ conn'.state = conn.state /\ conn'.pos = conn.pos
        /\ conn'.stop = conn.stop /\ conn'.paused = FALSE
    BY <1>2, <1>10, Zenon DEF ConnStates
  <2>2. WaitsForOne(curl')
    BY <1>2, <1>3, <1>10, Zenon DEF CurlBusy, WaitsForOne, Waits
  <2>3. dl'.suspended = FALSE
    BY <1>2, <1>10 DEF Downloads, d
  <2>4. CurlBusy(curl', conn', multi, dl')
    BY <1>2, <1>3, <1>5, <1>10, <2>1, <2>2, <2>3, Zenon DEF CurlBusy
  <2> QED
    BY <1>2, <1>3, <1>4, <1>10, <2>1, <2>4, BusyKeeps, Zenon
<1> HIDE DEF next
<1> QED
  BY <1>7, <1>8, <1>9, <1>10, Zenon DEF next

(* Every step of LibcurlHttpFetcher.                                       *)
LEMMA CurlStepKeeps ==
    ASSUME CurlInv, CurlNext
    PROVE  CurlKept
BY CurlBeginKeeps, ProxiesResolvedKeeps, RetryKeeps, ResponseKeeps, LibcurlWriteKeeps,
   ConnectionEndsKeeps, CurlPauseKeeps, CurlUnpauseKeeps, CurlTerminateKeeps, Zenon
   DEF CurlNext

-----------------------------------------------------------------------------
(* The steps of FileFetcher.                                               *)
FileInv == MultiInv /\ FileOK(file, multi, dl)
FileKept == FileInv' /\ Handed

(* What a method returns that leaves the transfer running.                 *)
Goes(r) == Settled(r.multi, r.dl) /\ Running(r.dl) /\ r.checks = TRUE

(* What a step that ends with the answer r leaves.                         *)
FileLeft(r) == MultiInv' /\ FileOK(file, multi, dl)' /\ ranges' = ranges /\ dl'.stream = r.dl.stream

(* An answer that is handed back as it is.                                 *)
LEMMA ReturnedKeeps ==
    ASSUME MultiInv, NEW r, Settled(r.multi, r.dl), r.checks = TRUE, Returned(r)
    PROVE  MultiInv' /\ ranges' = ranges /\ multi' = r.multi /\ dl' = r.dl
<1>1. multi' = r.multi /\ dl' = r.dl /\ ranges' = ranges /\ checks' = (checks /\ r.checks)
  BY Zenon DEF Returned
<1>2. checks' = TRUE
  BY <1>1, Zenon DEF MultiInv
<1> QED
  BY <1>1, <1>2, SameRanges, Zenon DEF MultiInv

(* CleanUp cancels the read in flight and lifts the pause.                 *)
LEMMA FileCleanUpFacts ==
    ASSUME NEW f \in FileStates, NEW e, e = FileCleanUp(f)
    PROVE  e \in FileStates /\ e.ongoing = FALSE /\ e.inProgress = FALSE /\ e.paused = FALSE
BY Zenon DEF FileCleanUp, FileStates

(* A range that ends while it begins, or while nothing is read, is the     *)
(* last: no other begins inside the call.                                  *)
LEMMA EndedAtOnceKeeps ==
    ASSUME MultiInv, NEW f \in FileStates, NEW r, Goes(r), NEW successful \in BOOLEAN,
           EndedAtOnce(f, r, successful)
    PROVE  FileLeft(r)
<1> DEFINE e == TransferEnded(r.multi, r.dl, successful)
           e2 == [e EXCEPT !.checks = @ /\ r.checks /\ ~e.begin]
           g == FileCleanUp(f)
<1>1. ranges \in Requests /\ Settled(r.multi, r.dl) /\ Running(r.dl) /\ r.checks = TRUE
  BY Zenon DEF MultiInv, Goes
<1>2. Calling(r.multi, r.dl)
  BY <1>1, SettledCalls, Zenon
<1>3. Answer(e, r.dl) /\ (e.begin => /\ HasLength(CurrentRange(r.multi))
                                     /\ r.multi.received >= CurrentRange(r.multi).length)
  BY <1>1, <1>2, EndedFacts, Zenon
<1>4. file' = g /\ Returned(e2)
  BY Zenon DEF EndedAtOnce
<1>5. g \in FileStates /\ g.ongoing = FALSE
  BY FileCleanUpFacts, Zenon
<1> HIDE DEF g
<1>6. ~e.begin
  <2> SUFFICES ASSUME e.begin PROVE FALSE
    OBVIOUS
  <2> HIDE DEF e
  <2>1. /\ HasLength(CurrentRange(r.multi)) /\ r.multi.received >= CurrentRange(r.multi).length
        /\ r.multi.received < CurrentRange(r.multi).length
    BY <1>1, <1>3, Zenon DEF Settled
  <2>2. r.multi.received \in Nat /\ CurrentRange(r.multi).length \in Nat
    <3>1. r.multi \in MultiStates /\ r.multi.index \in 1..Len(ranges)
      BY <1>1, Zenon DEF Settled
    <3>2. CurrentRange(r.multi).length \in Nat
      BY <1>1, <3>1, CurrentFacts, Zenon
    <3> QED
      BY <3>1, <3>2 DEF MultiStates
  <2> QED
    BY <2>1, <2>2
<1>7. e2 = e
  <2> DEFINE ok == r.checks /\ ~e.begin
  <2>1. ok = TRUE
    BY <1>1, <1>6
  <2>2. e2 = [e EXCEPT !.checks = @ /\ ok]
    BY Zenon
  <2> HIDE DEF e, e2, ok
  <2> QED
    BY <1>3, <2>1, <2>2, BothChecked, Zenon
<1> HIDE DEF e, e2
<1>8. Settled(e.multi, e.dl) /\ e.checks = TRUE /\ e.dl.begun /\ e.dl.stream = r.dl.stream
      /\ e.dl.outcome # "none"
  BY <1>3, <1>6, Zenon DEF Answer
<1>9. MultiInv' /\ ranges' = ranges /\ multi' = e.multi /\ dl' = e.dl
  BY <1>4, <1>7, <1>8, ReturnedKeeps, Zenon
<1>10. FileOK(file, multi, dl)'
  BY <1>4, <1>5, <1>8, <1>9, Zenon DEF FileOK, Running
<1> QED
  BY <1>8, <1>9, <1>10, Zenon DEF FileLeft

(* The fetcher knows where it is in its range.                             *)
FileKnows(f, m) ==
    /\ f.inProgress
    /\ f.offset = CurrentRange(m).offset /\ f.length = CurrentRange(m).length
    /\ f.copied = m.received

(* A running transfer whose range has a length.                            *)
LEMMA FileGoesOn ==
    ASSUME MultiInv, NEW f \in FileStates, NEW r, Goes(r), FileKnows(f, r.multi),
           HasLength(CurrentRange(r.multi)), file' = f, Returned(r)
    PROVE  FileLeft(r)
<1>1. MultiInv' /\ ranges' = ranges /\ multi' = r.multi /\ dl' = r.dl
  BY ReturnedKeeps, Zenon DEF Goes
<1>2. CurrentRange(multi)' = CurrentRange(r.multi)
  BY <1>1, Zenon DEF CurrentRange
<1>3. r.dl.begun /\ r.dl.outcome = "none"
  BY Zenon DEF Goes, Running
<1>4. FileOK(file, multi, dl)'
  BY <1>1, <1>2, <1>3, Zenon DEF FileOK, FileKnows, Running
<1> QED
  BY <1>1, <1>4, Zenon DEF FileLeft

(* ScheduleRead: a read is in flight, there is none to be had, or the      *)
(* fetcher is paused in a range it knows to have a length.                 *)
LEMMA ScheduleReadKeeps ==
    ASSUME MultiInv, NEW f \in FileStates, NEW r, Goes(r), FileKnows(f, r.multi),
           f.paused \/ f.ongoing => HasLength(CurrentRange(r.multi)),
           ScheduleRead(f, r)
    PROVE  FileLeft(r)
<1>1. CASE (f.paused \/ f.ongoing \/ ~f.inProgress) /\ file' = f /\ Returned(r)
  BY <1>1, FileGoesOn, Zenon DEF FileKnows
<1>2. CASE EndedAtOnce(f, r, TRUE)
  BY <1>2, EndedAtOnceKeeps, Zenon
<1>3. CASE EndedAtOnce(f, r, FALSE)
  BY <1>3, EndedAtOnceKeeps, Zenon
<1>4. CASE BytesToRead(f) > 0 /\ file' = [f EXCEPT !.ongoing = TRUE] /\ Returned(r)
  <2> DEFINE g == [f EXCEPT !.ongoing = TRUE]
  <2>1. /\ g \in FileStates /\ g.inProgress = f.inProgress /\ g.offset = f.offset
        /\ g.length = f.length /\ g.copied = f.copied
    BY Zenon DEF FileStates
  <2>2. file' = g
    BY <1>4
  <2> HIDE DEF g
  <2>3. FileKnows(g, r.multi)
    BY <2>1, Zenon DEF FileKnows
  <2>4. f.length = CurrentRange(r.multi).length /\ CurrentRange(r.multi).length \in Nat
        /\ f.copied \in Nat /\ f.length \in Int
    <3>1. r.multi \in MultiStates /\ r.multi.index \in 1..Len(ranges) /\ ranges \in Requests
      BY Zenon DEF Settled, Goes, MultiInv
    <3>2. CurrentRange(r.multi).length \in Nat
      BY <3>1, CurrentFacts, Zenon
    <3>3. f.copied \in Nat /\ f.length \in Int
      BY DEF FileStates
    <3> QED
      BY <3>2, <3>3, Zenon DEF FileKnows
  <2>5. HasLength(CurrentRange(r.multi))
    BY <1>4, <2>4, BufferAssumption DEF BytesToRead, Smaller, HasLength
  <2> QED
    BY <1>4, <2>1, <2>2, <2>3, <2>5, FileGoesOn, Zenon
<1> QED
  BY <1>1, <1>2, <1>3, <1>4, Zenon DEF ScheduleRead

(* After a method that ended a range, called by a stopped fetcher:         *)
(* the next range begins, and may end at once.                             *)
LEMMA FileContinueKeeps ==
    ASSUME MultiInv, NEW f \in FileStates, f.ongoing = FALSE, f.inProgress = FALSE, f.paused = FALSE,
           NEW r, NEW d, Answer(r, d), FileContinue(f, r)
    PROVE  FileLeft(r)
<1>1. CASE ~r.begin /\ file' = f /\ Returned(r)
  <2>1. MultiInv' /\ ranges' = ranges /\ multi' = r.multi /\ dl' = r.dl
    BY <1>1, ReturnedKeeps, Zenon DEF Answer
  <2>2. r.dl.begun /\ r.dl.outcome # "none"
    BY <1>1, Zenon DEF Answer
  <2>3. FileOK(file, multi, dl)'
    BY <1>1, <2>1, <2>2, Zenon DEF FileOK, Running
  <2> QED
    BY <2>1, <2>3, Zenon DEF FileLeft
<1>2. CASE r.begin
  <2> DEFINE o == ranges[r.multi.index].offset
             l == ranges[r.multi.index].length
             g == [f EXCEPT !.offset = o, !.length = l]
             h == [g EXCEPT !.copied = 0, !.inProgress = TRUE]
             r2 == [r EXCEPT !.checks = @ /\ ~f.inProgress]
  <2>1. Goes(r) /\ r.multi.received = 0
    BY <1>2, Zenon DEF Answer, Goes, Running
  <2>2. o \in Nat /\ l \in Nat /\ o = CurrentRange(r.multi).offset /\ l = CurrentRange(r.multi).length
    <3>1. r.multi \in MultiStates /\ r.multi.index \in 1..Len(ranges) /\ ranges \in Requests
      BY <2>1, Zenon DEF Settled, Goes, MultiInv
    <3> QED
      BY <3>1, CurrentFacts, Zenon DEF CurrentRange
  <2>3. EndedAtOnce(g, r, FALSE) \/ ScheduleRead(h, r2)
    BY <1>2, Zenon DEF FileContinue
  <2>4. r2 = r
    <3> DEFINE ok == ~f.inProgress
    <3>1. ok = TRUE
      OBVIOUS
    <3>2. r2 = [r EXCEPT !.checks = @ /\ ok]
      BY Zenon
    <3> HIDE DEF r2, ok
    <3> QED
      BY <3>1, <3>2, BothChecked, Zenon
  <2> HIDE DEF r2, o, l
  <2>5. g \in FileStates /\ g.offset = o /\ g.length = l /\ g.ongoing = FALSE /\ g.paused = FALSE
    <3>1. o \in Nat /\ l \in Int
      BY <2>2
    <3> QED
      BY <3>1, Zenon DEF FileStates
  <2>6. /\ h \in FileStates /\ h.offset = o /\ h.length = l /\ h.ongoing = FALSE
        /\ h.paused = FALSE /\ h.inProgress = TRUE /\ h.copied = 0
    <3> HIDE DEF g
    <3> QED
      BY <2>5, Zenon DEF FileStates
  <2> HIDE DEF g, h
  <2>7. FileKnows(h, r.multi)
    BY <2>1, <2>2, <2>6, Zenon DEF FileKnows
  <2> QED
    BY <2>1, <2>3, <2>4, <2>5, <2>6, <2>7, EndedAtOnceKeeps, ScheduleReadKeeps, Zenon
<1> QED
  BY <1>1, <1>2, Zenon DEF FileContinue

(* A fetcher that reads belongs to a running transfer.                     *)
LEMMA FileRuns ==
    ASSUME FileInv, file.ongoing \/ (dl.begun /\ dl.outcome = "none")
    PROVE  /\ MultiInv /\ ranges \in Requests /\ Settled(multi, dl) /\ Running(dl)
           /\ dl \in Downloads /\ dl.outcome = "none" /\ Len(dl.stream) \in Nat
           /\ file \in FileStates /\ FileKnows(file, multi) /\ HasLength(CurrentRange(multi))
<1>1. /\ MultiInv /\ ranges \in Requests /\ Settled(multi, dl) /\ Running(dl)
      /\ dl \in Downloads /\ dl.outcome = "none"
      /\ file \in FileStates /\ FileKnows(file, multi) /\ HasLength(CurrentRange(multi))
  BY Zenon DEF FileInv, FileOK, MultiInv, Settled, Running, FileKnows
<1>2. Len(dl.stream) \in Nat
  BY <1>1 DEF Downloads
<1> QED
  BY <1>1, <1>2, Zenon

(* What was handed over before is not taken back.                          *)
LEMMA FileHands ==
    ASSUME NEW r, FileLeft(r), dl.outcome = "none", Len(r.dl.stream) >= Len(dl.stream)
    PROVE  FileKept
BY Zenon DEF FileLeft, FileKept, FileInv, Handed

(* The first range begins.                                                 *)
LEMMA FileBeginKeeps ==
    ASSUME FileInv, FileBeginTransfer
    PROVE  FileKept
<1> DEFINE r == BeginTransfer(multi, dl)
<1>1. MultiInv /\ ~dl.begun /\ FileContinue(file, r) /\ file \in FileStates
      /\ ~file.inProgress /\ ~file.paused /\ ~file.ongoing
  BY Zenon DEF FileInv, FileOK, FileBeginTransfer, Running
<1>2. file.ongoing = FALSE /\ file.inProgress = FALSE /\ file.paused = FALSE
  BY <1>1 DEF FileStates
<1>3. Answer(r, dl)
  BY <1>1, BegunFacts, Zenon
<1> HIDE DEF r
<1>4. FileLeft(r)
  BY <1>1, <1>2, <1>3, FileContinueKeeps, Zenon
<1>5. dl.outcome = "none" /\ r.dl.stream = dl.stream /\ dl \in Downloads
  BY <1>1, <1>3, Zenon DEF MultiInv, Settled, Answer
<1>6. Len(r.dl.stream) >= Len(dl.stream)
  BY <1>5 DEF Downloads
<1> QED
  BY <1>4, <1>5, <1>6, FileHands, Zenon

(* A range ends with what has come: the end of the file, an error, or      *)
(* TerminateTransfer.                                                      *)
LEMMA FileEnds ==
    ASSUME FileInv, Running(dl), NEW f \in FileStates, NEW r, Answer(r, dl),
           FileContinue(FileCleanUp(f), r)
    PROVE  FileKept
<1> DEFINE g == FileCleanUp(f)
<1>1. MultiInv /\ dl.outcome = "none" /\ Len(dl.stream) \in Nat
  BY FileRuns, Zenon DEF Running
<1>2. g \in FileStates /\ g.ongoing = FALSE /\ g.inProgress = FALSE /\ g.paused = FALSE
  BY FileCleanUpFacts, Zenon
<1>3. FileContinue(g, r)
  BY Zenon
<1> HIDE DEF g
<1>4. FileLeft(r)
  BY <1>1, <1>2, <1>3, FileContinueKeeps, Zenon
<1>5. r.dl.stream = dl.stream
  BY Zenon DEF Answer
<1>6. Len(r.dl.stream) >= Len(dl.stream)
  BY <1>1, <1>5
<1> QED
  BY <1>1, <1>4, <1>6, FileHands, Zenon

(* A read fails.                                                           *)
LEMMA OnReadErrorKeeps ==
    ASSUME FileInv, OnReadErrorCallback
    PROVE  FileKept
<1> DEFINE r == TransferEnded(multi, dl, FALSE)
<1>1. file.ongoing /\ FileContinue(FileCleanUp(file), r)
  BY Zenon DEF OnReadErrorCallback
<1>2. ranges \in Requests /\ Settled(multi, dl) /\ Running(dl) /\ file \in FileStates
  BY <1>1, FileRuns, Zenon
<1>3. Calling(multi, dl)
  BY <1>2, SettledCalls, Zenon
<1>4. Answer(r, dl)
  BY <1>2, <1>3, EndedFacts, Zenon
<1> HIDE DEF r
<1> QED
  BY <1>1, <1>2, <1>4, FileEnds, Zenon

(* TerminateTransfer between two callbacks.                                *)
LEMMA FileTerminateKeeps ==
    ASSUME FileInv, FileTerminate
    PROVE  FileKept
<1> DEFINE r == TerminateTransfer(multi, dl)
<1>1. dl.begun /\ dl.outcome = "none" /\ FileContinue(FileCleanUp(file), r)
  BY Zenon DEF FileTerminate
<1>2. ranges \in Requests /\ Settled(multi, dl) /\ Running(dl) /\ file \in FileStates
  BY <1>1, FileRuns, Zenon
<1>3. Answer(r, dl)
  BY <1>2, TerminateFacts, Zenon
<1> HIDE DEF r
<1> QED
  BY <1>1, <1>2, <1>3, FileEnds, Zenon

(* A read returns.                                                         *)
LEMMA OnReadDoneKeeps ==
    ASSUME FileInv, OnReadDoneCallback
    PROVE  FileKept
<1> DEFINE at == file.offset + file.copied
           f == [file EXCEPT !.ongoing = FALSE]
<1>1. file.ongoing
  BY Zenon DEF OnReadDoneCallback
<1>2. /\ MultiInv /\ ranges \in Requests /\ Settled(multi, dl) /\ Running(dl)
      /\ dl.outcome = "none" /\ Len(dl.stream) \in Nat
      /\ file \in FileStates /\ FileKnows(file, multi) /\ HasLength(CurrentRange(multi))
  BY <1>1, FileRuns, Zenon
<1>3. /\ f \in FileStates /\ f.inProgress = file.inProgress /\ f.offset = file.offset
      /\ f.length = file.length /\ f.copied = file.copied
  BY <1>2, Zenon DEF FileStates
<1>4. at = CurrentRange(multi).offset + multi.received /\ at \in Nat /\ BytesToRead(file) \in Int
  <2>1. at = CurrentRange(multi).offset + multi.received
    BY <1>2, Zenon DEF FileKnows
  <2>2. file.offset \in Nat /\ file.copied \in Nat /\ file.length \in Int
    BY <1>2 DEF FileStates
  <2>3. BytesToRead(file) \in Int
    BY <2>2, BufferAssumption DEF BytesToRead, Smaller
  <2>4. at \in Nat
    BY <2>2
  <2> QED
    BY <2>1, <2>3, <2>4, Zenon
<1>5. CASE at >= FileSize /\ FileContinue(FileCleanUp(f), TransferEnded(multi, dl, TRUE))
  <2> DEFINE r == TransferEnded(multi, dl, TRUE)
  <2>1. Calling(multi, dl)
    BY <1>2, SettledCalls, Zenon
  <2>2. Answer(r, dl)
    BY <1>2, <2>1, EndedFacts, Zenon
  <2>3. FileContinue(FileCleanUp(f), r)
    BY <1>5, Zenon
  <2> HIDE DEF r, f
  <2> QED
    BY <1>2, <1>3, <2>2, <2>3, FileEnds, Zenon
<1>6. ASSUME NEW n \in 1..BytesToRead(file), NEW accepted \in BOOLEAN, at + n <= FileSize,
             LET r == ReceivedBytes(multi, dl, at, n, accepted)
                 e == TransferEnded(r.multi, r.dl, FALSE)
                 g == [f EXCEPT !.copied = @ + n]
             IN  IF r.end
                 THEN FileContinue(FileCleanUp(g), [e EXCEPT !.checks = @ /\ r.checks])
                 ELSE ScheduleRead(g, r)
      PROVE  FileKept
  <2> DEFINE r == ReceivedBytes(multi, dl, at, n, accepted)
             e == TransferEnded(r.multi, r.dl, FALSE)
             g == [f EXCEPT !.copied = @ + n]
             e2 == [e EXCEPT !.checks = @ /\ r.checks]
  <2>1. /\ r.end => FileContinue(FileCleanUp(g), e2)
        /\ ~r.end => ScheduleRead(g, r)
    BY <1>6, Zenon
  <2>2. n \in Nat \ {0} /\ n \in Nat
    BY <1>4
  <2>3. Taken(r, multi, dl, n)
    <3>1. r = ReceivedBytes(multi, dl, at, n, accepted)
      BY Zenon
    <3>2. accepted \in BOOLEAN /\ at + n <= FileSize
      BY <1>6, Zenon
    <3> HIDE DEF r, at
    <3> QED
      BY <1>2, <1>4, <2>2, <3>1, <3>2, ReceivedFacts, Zenon
  <2>4. /\ Calling(r.multi, r.dl) /\ r.checks = TRUE /\ r.end \in BOOLEAN
        /\ ~r.end => Settled(r.multi, r.dl)
        /\ r.multi.index = multi.index /\ r.multi.received = multi.received + n
        /\ Len(r.dl.stream) >= Len(dl.stream)
    BY <2>3, Zenon DEF Taken
  <2> HIDE DEF r, f, at
  <2>5. /\ g \in FileStates /\ g.inProgress = f.inProgress /\ g.offset = f.offset
        /\ g.length = f.length /\ g.copied = f.copied + n
    <3> DEFINE b == f.copied + n
    <3>1. b \in Nat /\ f.copied + n = b
      BY <1>3, <2>2 DEF FileStates
    <3>2. g = [f EXCEPT !.copied = b]
      BY Zenon
    <3> HIDE DEF b, g
    <3> QED
      BY <1>3, <3>1, <3>2 DEF FileStates
  <2> HIDE DEF g
  <2>6. CASE r.end
    <3>1. Answer(e, r.dl)
      BY <1>2, <2>4, EndedFacts, Zenon
    <3>2. e2 = e
      <4>1. e2 = [e EXCEPT !.checks = @ /\ r.checks]
        BY Zenon
      <4> HIDE DEF e, e2
      <4> QED
        BY <2>4, <3>1, <4>1, BothChecked, Zenon
    <3> HIDE DEF e, e2
    <3> DEFINE h == FileCleanUp(g)
    <3>3. h \in FileStates /\ h.ongoing = FALSE /\ h.inProgress = FALSE /\ h.paused = FALSE
      BY <2>5, FileCleanUpFacts, Zenon
    <3>4. FileContinue(h, e)
      BY <2>1, <2>6, <3>2, Zenon
    <3> HIDE DEF h
    <3>5. FileLeft(e)
      BY <1>2, <3>1, <3>3, <3>4, FileContinueKeeps, Zenon
    <3>6. e.dl.stream = r.dl.stream
      BY <3>1, Zenon DEF Answer
    <3> QED
      BY <1>2, <2>4, <3>5, <3>6, FileHands, Zenon
  <2>7. CASE ~r.end
    <3>1. CurrentRange(r.multi) = CurrentRange(multi)
      BY <2>4, Zenon DEF CurrentRange
    <3>2. Goes(r)
      BY <2>4, <2>7, Zenon DEF Goes, Calling, Running
    <3>3. FileKnows(g, r.multi)
      BY <1>2, <1>3, <2>4, <2>5, <3>1, Zenon DEF FileKnows
    <3>4. FileLeft(r)
      BY <1>2, <2>1, <2>5, <2>7, <3>1, <3>2, <3>3, ScheduleReadKeeps, Zenon
    <3> QED
      BY <1>2, <2>4, <3>4, FileHands, Zenon
  <2> QED
    BY <2>6, <2>7, Zenon
<1> QED
  BY <1>5, <1>6, Zenon DEF OnReadDoneCallback

(* Pausing lets a read in flight be.                                       *)
LEMMA FilePauseKeeps ==
    ASSUME FileInv, FilePause
    PROVE  FileKept
<1>1. /\ dl.begun /\ dl.outcome = "none" /\ file' = [file EXCEPT !.paused = TRUE]
      /\ dl' = [dl EXCEPT !.suspended = TRUE] /\ ranges' = ranges /\ multi' = multi
      /\ checks' = checks
  BY DEF FilePause
<1>2. MultiInv /\ Running(dl) /\ file \in FileStates /\ FileKnows(file, multi)
      /\ HasLength(CurrentRange(multi)) /\ checks = TRUE
  BY <1>1, FileRuns, Zenon DEF MultiInv
<1>3. MultiInv' /\ Running(dl)' /\ CurrentRange(multi)' = CurrentRange(multi) /\ Handed
  <2>1. checks' = TRUE /\ \E s \in BOOLEAN : dl' = [dl EXCEPT !.suspended = s]
    BY <1>1, <1>2, Zenon
  <2> QED
    BY <1>1, <1>2, <2>1, SameTransfer, Zenon
<1>4. /\ file' \in FileStates /\ file'.inProgress = file.inProgress /\ file'.offset = file.offset
      /\ file'.length = file.length /\ file'.copied = file.copied
  BY <1>1, <1>2, Zenon DEF FileStates
<1>5. FileOK(file, multi, dl)'
  BY <1>1, <1>2, <1>3, <1>4, Zenon DEF FileOK, FileKnows, Running
<1> QED
  BY <1>3, <1>5, Zenon DEF FileKept, FileInv

(* Unpausing reads on.                                                     *)
LEMMA FileUnpauseKeeps ==
    ASSUME FileInv, FileUnpause
    PROVE  FileKept
<1> DEFINE d == [dl EXCEPT !.suspended = FALSE]
           r == Stay(multi, d, TRUE)
           f == [file EXCEPT !.paused = FALSE]
<1>1. dl.suspended /\ dl.outcome = "none" /\ (ScheduleRead(f, r) \/ (file' = file /\ Returned(r)))
  BY Zenon DEF FileUnpause
<1>2. dl.begun
  BY <1>1, Zenon DEF FileInv, MultiInv, Settled
<1>3. /\ MultiInv /\ Running(dl) /\ file \in FileStates /\ FileKnows(file, multi)
      /\ HasLength(CurrentRange(multi)) /\ Len(dl.stream) \in Nat
  BY <1>1, <1>2, FileRuns, Zenon
<1>4. Settled(multi, d) /\ Running(d) /\ d.stream = dl.stream
  <2>1. \E s \in BOOLEAN : d = [dl EXCEPT !.suspended = s]
    BY Zenon
  <2> HIDE DEF d
  <2> QED
    BY <1>3, <2>1, SuspendedFacts, Zenon
<1> HIDE DEF d
<1>5. r.multi = multi /\ r.dl = d /\ r.checks = TRUE
  BY DEF Stay
<1>6. /\ f \in FileStates /\ f.inProgress = file.inProgress /\ f.offset = file.offset
      /\ f.length = file.length /\ f.copied = file.copied
  BY <1>3, Zenon DEF FileStates
<1> HIDE DEF r, f
<1>7. Goes(r) /\ Len(r.dl.stream) >= Len(dl.stream) /\ FileKnows(f, r.multi)
      /\ HasLength(CurrentRange(r.multi)) /\ FileKnows(file, r.multi)
  <2>1. Len(r.dl.stream) >= Len(dl.stream)
    BY <1>3, <1>4, <1>5
  <2> QED
    BY <1>3, <1>4, <1>5, <1>6, <2>1, Zenon DEF Goes, FileKnows
<1>8. FileLeft(r)
  BY <1>1, <1>3, <1>6, <1>7, ScheduleReadKeeps, FileGoesOn, Zenon
<1> QED
  BY <1>1, <1>7, <1>8, FileHands, Zenon

(* Every step of FileFetcher.                                              *)
LEMMA FileStepKeeps ==
    ASSUME FileInv, FileNext
    PROVE  FileKept
BY FileBeginKeeps, OnReadDoneKeeps, OnReadErrorKeeps, FilePauseKeeps, FileUnpauseKeeps,
   FileTerminateKeeps, Zenon DEF FileNext

-----------------------------------------------------------------------------
(* The whole transfer.                                                     *)
LEMMA InitInv == Init => Inv
<1> SUFFICES ASSUME Init PROVE Inv
  OBVIOUS
<1>1. /\ ranges \in Requests /\ multi = MultiReset /\ checks = TRUE /\ base \in {"libcurl", "file"}
      /\ dl = [offset |-> 0, stream |-> <<>>, asked |-> FALSE, outcome |-> "none",
               begun |-> FALSE, suspended |-> FALSE]
  BY FetchersAssumption DEF Init, MultiInit
<1>2. /\ dl \in Downloads /\ ~dl.begun /\ dl.outcome = "none" /\ ~dl.suspended /\ dl.asked = FALSE
      /\ Len(dl.stream) = 0
  BY <1>1 DEF Downloads, Promise!Outcomes
<1>3. multi \in MultiStates /\ ~multi.pending /\ ~multi.terminating
  BY <1>1 DEF MultiStates, MultiReset
<1>4. InOrder(dl.stream)
  <2>1. Len(Wanted) \in Nat
    BY <1>1, WantedFacts
  <2> QED
    BY <1>2, <2>1 DEF InOrder
<1>5. Settled(multi, dl)
  <2>1. "none" # "terminated" /\ "none" # "success"
    OBVIOUS
  <2>2. dl.asked = (dl.outcome = "terminated")
    BY <1>2, <2>1, Zenon
  <2> QED
    BY <1>1, <1>2, <1>3, <1>4, <2>1, <2>2, Zenon DEF Settled, Running
<1>6. /\ curl \in CurlStates /\ ~curl.callback /\ ~curl.paused /\ ~curl.resolving /\ ~curl.retry
      /\ ~curl.inProgress /\ ~curl.restartOnUnpause
  BY CurlAssumption DEF Init, CurlInit, CurlStates
<1>7. conn \in ConnStates /\ conn.state = "none"
  BY DEF Init, CurlInit, ConnStates, NoConn
<1>8. file \in FileStates /\ ~file.inProgress /\ ~file.paused /\ ~file.ongoing
  BY DEF Init, FileInit, NewFile, FileStates
<1>9. CurlOK(curl, conn, multi, dl)
  BY <1>2, <1>6, <1>7, Zenon DEF CurlOK, Running, Waits
<1>10. FileOK(file, multi, dl)
  BY <1>2, <1>8, Zenon DEF FileOK, Running
<1> QED
  BY <1>1, <1>5, <1>9, <1>10, Zenon DEF Inv, MultiInv

(* Nothing changes.                                                        *)
LEMMA SameInv ==
    ASSUME Inv, UNCHANGED vars
    PROVE  Inv' /\ Handed /\ Silent
<1>1. /\ ranges' = ranges /\ multi' = multi /\ dl' = dl /\ checks' = checks
      /\ curl' = curl /\ conn' = conn /\ file' = file /\ base' = base
  BY DEF vars, multiVars, curlVars
<1>2. Settled(multi, dl)' /\ CurrentRange(multi)' = CurrentRange(multi)
  BY <1>1, SameRanges, Zenon DEF Inv, MultiInv
<1>3. MultiInv'
  BY <1>1, <1>2, Zenon DEF Inv, MultiInv
<1>4. base = "libcurl" => CurlOK(curl, conn, multi, dl)'
  BY <1>1, <1>2, Zenon DEF Inv, CurlOK, CurlBusy, Running
<1>5. base = "file" => FileOK(file, multi, dl)'
  BY <1>1, <1>2, Zenon DEF Inv, FileOK, Running
<1> QED
  BY <1>1, <1>3, <1>4, <1>5, Zenon DEF Inv, Handed, Silent

(* Every step keeps the invariant, hands bytes over in order, and hands    *)
(* over none to a delegate that has paused a LibcurlHttpFetcher.           *)
LEMMA NextInv ==
    ASSUME Inv, [Next]_vars
    PROVE  Inv' /\ Handed /\ (base = "libcurl" => Silent)
<1>1. CASE LibcurlStep
  <2>1. base = "libcurl" /\ base' = base /\ CurlNext /\ "libcurl" # "file"
    BY <1>1 DEF LibcurlStep
  <2>2. CurlKept
    BY <2>1, CurlStepKeeps, Zenon DEF Inv, CurlInv
  <2> QED
    BY <2>1, <2>2, Zenon DEF CurlKept, CurlInv, Inv
<1>2. CASE FileStep
  <2>1. base = "file" /\ base' = base /\ FileNext /\ "libcurl" # "file"
    BY <1>2 DEF FileStep
  <2>2. FileKept
    BY <2>1, FileStepKeeps, Zenon DEF Inv, FileInv
  <2> QED
    BY <2>1, <2>2, Zenon DEF FileKept, FileInv, Inv
<1>3. CASE UNCHANGED vars
  BY <1>3, SameInv, Zenon
<1> QED
  BY <1>1, <1>2, <1>3, Zenon DEF Next, Over

(* The inductive invariant holds in every reachable state.                 *)
LEMMA AlwaysInv == Spec => []Inv
<1>1. Inv /\ [Next]_vars => Inv'
  BY NextInv
<1> QED
  BY <1>1, InitInv, PTL DEF Spec

(* ChecksHold: no CHECK of the three fetchers fails, for any file, any     *)
(* ranges, and any number of failures, proxies and retries.                *)
THEOREM NoCheckFails == Spec => []ChecksHold
<1>1. Inv => ChecksHold
  BY DEF Inv, MultiInv, ChecksHold
<1> QED
  BY <1>1, AlwaysInv, PTL

(* Of four flags of which one is set and excludes the others, one is set.  *)
LEMMA OneThing ==
    ASSUME NEW c \in CurlStates, WaitsForOne(c)
    PROVE  Cardinality({w \in {"resolving", "retry", "inProgress", "restartOnUnpause"} : c[w]}) = 1
<1> DEFINE S == {w \in {"resolving", "retry", "inProgress", "restartOnUnpause"} : c[w]}
<1>1. \E x : S = {x}
  <2>1. CASE c.resolving
    <3>1. ~c.retry /\ ~c.inProgress /\ ~c.restartOnUnpause
      BY <2>1, Zenon DEF WaitsForOne
    <3>2. S = {"resolving"}
      BY <2>1, <3>1
    <3> QED
      BY <3>2, Zenon
  <2>2. CASE c.retry
    <3>1. ~c.resolving /\ ~c.inProgress /\ ~c.restartOnUnpause
      BY <2>2, Zenon DEF WaitsForOne
    <3>2. S = {"retry"}
      BY <2>2, <3>1
    <3> QED
      BY <3>2, Zenon
  <2>3. CASE c.inProgress
    <3>1. ~c.resolving /\ ~c.retry /\ ~c.restartOnUnpause
      BY <2>3, Zenon DEF WaitsForOne
    <3>2. S = {"inProgress"}
      BY <2>3, <3>1
    <3> QED
      BY <3>2, Zenon
  <2>4. CASE c.restartOnUnpause
    <3>1. ~c.resolving /\ ~c.retry /\ ~c.inProgress
      BY <2>4, Zenon DEF WaitsForOne
    <3>2. S = {"restartOnUnpause"}
      BY <2>4, <3>1
    <3> QED
      BY <3>2, Zenon
  <2> QED
    BY <2>1, <2>2, <2>3, <2>4, Zenon DEF WaitsForOne, Waits
<1> HIDE DEF S
<1>2. Cardinality(S) = 1
  BY <1>1, FS_Singleton, Zenon
<1> QED
  BY <1>2 DEF S

(* WaitsForOneThing: a running libcurl transfer waits for exactly one of   *)
(* the proxies, a retry, its connection and Unpause; no order of pausing,  *)
(* failing and retrying leaves it waiting for nothing, or for two things.  *)
THEOREM NeverStranded == Spec => []WaitsForOneThing
<1>1. Inv => WaitsForOneThing
  <2> SUFFICES ASSUME Inv, base = "libcurl", dl.begun, dl.outcome = "none"
               PROVE  /\ Cardinality({w \in {"resolving", "retry", "inProgress", "restartOnUnpause"} :
                                         curl[w]}) = 1
                      /\ curl.inProgress <=> conn.state # "none"
                      /\ curl.restartOnUnpause => curl.paused
                      /\ curl.paused = dl.suspended
    BY Zenon DEF WaitsForOneThing
  <2>1. curl \in CurlStates /\ CurlBusy(curl, conn, multi, dl)
    BY Zenon DEF Inv, CurlOK, Running
  <2>2. Cardinality({w \in {"resolving", "retry", "inProgress", "restartOnUnpause"} : curl[w]}) = 1
    BY <2>1, OneThing, Zenon DEF CurlBusy
  <2> QED
    BY <2>1, <2>2, Zenon DEF CurlBusy
<1> QED
  BY <1>1, AlwaysInv, PTL

(* PausedIsSilent: a paused LibcurlHttpFetcher hands nothing over, through *)
(* retries and changes of proxy.                                           *)
THEOREM SilentWhilePaused == Spec => PausedIsSilent
<1>1. Inv /\ [Next]_vars =>
        [base = "libcurl" /\ dl.suspended /\ dl'.suspended => dl'.stream = dl.stream]_vars
  BY NextInv, Zenon DEF Silent
<1> QED
  BY <1>1, AlwaysInv, PTL DEF Spec, PausedIsSilent

(* What is in order is a first part of what is wanted.                     *)
LEMMA FirstOnes ==
    ASSUME NEW w \in Seq(Nat), NEW s \in Seq(Nat), Len(s) <= Len(w),
           \A i \in 1..Len(s) : s[i] = w[i]
    PROVE  s = SubSeq(w, 1, Len(s))
<1> DEFINE t == SubSeq(w, 1, Len(s))
<1>1. t \in Seq(Nat) /\ Len(t) = Len(s) /\ \A i \in 1..Len(t) : t[i] = s[i]
  OBVIOUS
<1> HIDE DEF t
<1>2. s = t
  BY <1>1, SeqEqual
<1> QED
  BY <1>2 DEF t

(* KeepsPromise: LibcurlHttpFetcher and FileFetcher under                  *)
(* MultiRangeHttpFetcher implement Transfer, what an HttpFetcher promises  *)
(* its delegate: no byte is lost, repeated or handed over out of order,    *)
(* and the transfer ends once, as a success only with all that was needed. *)
THEOREM FetchersKeepPromise == Spec => KeepsPromise
<1>1. Init => Promise!TransferInit
  <2> SUFFICES ASSUME Init PROVE Promise!TransferInit
    OBVIOUS
  <2>1. Wanted \in Seq(Nat) /\ Needed \in 0..Len(Wanted)
    BY WantedFacts DEF Init, MultiInit
  <2>2. dl.stream = <<>> /\ dl.asked = FALSE /\ dl.outcome = "none"
    BY DEF Init, MultiInit
  <2> QED
    BY <2>1, <2>2, Zenon DEF Promise!TransferInit
<1>2. Inv /\ [Next]_vars => [Promise!Progress]_(Promise!transferVars)
  <2> SUFFICES ASSUME Inv, [Next]_vars PROVE [Promise!Progress]_(Promise!transferVars)
    OBVIOUS
  <2>1. Inv' /\ Handed
    BY NextInv, Zenon
  <2>2. Wanted' = Wanted /\ Needed' = Needed /\ ranges \in Requests
    BY <2>1, SameRanges, Zenon DEF Handed, Inv, MultiInv
  <2>3. CASE dl' = dl
    BY <2>2, <2>3 DEF Promise!transferVars
  <2>4. CASE dl.outcome = "none" /\ Len(dl'.stream) >= Len(dl.stream)
    <3>1. /\ dl \in Downloads /\ dl' \in Downloads /\ InOrder(dl.stream) /\ InOrder(dl'.stream)
          /\ dl'.asked = (dl'.outcome = "terminated")
          /\ dl'.outcome = "success" => Len(dl'.stream) >= Needed
      <4>1. Settled(multi', dl')
        BY <2>1, SameRanges, Zenon DEF Handed, Inv, MultiInv
      <4> QED
        BY <4>1, Zenon DEF Settled, Inv, MultiInv
    <3>2. dl.stream \in Seq(Nat) /\ dl'.stream \in Seq(Nat) /\ dl'.outcome \in Promise!Outcomes
      BY <3>1 DEF Downloads
    <3>3. Wanted \in Seq(Nat)
      BY <2>2, WantedFacts, Zenon
    <3>4. dl'.stream = SubSeq(Wanted, 1, Len(dl'.stream)) /\ Len(dl'.stream) <= Len(Wanted)
      BY <3>1, <3>2, <3>3, FirstOnes, Zenon DEF InOrder
    <3>5. \E n \in 0..(Len(Wanted) - Len(dl.stream)) : Promise!Advance(n)
      <4> DEFINE n == Len(dl'.stream) - Len(dl.stream)
      <4>1. n \in 0..(Len(Wanted) - Len(dl.stream)) /\ Len(dl.stream) + n = Len(dl'.stream)
        BY <2>4, <3>2, <3>3, <3>4
      <4> HIDE DEF n
      <4>2. Promise!Advance(n)
        BY <3>4, <4>1, Zenon DEF Promise!Advance
      <4> QED
        BY <4>1, <4>2, Zenon
    <3>6. Promise!Progress
      BY <2>2, <2>4, <3>1, <3>2, <3>5, Zenon DEF Promise!Progress
    <3> QED
      BY <3>6, Zenon
  <2> QED
    BY <2>1, <2>3, <2>4, Zenon DEF Handed
<1> QED
  BY <1>1, <1>2, AlwaysInv, PTL DEF Spec, KeepsPromise, Promise!TransferSpec
=============================================================================
