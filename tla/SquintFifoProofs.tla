-------------------------- MODULE SquintFifoProofs --------------------------
(***************************************************************************)
(* The throttle of the Squint fifo, for every number of writers and every  *)
(* size of the fifo, the threshold and the records.                        *)
(***************************************************************************)
EXTENDS SquintFifo, FiniteSetTheorems, TLAPS

\* Between two records of a trace there is a frame left to print.
FramesLeft == \A w \in Writers : wpc[w] = "record" => frames[w] > 0

\* Nobody is inside the module while it is not loaded.
UnloadedIdle == ~loaded => (rpc = "idle" /\ \A w \in Writers : wpc[w] = "idle")

IInv == TypeOK /\ FramesLeft /\ UnloadedIdle /\ Reserve /\ NoTruncation

-----------------------------------------------------------------------------
\* One record more needs MaxLen bytes more.
LEMMA RoomStep ==
    ASSUME NEW n \in Nat
    PROVE  Room(n) \in Nat /\ Room(n + 1) = Room(n) + MaxLen
<1>1. ASSUME NEW m \in Nat PROVE n * m \in Nat /\ (n + 1) * m = n * m + m  OBVIOUS
<1>. QED  BY <1>1, SizesAssumption DEF Room

\* More records need no less room.
LEMMA RoomMono ==
    ASSUME NEW a \in Nat, NEW b \in Nat, a <= b
    PROVE  Room(a) <= Room(b)
<1>1. PICK d \in Nat : b = a + d  OBVIOUS
<1>2. ASSUME NEW m \in Nat PROVE b * m = a * m + d * m /\ a * m \in Nat /\ d * m \in Nat
  BY <1>1
<1>3. ASSUME NEW m \in Nat PROVE a * m <= b * m  BY <1>2
<1>. QED  BY <1>3, SizesAssumption DEF Room

\* What is lost of the room on one side of the sum is gained on the other.
LEMMA SumKept ==
    ASSUME NEW t \in Nat, NEW a \in Nat, NEW r \in Nat, a + r >= t,
           NEW b \in Nat, NEW m \in Nat, b + m >= a
    PROVE  b + (r + m) >= t
OBVIOUS

\* The pending writers are a finite set, no larger than the set of writers.
LEMMA PendingFinite ==
    /\ IsFiniteSet(Pending)
    /\ Cardinality(Pending) \in Nat /\ Cardinality(Writers) \in Nat
    /\ Cardinality(Pending) <= Cardinality(Writers)
<1>1. Pending \subseteq Writers  BY DEF Pending
<1>. QED  BY <1>1, WritersFinite, FS_Subset, FS_CardinalityType

\* A put adds its writer to the pending ones, who then are at most all writers.
LEMMA PendingPut ==
    ASSUME NEW w \in Writers, wpc \in [Writers -> WriterStates],
           w \notin Pending, wpc' = [wpc EXCEPT ![w] = "check"]
    PROVE  /\ Cardinality(Pending') = Cardinality(Pending) + 1
           /\ Cardinality(Pending) + 1 <= Cardinality(Writers)
<1>1. Pending' = Pending \cup {w}  BY Zenon DEF Pending
<1>2. Pending' \subseteq Writers  BY DEF Pending
<1>3. Cardinality(Pending') = Cardinality(Pending) + 1
  BY <1>1, PendingFinite, FS_AddElement, Zenon
<1>4. Cardinality(Pending') <= Cardinality(Writers)
  BY <1>2, WritersFinite, FS_Subset
<1>. QED  BY <1>3, <1>4

\* A writer that leaves takes its record out of the count.
LEMMA PendingLeave ==
    ASSUME NEW w \in Writers, wpc \in [Writers -> WriterStates],
           w \in Pending, NEW s \in {"idle", "record"}, wpc' = [wpc EXCEPT ![w] = s]
    PROVE  Cardinality(Pending') + 1 = Cardinality(Pending) /\ Cardinality(Pending') \in Nat
<1>1. Pending' = Pending \ {w}  BY Zenon DEF Pending
<1>2. IsFiniteSet(Pending \ {w}) /\ Cardinality(Pending \ {w}) = Cardinality(Pending) - 1
  BY PendingFinite, FS_RemoveElement
<1>3. Cardinality(Pending \ {w}) \in Nat  BY <1>2, FS_CardinalityType
<1>. QED  BY <1>1, <1>2, <1>3, PendingFinite

-----------------------------------------------------------------------------
\* The put of one record, of any length, by a writer that is not pending keeps
\* the reserve, and does not cut the record while the reserve is large enough.
LEMMA PutKeepsReserve ==
    ASSUME IInv, loaded, loaded' = loaded, interrupts' = interrupts,
           NEW w \in Writers, w \notin Pending, wpc' = [wpc EXCEPT ![w] = "check"],
           NEW len \in 1..MaxLen, kfifo_in(len)
    PROVE  /\ avail' \in 0..KFIFO_LEN /\ truncated' \in BOOLEAN
           /\ Reserve' /\ NoTruncation'
<1>1. PICK p \in Nat : p = Cardinality(Pending) + interrupts
  BY PendingFinite DEF IInv, TypeOK
<1>2. PICK n \in Nat : n = Cardinality(Writers) + interrupts
  BY PendingFinite DEF IInv, TypeOK
<1>3. Cardinality(Pending') + interrupts = p + 1 /\ p + 1 <= n
  <2>1. interrupts \in Nat /\ wpc \in [Writers -> WriterStates]  BY DEF IInv, TypeOK
  <2>2. /\ Cardinality(Pending') = Cardinality(Pending) + 1
        /\ Cardinality(Pending) + 1 <= Cardinality(Writers)
    BY <2>1, PendingPut, Zenon
  <2>. QED  BY <1>1, <1>2, <2>1, <2>2, PendingFinite
<1>4. avail \in 0..KFIFO_LEN /\ avail + Room(p) >= KFIFO_THRESHOLD_LEN
  BY <1>1 DEF IInv, Reserve, TypeOK
<1>5. Room(p) \in Nat /\ Room(p + 1) = Room(p) + MaxLen  BY RoomStep
<1>6. avail' \in 0..KFIFO_LEN /\ avail' + MaxLen >= avail
  BY <1>4, SizesAssumption DEF kfifo_in
<1>7. Reserve'
  <2>1. avail' + Room(p + 1) >= KFIFO_THRESHOLD_LEN
    <3>1. PICK b \in Nat : b = avail' /\ b + MaxLen >= avail  BY <1>6, SizesAssumption
    <3>2. PICK r \in Nat : r = Room(p) /\ avail + r >= KFIFO_THRESHOLD_LEN
      BY <1>4, <1>5
    <3>3. avail \in Nat /\ MaxLen \in Nat /\ KFIFO_THRESHOLD_LEN \in Nat
      BY <1>4, SizesAssumption
    <3>4. b + (r + MaxLen) >= KFIFO_THRESHOLD_LEN
      BY <3>1, <3>2, <3>3, SumKept, Zenon
    <3>. QED  BY <3>1, <3>2, <3>4, <1>5
  <2>. QED  BY <1>3, <2>1 DEF Reserve, Room
<1>8. NoTruncation'
  <2>. SUFFICES ASSUME Room(n) <= KFIFO_THRESHOLD_LEN
                PROVE  ~truncated'
    BY <1>2 DEF NoTruncation, Room
  <2>1. ~truncated  BY <1>2 DEF IInv, NoTruncation
  <2>2. Room(p + 1) <= Room(n)  BY <1>3, RoomMono
  <2>3. Room(n) \in Nat  BY RoomStep
  <2>4. len <= avail
    BY <1>4, <1>5, <2>2, <2>3, SizesAssumption
  <2>5. truncated' = (truncated \/ (IF len <= avail THEN len ELSE avail) < len)
    BY Zenon DEF kfifo_in
  <2>6. ~((IF len <= avail THEN len ELSE avail) < len)  BY <2>4, <1>4
  <2>. QED  BY <2>1, <2>5, <2>6, Zenon
<1>9. truncated' \in BOOLEAN  BY DEF kfifo_in, IInv, TypeOK
<1>. QED  BY <1>6, <1>7, <1>8, <1>9

\* The reserve is kept by a step that takes no room and leaves the pending
\* writers alone.
LEMMA ReserveKept ==
    ASSUME IInv, loaded, interrupts' = interrupts, avail' >= avail, avail' \in Nat,
           Pending' = Pending
    PROVE  Reserve'
<1>1. PICK p \in Nat : p = Cardinality(Pending) + interrupts
  BY PendingFinite DEF IInv, TypeOK
<1>2. PICK r \in Nat : r = Room(p)  BY RoomStep
<1>3. avail \in Nat /\ avail + r >= KFIFO_THRESHOLD_LEN
  BY <1>1, <1>2 DEF IInv, Reserve, TypeOK
<1>4. PICK b \in Nat : b = avail' /\ b >= avail  OBVIOUS
<1>5. b + r >= KFIFO_THRESHOLD_LEN
  <2>1. ASSUME NEW t \in Nat, NEW a \in Nat, a + r >= t, b >= a PROVE b + r >= t
    BY <2>1
  <2>. QED  BY <2>1, <1>3, <1>4, SizesAssumption, Zenon
<1>. QED  BY <1>1, <1>2, <1>4, <1>5 DEF Reserve, Room

\* Above the threshold there is nothing to reserve.
LEMMA ReserveWhole ==
    ASSUME avail' \in Nat, avail' >= KFIFO_THRESHOLD_LEN, interrupts' \in Nat,
           Cardinality(Pending') \in Nat
    PROVE  Reserve'
<1>1. PICK i \in Nat : i = interrupts'  OBVIOUS
<1>2. PICK c \in Nat : c = Cardinality(Pending')  OBVIOUS
<1>3. PICK r \in Nat : r = Room(c + i)  BY RoomStep
<1>4. PICK b \in Nat : b = avail' /\ b >= KFIFO_THRESHOLD_LEN  OBVIOUS
<1>5. b + r >= KFIFO_THRESHOLD_LEN
  <2>1. ASSUME NEW t \in Nat, b >= t PROVE b + r >= t  BY <2>1
  <2>. QED  BY <2>1, <1>4, SizesAssumption, Zenon
<1>. QED  BY <1>1, <1>2, <1>3, <1>4, <1>5 DEF Reserve, Room

-----------------------------------------------------------------------------
\* The initial state satisfies the invariant: nothing is loaded.
LEMMA InitIInv == Init => IInv
<1>. SUFFICES ASSUME Init PROVE IInv  OBVIOUS
<1>1. TypeOK
  <2>1. 0 \in 0..KFIFO_LEN /\ 0 \in 0..MaxFrames /\ 0 \in Nat  BY SizesAssumption
  <2>. QED  BY <2>1, Zenon DEF Init, TypeOK, WriterStates, ReaderStates
<1>2. FramesLeft /\ UnloadedIdle  BY DEF Init, FramesLeft, UnloadedIdle
<1>3. Reserve /\ NoTruncation  BY DEF Init, Reserve, NoTruncation
<1>. QED  BY <1>1, <1>2, <1>3 DEF IInv

\* A record is put.
LEMMA PutStep ==
    ASSUME IInv, NEW w \in Writers, write_trace(w) \/ print_frame(w)
    PROVE  IInv'
<1>1. TypeOK /\ FramesLeft /\ UnloadedIdle  BY DEF IInv
<1>2. loaded  BY <1>1 DEF write_trace, print_frame, UnloadedIdle
<1>3. w \notin Pending  BY DEF write_trace, print_frame, Pending
<1>4. /\ wpc' = [wpc EXCEPT ![w] = "check"]
      /\ UNCHANGED <<loaded, asleep, rpc, interrupts>>
      /\ frames' \in [Writers -> 0..MaxFrames]
  BY <1>1, SizesAssumption DEF write_trace, print_frame, FramesLeft, TypeOK
<1>5. PICK len \in 1..MaxLen : kfifo_in(len)  BY DEF write_trace, print_frame
<1>6. /\ avail' \in 0..KFIFO_LEN /\ truncated' \in BOOLEAN
      /\ Reserve' /\ NoTruncation'
  BY <1>2, <1>3, <1>4, <1>5, PutKeepsReserve, Zenon
<1>7. TypeOK'  BY <1>1, <1>4, <1>6 DEF TypeOK, WriterStates
<1>8. FramesLeft'
  <2>1. CASE write_trace(w)
    BY <2>1, <1>1, Zenon DEF write_trace, FramesLeft, TypeOK
  <2>2. CASE print_frame(w)
    BY <2>2, <1>1, Zenon DEF print_frame, FramesLeft, TypeOK
  <2>. QED  BY <2>1, <2>2
<1>9. UnloadedIdle'  BY <1>2, <1>4 DEF UnloadedIdle
<1>. QED  BY <1>6, <1>7, <1>8, <1>9 DEF IInv

\* A writer that has put a record moves on without putting another.
LEMMA ThrottleStep ==
    ASSUME IInv, NEW w \in Writers, check_avail(w) \/ set_asleep(w) \/ wait_event(w)
    PROVE  IInv'
<1>1. TypeOK /\ FramesLeft /\ UnloadedIdle /\ NoTruncation  BY DEF IInv
<1>2. w \in Pending  BY DEF check_avail, set_asleep, wait_event, Pending
<1>3. loaded  BY <1>1, <1>2 DEF UnloadedIdle, Pending
<1>4. UNCHANGED <<loaded, avail, frames, rpc, interrupts, truncated>>
  BY DEF check_avail, set_asleep, wait_event
<1>5. TypeOK'
  BY <1>1, Zenon DEF TypeOK, check_avail, set_asleep, wait_event, AfterRecord, WriterStates
<1>6. FramesLeft'
  <2>1. PICK s \in WriterStates : /\ wpc' = [wpc EXCEPT ![w] = s]
                                  /\ s = "record" => frames[w] # 0
    BY DEF check_avail, set_asleep, wait_event, AfterRecord, WriterStates
  <2>2. frames[w] \in Nat  BY <1>1, SizesAssumption DEF TypeOK
  <2>3. s = "record" => frames[w] > 0  BY <2>1, <2>2
  <2>. QED  BY <2>1, <2>3, <1>1, <1>4, Zenon DEF FramesLeft, TypeOK
<1>7. UnloadedIdle'  BY <1>3, <1>4 DEF UnloadedIdle
<1>8. NoTruncation'  BY <1>1, <1>4 DEF NoTruncation, Room
<1>9. Reserve'
  <2>1. avail \in Nat /\ avail' \in Nat /\ interrupts' \in Nat
    BY <1>1, <1>4, SizesAssumption DEF TypeOK
  <2>2. CASE avail >= KFIFO_THRESHOLD_LEN
    <3>1. Pending' \subseteq Writers  BY DEF Pending
    <3>2. Cardinality(Pending') \in Nat
      BY <3>1, WritersFinite, FS_Subset, FS_CardinalityType
    <3>3. avail' >= KFIFO_THRESHOLD_LEN  BY <2>2, <1>4
    <3>. QED  BY <2>1, <3>2, <3>3, ReserveWhole
  <2>3. CASE ~(avail >= KFIFO_THRESHOLD_LEN)
    <3>1. avail < KFIFO_THRESHOLD_LEN /\ ~(avail > KFIFO_THRESHOLD_LEN)
      BY <2>1, <2>3, SizesAssumption
    <3>2. PICK s \in {"flag", "wait", "sleeping"} : wpc' = [wpc EXCEPT ![w] = s]
      BY <3>1 DEF check_avail, set_asleep, wait_event
    <3>3. Pending' = Pending  BY <3>2, <1>1, <1>2, Zenon DEF Pending, TypeOK
    <3>4. avail' >= avail  BY <2>1, <1>4
    <3>. QED  BY <2>1, <3>3, <3>4, <1>3, <1>4, ReserveKept
  <2>. QED  BY <2>2, <2>3
<1>. QED  BY <1>5, <1>6, <1>7, <1>8, <1>9 DEF IInv

\* A signal ends a wait: the writer leaves the pending ones, and its record is
\* counted as that of an interrupted wait.
LEMMA SignalStep ==
    ASSUME IInv, NEW w \in Writers, signal(w)
    PROVE  IInv'
<1>1. TypeOK /\ FramesLeft /\ UnloadedIdle /\ NoTruncation /\ Reserve  BY DEF IInv
<1>2. w \in Pending  BY DEF signal, Pending
<1>3. loaded  BY <1>1, <1>2 DEF UnloadedIdle, Pending
<1>4. UNCHANGED <<loaded, avail, asleep, frames, rpc, truncated>>  BY DEF signal
<1>5. PICK s \in {"idle", "record"} : /\ wpc' = [wpc EXCEPT ![w] = s]
                                      /\ s = "record" => frames[w] # 0
  BY Zenon DEF signal, AfterRecord
<1>6. /\ avail \in Nat /\ interrupts \in Nat
      /\ interrupts' \in Nat
      /\ interrupts' = IF avail > KFIFO_THRESHOLD_LEN THEN interrupts ELSE interrupts + 1
  BY <1>1, SizesAssumption DEF TypeOK, signal
<1>7. TypeOK'  BY <1>1, <1>4, <1>5, <1>6, Zenon DEF TypeOK, WriterStates
<1>8. FramesLeft'
  <2>1. frames[w] \in Nat  BY <1>1, SizesAssumption DEF TypeOK
  <2>2. s = "record" => frames[w] > 0  BY <1>5, <2>1
  <2>. QED  BY <1>5, <2>2, <1>1, <1>4, Zenon DEF FramesLeft, TypeOK
<1>9. UnloadedIdle'  BY <1>3, <1>4 DEF UnloadedIdle
<1>10. NoTruncation'
  <2>1. PICK n \in Nat : n = Cardinality(Writers)  BY PendingFinite
  <2>2. PICK i \in Nat, j \in Nat : i = interrupts /\ j = interrupts' /\ i <= j
    BY <1>6
  <2>3. n + i <= n + j
    <3>1. i <= j  BY <2>2
    <3>. QED  BY <3>1
  <2>4. PICK x \in Nat, y \in Nat : x = Room(n + i) /\ y = Room(n + j) /\ x <= y
    <3>1. n + i \in Nat /\ n + j \in Nat  OBVIOUS
    <3>2. Room(n + i) \in Nat /\ Room(n + j) \in Nat  BY <3>1, RoomStep, Zenon
    <3>3. Room(n + i) <= Room(n + j)  BY <2>3, <3>1, RoomMono, Zenon
    <3>. QED  BY <3>2, <3>3, Zenon
  <2>5. y <= KFIFO_THRESHOLD_LEN => x <= KFIFO_THRESHOLD_LEN
    BY <2>4, SizesAssumption
  <2>6. x <= KFIFO_THRESHOLD_LEN => ~truncated
    BY <2>1, <2>2, <2>4, <1>1 DEF NoTruncation
  <2>. QED  BY <2>1, <2>2, <2>4, <2>5, <2>6, <1>4 DEF NoTruncation, Room
<1>11. Reserve'
  <2>1. Cardinality(Pending') + 1 = Cardinality(Pending) /\ Cardinality(Pending') \in Nat
    BY <1>1, <1>2, <1>5, PendingLeave, Zenon DEF TypeOK
  <2>2. CASE avail > KFIFO_THRESHOLD_LEN
    <3>1. avail >= KFIFO_THRESHOLD_LEN  BY <1>6, <2>2, SizesAssumption
    <3>2. avail' \in Nat /\ avail' >= KFIFO_THRESHOLD_LEN  BY <3>1, <1>4, <1>6
    <3>. QED  BY <3>2, <1>6, <2>1, ReserveWhole
  <2>3. CASE ~(avail > KFIFO_THRESHOLD_LEN)
    <3>1. PICK c \in Nat : c = Cardinality(Pending') /\ c + 1 = Cardinality(Pending)
      BY <2>1
    <3>2. interrupts' = interrupts + 1  BY <1>6, <2>3
    <3>3. c + (interrupts + 1) = (c + 1) + interrupts  BY <1>6
    <3>4. Cardinality(Pending') + interrupts' = Cardinality(Pending) + interrupts
      BY <3>1, <3>2, <3>3
    <3>5. loaded => avail' + Room(Cardinality(Pending') + interrupts') >= KFIFO_THRESHOLD_LEN
      BY <3>4, <1>1, <1>4 DEF Reserve
    <3>. QED  BY <3>5, <1>4 DEF Reserve, Room
  <2>. QED  BY <2>2, <2>3
<1>. QED  BY <1>7, <1>8, <1>9, <1>10, <1>11 DEF IInv

\* The reader only frees room, and wakes sleepers into the loop of their wait.
LEMMA ReaderStep ==
    ASSUME IInv, Reader
    PROVE  IInv'
<1>1. TypeOK /\ FramesLeft /\ UnloadedIdle /\ NoTruncation  BY DEF IInv
<1>. USE DEF SquintDeviceRead, test_asleep, clear_asleep, wake_up, Reader
<1>2. loaded  BY <1>1 DEF UnloadedIdle
<1>3. UNCHANGED <<loaded, frames, interrupts, truncated>>  OBVIOUS
<1>4. avail' \in 0..KFIFO_LEN /\ avail' \in Nat /\ avail' >= avail
  BY <1>1, SizesAssumption DEF TypeOK
<1>5. \/ wpc' = wpc
      \/ wpc' = [v \in Writers |-> IF wpc[v] = "sleeping" THEN "wait" ELSE wpc[v]]
  OBVIOUS
<1>6. Pending' = Pending  BY <1>1, <1>5, Zenon DEF Pending
<1>7. wpc' \in [Writers -> WriterStates]  BY <1>1, <1>5, Zenon DEF TypeOK, WriterStates
<1>8. TypeOK'  BY <1>1, <1>3, <1>4, <1>7 DEF TypeOK, ReaderStates
<1>9. FramesLeft'  BY <1>1, <1>3, <1>5 DEF FramesLeft
<1>10. UnloadedIdle'  BY <1>2, <1>3 DEF UnloadedIdle
<1>11. NoTruncation'  BY <1>1, <1>3 DEF NoTruncation, Room
<1>12. Reserve'  BY <1>2, <1>3, <1>4, <1>6, ReserveKept
<1>. QED  BY <1>8, <1>9, <1>10, <1>11, <1>12 DEF IInv

\* Loading gives an empty fifo; unloading asks nothing of it.
LEMMA LoadStep ==
    ASSUME IInv, kfifo_squint_init \/ kfifo_squint_exit
    PROVE  IInv'
<1>1. TypeOK /\ FramesLeft /\ UnloadedIdle /\ NoTruncation  BY DEF IInv
<1>. USE DEF kfifo_squint_init, kfifo_squint_exit
<1>2. UNCHANGED <<wpc, frames, rpc, interrupts, truncated>>  OBVIOUS
<1>3. avail' \in 0..KFIFO_LEN /\ avail' \in Nat  BY <1>1, SizesAssumption DEF TypeOK
<1>4. TypeOK'
  <2>1. loaded' \in BOOLEAN /\ asleep' \in {0, 1}  BY <1>1, Zenon DEF TypeOK
  <2>. QED  BY <2>1, <1>1, <1>2, <1>3 DEF TypeOK
<1>5. FramesLeft'  BY <1>1, <1>2 DEF FramesLeft
<1>6. UnloadedIdle'  BY <1>1, <1>2 DEF UnloadedIdle
<1>7. NoTruncation'  BY <1>1, <1>2 DEF NoTruncation, Room
<1>8. Reserve'
  <2>1. CASE ~loaded'  BY <2>1 DEF Reserve
  <2>2. CASE loaded'
    <3>1. avail' = KFIFO_LEN  BY <2>2, Zenon
    <3>2. avail' >= KFIFO_THRESHOLD_LEN  BY <3>1, SizesAssumption
    <3>3. Pending' = Pending  BY <1>2 DEF Pending
    <3>4. Cardinality(Pending') \in Nat /\ interrupts' \in Nat
      BY <3>3, <1>1, <1>2, PendingFinite DEF TypeOK
    <3>. QED  BY <3>2, <3>4, <1>3, ReserveWhole
  <2>. QED  BY <2>1, <2>2
<1>. QED  BY <1>4, <1>5, <1>6, <1>7, <1>8 DEF IInv

\* The invariant is inductive: it holds in every reachable state.
THEOREM Invariant == Spec => []IInv
<1>1. IInv /\ [Next]_vars => IInv'
  <2>. SUFFICES ASSUME IInv, [Next]_vars PROVE IInv'  OBVIOUS
  <2>1. CASE kfifo_squint_init \/ kfifo_squint_exit  BY <2>1, LoadStep
  <2>2. CASE Reader  BY <2>2, ReaderStep
  <2>3. ASSUME NEW w \in Writers, write_trace(w) \/ print_frame(w) PROVE IInv'
    BY <2>3, PutStep
  <2>4. ASSUME NEW w \in Writers, check_avail(w) \/ set_asleep(w) \/ wait_event(w)
        PROVE  IInv'
    BY <2>4, ThrottleStep
  <2>5. ASSUME NEW w \in Writers, signal(w) PROVE IInv'  BY <2>5, SignalStep
  <2>6. CASE UNCHANGED vars
    BY <2>6 DEF vars, IInv, TypeOK, FramesLeft, UnloadedIdle, Reserve, NoTruncation,
                Pending, Room
  <2>. QED
    BY <2>1, <2>2, <2>3, <2>4, <2>5, <2>6 DEF Next, squint_fifo_write
<1>. QED  BY <1>1, InitIInv, PTL DEF Spec

\* The fifo, the flag, the wait queue and the reader keep their types.
THEOREM TypeCorrect == Spec => []TypeOK
<1>1. IInv => TypeOK  BY DEF IInv
<1>. QED  BY <1>1, Invariant, PTL

\* squint_fifo_write never lets the fifo fall further below the threshold than
\* one record for every pending writer and every interrupted wait.
THEOREM ReserveHolds == Spec => []Reserve
<1>1. IInv => Reserve  BY DEF IInv
<1>. QED  BY <1>1, Invariant, PTL

\* With a threshold of one record per writer and interrupted wait, no record is
\* cut by kfifo_in.  (The module's 500 bytes are enough for two writers.)
THEOREM NoRecordTruncated == Spec => []NoTruncation
<1>1. IInv => NoTruncation  BY DEF IInv
<1>. QED  BY <1>1, Invariant, PTL
=============================================================================
