------------------------ MODULE BufferedSerial_proof ------------------------
(***************************************************************************)
(* BufferedSerial implements Fifo, for every size of the ring, every set   *)
(* of bytes and every length of string.                                    *)
(***************************************************************************)
EXTENDS BufferedSerial, TLAPS

-----------------------------------------------------------------------------
(* Ring arithmetic.  Indices are reduced modulo M, one less than the size. *)

M == Size - 1

LEMMA Modulus == M \in Nat /\ M >= 2
BY BufferAssumption DEF M

LEMMA WrappedIs ==
  ASSUME NEW x \in -M .. 2 * M - 1
  PROVE  /\ x < 0 => Wrapped(x) = x + M
         /\ 0 <= x /\ x < M => Wrapped(x) = x
         /\ M <= x => Wrapped(x) = x - M
<1>. M \in Nat /\ M >= 2
  BY Modulus
<1>1. ASSUME NEW n \in Nat \ {0}, NEW y \in 0 .. n - 1 PROVE y % n = y
  OBVIOUS
<1>2. ASSUME NEW n \in Nat \ {0}, NEW y \in n .. 2 * n - 1 PROVE y % n = y - n
  OBVIOUS
<1>3. ASSUME NEW n \in Nat \ {0}, NEW y \in -n .. -1 PROVE y % n = y + n
  OBVIOUS
<1>4. Wrapped(x) = x % M
  BY DEF Wrapped, M
<1>5. x < 0 => Wrapped(x) = x + M
  <2>. SUFFICES ASSUME x < 0 PROVE x % M = x + M
    BY <1>4
  <2>1. M \in Nat \ {0} /\ x \in -M .. -1
    OBVIOUS
  <2>. QED
    BY <1>3, <2>1
<1>6. 0 <= x /\ x < M => Wrapped(x) = x
  BY <1>1, <1>4
<1>7. M <= x => Wrapped(x) = x - M
  BY <1>2, <1>4
<1>. QED
  BY <1>5, <1>6, <1>7

\* The n bytes from index r.
Contents(buf, r, n) == [i \in 1 .. n |-> buf[Wrapped(r + i - 1)]]

Rings == [0 .. Size - 1 -> Bytes]

\* How many bytes there are from r to w.
LEMMA Distance ==
  ASSUME NEW w \in 0 .. M, NEW r \in 0 .. M
  PROVE  /\ Wrapped(w - r) \in 0 .. M - 1
         /\ Wrapped(Wrapped(w) - r) = Wrapped(w - r)
         /\ Wrapped(w - Wrapped(r)) = Wrapped(w - r)
         /\ Wrapped(w - r) = 0 <=> Wrapped(w) = Wrapped(r)
BY Modulus, WrappedIs

LEMMA ContentsType ==
  ASSUME NEW buf \in Rings, NEW r \in 0 .. M, NEW n \in 0 .. M - 1
  PROVE  Contents(buf, r, n) \in Seq(Bytes) /\ Len(Contents(buf, r, n)) = n
<1>. M \in Nat /\ M >= 2 /\ Size = M + 1
  BY Modulus, BufferAssumption DEF M
<1>1. \A i \in 1 .. n : Wrapped(r + i - 1) \in 0 .. M - 1
  BY WrappedIs
<1>2. \A i \in 1 .. n : buf[Wrapped(r + i - 1)] \in Bytes
  BY <1>1 DEF Rings
<1>. QED
  BY <1>2 DEF Contents

\* One more byte, at w.
LEMMA ContentsAppend ==
  ASSUME NEW buf \in Rings, NEW w \in 0 .. M - 1, NEW r \in 0 .. M, NEW b \in Bytes,
         Wrapped(w - r) < M - 1
  PROVE  /\ Wrapped(w + 1 - r) = Wrapped(w - r) + 1
         /\ Contents([buf EXCEPT ![w] = b], r, Wrapped(w - r) + 1)
              = Append(Contents(buf, r, Wrapped(w - r)), b)
<1>. M \in Nat /\ M >= 2 /\ Size = M + 1
  BY Modulus, BufferAssumption DEF M
<1>. DEFINE n == Wrapped(w - r)
            c == Contents(buf, r, n)
            d == Contents([buf EXCEPT ![w] = b], r, n + 1)
<1>1. n \in 0 .. M - 1 /\ n < M - 1 /\ n + 1 \in 0 .. M - 1
  <2>1. w \in 0 .. M
    OBVIOUS
  <2>2. Wrapped(w - r) \in 0 .. M - 1
    BY <2>1, Distance
  <2>. QED
    BY <2>2
<1>2. Wrapped(w + 1 - r) = n + 1
  BY <1>1, WrappedIs
<1>3. c \in Seq(Bytes) /\ Len(c) = n
  BY <1>1, ContentsType
<1>4. [buf EXCEPT ![w] = b] \in Rings
  BY DEF Rings
<1>5. d \in Seq(Bytes) /\ Len(d) = n + 1
  BY <1>1, <1>4, ContentsType
<1>6. Wrapped(r + (n + 1) - 1) = w
  BY <1>1, WrappedIs
<1>7. \A i \in 1 .. n : Wrapped(r + i - 1) \in (0 .. M - 1) \ {w}
  BY <1>1, WrappedIs
<1>8. \A i \in 1 .. n : d[i] = c[i]
  BY <1>1, <1>7 DEF Contents, Rings
<1>9. d[n + 1] = b
  BY <1>1, <1>6 DEF Contents, Rings
<1>10. d = Append(c, b)
  <2>. HIDE DEF c, d
  <2>1. Append(c, b) \in Seq(Bytes) /\ Len(Append(c, b)) = n + 1
    BY <1>3
  <2>2. \A i \in 1 .. n + 1 : Append(c, b)[i] = d[i]
    BY <1>1, <1>3, <1>8, <1>9
  <2>. QED
    BY <1>5, <2>1, <2>2
<1>. QED
  BY <1>2, <1>10

\* One byte less, from r.
LEMMA ContentsTail ==
  ASSUME NEW buf \in Rings, NEW r \in 0 .. M - 1, NEW n \in 1 .. M - 1
  PROVE  /\ Contents(buf, r, n) # <<>>
         /\ Head(Contents(buf, r, n)) = buf[r]
         /\ Contents(buf, r + 1, n - 1) = Tail(Contents(buf, r, n))
<1>. M \in Nat /\ M >= 2 /\ Size = M + 1
  BY Modulus, BufferAssumption DEF M
<1>. DEFINE c == Contents(buf, r, n)
            d == Contents(buf, r + 1, n - 1)
<1>1. c \in Seq(Bytes) /\ Len(c) = n
  BY ContentsType
<1>2. d \in Seq(Bytes) /\ Len(d) = n - 1
  BY ContentsType
<1>3. Wrapped(r + 1 - 1) = r
  BY WrappedIs
<1>4. c[1] = buf[r]
  BY <1>3 DEF Contents
<1>5. \A i \in 1 .. n - 1 : d[i] = c[i + 1]
  <2>. SUFFICES ASSUME NEW i \in 1 .. n - 1 PROVE d[i] = c[i + 1]
    OBVIOUS
  <2>1. r + 1 + i - 1 = r + (i + 1) - 1
    OBVIOUS
  <2>. QED
    BY <2>1 DEF Contents
<1>. QED
  BY <1>1, <1>2, <1>4, <1>5

\* An index that is not reduced yet.
LEMMA ContentsWrapped ==
  ASSUME NEW buf \in Rings, NEW r \in 0 .. M, NEW n \in 0 .. M - 1
  PROVE  Contents(buf, Wrapped(r), n) = Contents(buf, r, n)
<1>. M \in Nat /\ M >= 2
  BY Modulus
<1>1. Wrapped(r) \in 0 .. M - 1
  BY WrappedIs
<1>2. \A i \in 1 .. n : Wrapped(Wrapped(r) + i - 1) = Wrapped(r + i - 1)
  BY <1>1, WrappedIs
<1>. QED
  BY <1>2 DEF Contents

\* The byte that would fill the ring empties it.
LEMMA Lapped ==
  ASSUME NEW w \in 0 .. M - 1, NEW r \in 0 .. M
  PROVE  Wrapped(w - r) = M - 1 <=> Wrapped(w + 1 - r) = 0
BY Modulus, WrappedIs

\* The distances that the two actions on the ring change by one.
LEMMA Moves ==
  ASSUME NEW w \in 0 .. M, NEW r \in 0 .. M - 1
  PROVE  /\ Wrapped(w - r) > 0 => Wrapped(w - (r + 1)) = Wrapped(w - r) - 1
         /\ w # r /\ w < M => Wrapped(w - r) > 0
         /\ w > 0 => (Wrapped(w) = r <=> Wrapped(w - 1 - r) = M - 1)
         /\ w > 0 => (Wrapped(w) = Wrapped(r + 1) <=> Wrapped(w - 1 - r) = 0)
         /\ Wrapped(w) = r <=> Wrapped(w - r) = 0
BY Modulus, WrappedIs

-----------------------------------------------------------------------------
(* Where the thread is, and what the handler may do meanwhile.             *)

Thread ==
  /\ pc \in {"put", "data", "wrap", "prime", "fill", "take", "attach"} => dir = "tx"
  /\ pc \in {"get", "get_wrap"} => dir = "rx"
  /\ pc \in {"put", "data", "wrap"} => rest # <<>>
  /\ pc \in {"data", "wrap"} => _wloc # 0

\* Receiving, nothing is sent; filling, prime() has the port to itself.
Handler ==
  /\ dir = "rx" => ~txie /\ ~irq /\ (out # None => pc = "get_wrap")
  /\ pc \in {"fill", "take", "attach"} => ~txie /\ ~irq
  /\ pc = "take" => available

IInv == TypeOK /\ Thread /\ Handler

LEMMA InitInv == ASSUME Init PROVE IInv
<1>1. Size \in Nat /\ Size > 2 /\ 0 \in Bytes /\ Longest \in Nat
  BY BufferAssumption
<1>2. Thread /\ Handler
  BY DEF Init, Thread, Handler
<1>3. _buf \in [0 .. Size - 1 -> Bytes] /\ _buf[Size - 1] = 0
  BY <1>1 DEF Init
<1>4. rest \in Seq(Bytes) /\ Len(rest) <= Longest
  BY <1>1 DEF Init
<1>5. /\ dir \in {"tx", "rx"} /\ pc = "idle" /\ out = None
      /\ txie \in BOOLEAN /\ irq \in BOOLEAN /\ _wloc = 0 /\ _rloc = 0
  BY DEF Init
<1>6. TypeOK
  BY <1>1, <1>3, <1>4, <1>5 DEF TypeOK
<1>. QED
  BY <1>2, <1>6 DEF IInv

\* A byte stored in the ring: never in its last element.
LEMMA PutTypes ==
  ASSUME TypeOK, NEW b \in Bytes, NEW w \in 0 .. Size - 2
  PROVE  [_buf EXCEPT ![w] = b] \in Rings /\ [_buf EXCEPT ![w] = b][Size - 1] = 0
<1>1. w \in 0 .. Size - 1 /\ w # Size - 1 /\ Size - 1 \in 0 .. Size - 1
  BY BufferAssumption
<1>. QED
  BY <1>1 DEF TypeOK, Rings

LEMMA Reduced ==
  ASSUME NEW x \in 0 .. M
  PROVE  Wrapped(x) \in 0 .. M - 1
BY Modulus, WrappedIs

LEMMA StringType ==
  ASSUME NEW s \in Strings
  PROVE  s \in Seq(Bytes) /\ s # <<>> /\ Len(s) <= Longest
<1>1. PICK n \in 1 .. Longest : s \in [1 .. n -> Bytes]
  BY DEF Strings
<1>2. n \in Nat /\ n <= Longest /\ n > 0
  BY BufferAssumption
<1>. QED
  BY <1>1, <1>2

LEMMA RestType ==
  ASSUME TypeOK, rest # <<>>
  PROVE  /\ Head(rest) \in Bytes
         /\ Tail(rest) \in Seq(Bytes) /\ Len(Tail(rest)) <= Longest
         /\ Len(rest) > 1 => Tail(rest) # <<>>
BY BufferAssumption DEF TypeOK

LEMMA NextInv ==
  ASSUME IInv, [Next]_vars
  PROVE  IInv'
<1>. USE DEF IInv
<1>. M \in Nat /\ M >= 2 /\ Size = M + 1 /\ None \notin Bytes /\ 0 \in Bytes
  BY Modulus, BufferAssumption DEF M
<1>1. ASSUME NEW s \in Strings, Call(s) PROVE IInv'
  BY <1>1, StringType DEF Call, Goes, ring, TypeOK, Thread, Handler, available
<1>2. CASE PutStores
  <2>1. rest # <<>> /\ _wloc \in 0 .. M - 1
    BY <1>2 DEF PutStores, Goes, TypeOK, Thread
  <2>2. _buf' \in Rings /\ _buf'[Size - 1] = 0
    <3>1. Head(rest) \in Bytes /\ _wloc \in 0 .. Size - 2
      BY <2>1, RestType
    <3>2. _buf' = [_buf EXCEPT ![_wloc] = Head(rest)]
      BY <1>2 DEF PutStores
    <3>. QED
      BY <3>1, <3>2, PutTypes
  <2>. QED
    BY <1>2, <2>1, <2>2 DEF PutStores, Goes, TypeOK, Thread, Handler, Rings
<1>3. CASE PutCounts
  <2>1. rest # <<>> /\ _wloc \in 0 .. M - 1
    BY <1>3 DEF PutCounts, Goes, TypeOK, Thread
  <2>. QED
    BY <1>3, <2>1 DEF PutCounts, Goes, TypeOK, Thread, Handler
<1>4. CASE PutData
  <2>1. rest # <<>> /\ _wloc - 1 \in 0 .. M - 1
    BY <1>4 DEF PutData, Goes, TypeOK, Thread
  <2>2. _buf' \in Rings /\ _buf'[Size - 1] = 0
    <3>1. Head(rest) \in Bytes /\ _wloc - 1 \in 0 .. Size - 2
      BY <2>1, RestType
    <3>2. _buf' = [_buf EXCEPT ![_wloc - 1] = Head(rest)]
      BY <1>4 DEF PutData
    <3>. QED
      BY <3>1, <3>2, PutTypes
  <2>. QED
    BY <1>4, <2>1, <2>2 DEF PutData, Goes, TypeOK, Thread, Handler, Rings
<1>5. CASE PutWraps
  <2>1. rest # <<>> /\ Wrapped(_wloc) \in 0 .. M - 1
    BY <1>5, Reduced DEF PutWraps, Goes, TypeOK, Thread
  <2>2. rest' \in Seq(Bytes) /\ Len(rest') <= Longest /\ (Len(rest) > 1 => rest' # <<>>)
    BY <1>5, <2>1, RestType DEF PutWraps
  <2>. QED
    BY <1>5, <2>1, <2>2 DEF PutWraps, Goes, TypeOK, Thread, Handler
<1>6. CASE PrimeBusy \/ PrimeDetaches \/ PrimeLooks \/ PrimeFilled \/ PrimeAttaches
  <2>. USE DEF Goes, Writable, ring, TypeOK, Thread, Handler, available
  <2>1. CASE PrimeBusy
    BY <2>1 DEF PrimeBusy
  <2>2. CASE PrimeDetaches
    BY <2>2 DEF PrimeDetaches
  <2>3. CASE PrimeLooks
    BY <2>3 DEF PrimeLooks
  <2>4. CASE PrimeFilled
    BY <2>4 DEF PrimeFilled
  <2>5. CASE PrimeAttaches
    BY <2>5 DEF PrimeAttaches
  <2>. QED
    BY <1>6, <2>1, <2>2, <2>3, <2>4, <2>5
<1>7. ASSUME Get, _rloc \in 0 .. M - 1
      PROVE  out' \in Bytes /\ _rloc' \in 0 .. M - 1 /\ UNCHANGED <<dir, _buf, _wloc>>
  BY <1>7, Reduced DEF Get, TypeOK
<1>8. CASE PrimeTakes
  <2>1. _rloc \in 0 .. M - 1
    BY <1>8 DEF PrimeTakes, Goes, TypeOK
  <2>. QED
    BY <1>7, <1>8, <2>1 DEF PrimeTakes, Goes, TypeOK, Thread, Handler
<1>9. CASE IrqTakes
  <2>1. _rloc \in 0 .. M - 1 /\ dir = "tx" /\ pc \notin {"fill", "take", "attach"}
    BY <1>9 DEF IrqTakes, TypeOK, Thread, Handler
  <2>. QED
    BY <1>7, <1>9, <2>1 DEF IrqTakes, TypeOK, Thread, Handler
<1>10. CASE Interrupt \/ IrqDrained \/ IrqReturns
  BY <1>10 DEF Interrupt, IrqDrained, IrqReturns, Writable, ring, TypeOK, Thread, Handler,
               available
<1>11. CASE Shifts
  BY <1>11 DEF Shifts, ring, TypeOK, Thread, Handler, available
<1>12. ASSUME NEW b \in Bytes, rxIrq(b) PROVE IInv'
  <2>1. dir = "rx" /\ _wloc \in 0 .. M - 1 /\ pc \notin {"data", "wrap", "take"}
    BY <1>12 DEF rxIrq, TypeOK, Thread
  <2>2. _buf' \in Rings /\ _buf'[Size - 1] = 0
    <3>1. _wloc \in 0 .. Size - 2 /\ _buf' = [_buf EXCEPT ![_wloc] = b]
      BY <1>12, <2>1 DEF rxIrq
    <3>. QED
      BY <3>1, PutTypes
  <2>3. _wloc' \in 0 .. M - 1
    BY <1>12, <2>1, Reduced DEF rxIrq
  <2>. QED
    BY <1>12, <2>1, <2>2, <2>3 DEF rxIrq, TypeOK, Thread, Handler, Rings
<1>13. CASE Readable
  BY <1>13 DEF Readable, Goes, ring, TypeOK, Thread, Handler
<1>14. CASE GetCounts
  <2>1. _rloc \in 0 .. M - 1
    BY <1>14 DEF GetCounts, Goes, TypeOK
  <2>. QED
    BY <1>14, <2>1 DEF GetCounts, Goes, TypeOK, Thread, Handler
<1>15. CASE GetWraps
  <2>1. Wrapped(_rloc) \in 0 .. M - 1
    BY Reduced DEF TypeOK
  <2>. QED
    BY <1>15, <2>1 DEF GetWraps, Goes, TypeOK, Thread, Handler
<1>16. CASE UNCHANGED vars
  BY <1>16 DEF vars, ring, TypeOK, Thread, Handler, available
<1>. QED
  BY <1>1, <1>2, <1>3, <1>4, <1>5, <1>6, <1>8, <1>9, <1>10, <1>11, <1>12, <1>13, <1>14,
     <1>15, <1>16 DEF Next, write, prime, txIrq, getc

\* The invariant holds in every reachable state: where the thread is, what the
\* handler may do there, and the range of the two indices.
THEOREM Inductive == Spec => []IInv
<1>1. Init => IInv
  BY InitInv
<1>2. IInv /\ [Next]_vars => IInv'
  BY NextInv
<1>. QED
  BY <1>1, <1>2, PTL DEF Spec

\* No index leaves the ring, whatever its size, and the last element stays unused.
THEOREM RingTypes == Spec => []TypeOK
<1>1. IInv => TypeOK
  BY DEF IInv
<1>. QED
  BY Inductive, <1>1, PTL

-----------------------------------------------------------------------------
(* The queue.                                                              *)

LEMMA StoredIs ==
  ASSUME IInv
  PROVE  /\ _buf \in Rings /\ _wloc \in 0 .. M /\ _rloc \in 0 .. M
         /\ Filled \in 0 .. M - 1
         /\ Stored = Contents(_buf, _rloc, Filled)
         /\ Stored \in Seq(Bytes) /\ Len(Stored) = Filled
<1>. M \in Nat /\ M >= 2 /\ Size = M + 1
  BY Modulus, BufferAssumption DEF M
<1>1. _buf \in Rings /\ _wloc \in 0 .. M /\ _rloc \in 0 .. M
  BY DEF IInv, TypeOK, Rings
<1>2. Wrapped(_wloc - _rloc) \in 0 .. M - 1
  BY <1>1, Distance
<1>3. pc = "data" => Wrapped(_wloc - 1 - _rloc) \in 0 .. M - 1
  <2>. SUFFICES ASSUME pc = "data" PROVE Wrapped(_wloc - 1 - _rloc) \in 0 .. M - 1
    OBVIOUS
  <2>1. _wloc - 1 \in 0 .. M
    BY <1>1 DEF IInv, Thread
  <2>. QED
    BY <1>1, <2>1, Distance
<1>4. Filled \in 0 .. M - 1
  BY <1>2, <1>3 DEF Filled
<1>5. Stored = Contents(_buf, _rloc, Filled)
  BY DEF Stored, Contents
<1>. QED
  BY <1>1, <1>4, <1>5, ContentsType

LEMMA Empty == ASSUME NEW buf, NEW r PROVE Contents(buf, r, 0) = <<>>
BY DEF Contents

\* A byte stored at w and counted, in a ring that has one free element or not.
LEMMA PutIs ==
  ASSUME NEW buf \in Rings, NEW w \in 0 .. M - 1, NEW r \in 0 .. M, NEW b \in Bytes
  PROVE  Contents([buf EXCEPT ![w] = b], r, Wrapped(w + 1 - r))
           = IF Len(Contents(buf, r, Wrapped(w - r))) < Size - 2
             THEN Append(Contents(buf, r, Wrapped(w - r)), b) ELSE <<>>
<1>. M \in Nat /\ M >= 2 /\ Size = M + 1
  BY Modulus, BufferAssumption DEF M
<1>1. Wrapped(w - r) \in 0 .. M - 1
  <2>1. w \in 0 .. M
    OBVIOUS
  <2>. QED
    BY <2>1, Distance
<1>2. Len(Contents(buf, r, Wrapped(w - r))) = Wrapped(w - r)
  BY <1>1, ContentsType
<1>3. CASE Wrapped(w - r) < M - 1
  <2>1. /\ Wrapped(w + 1 - r) = Wrapped(w - r) + 1
        /\ Contents([buf EXCEPT ![w] = b], r, Wrapped(w - r) + 1)
             = Append(Contents(buf, r, Wrapped(w - r)), b)
    BY <1>3, ContentsAppend
  <2>2. Len(Contents(buf, r, Wrapped(w - r))) < Size - 2
    BY <1>1, <1>2, <1>3
  <2>. QED
    BY <2>1, <2>2, Zenon
<1>4. CASE Wrapped(w - r) = M - 1
  <2>1. Wrapped(w + 1 - r) = 0
    BY <1>4, Lapped
  <2>. QED
    BY <1>2, <1>4, <2>1, Empty
<1>5. Wrapped(w - r) < M - 1 \/ Wrapped(w - r) = M - 1
  BY <1>1
<1>. QED
  BY <1>3, <1>4, <1>5

LEMMA PutStoresQueue ==
  ASSUME IInv, IInv', PutStores
  PROVE  Queue!Put(Head(rest)) /\ Head(rest) \in Bytes
<1>1. /\ pc = "put" /\ pc' = "wrap" /\ rest # <<>>
      /\ _buf' = [_buf EXCEPT ![_wloc] = Head(rest)] /\ _wloc' = _wloc + 1
      /\ UNCHANGED <<_rloc, out>>
  BY DEF PutStores, Goes, IInv, Thread
<1>2. Head(rest) \in Bytes
  BY <1>1, RestType DEF IInv
<1>3. _buf \in Rings /\ _wloc \in 0 .. M - 1 /\ _rloc \in 0 .. M
  BY <1>1, StoredIs, BufferAssumption DEF IInv, TypeOK, M
<1>4. Filled = Wrapped(_wloc - _rloc) /\ Filled' = Wrapped(_wloc + 1 - _rloc)
  <2>1. Filled = Wrapped(_wloc - _rloc) /\ Filled' = Wrapped(_wloc' - _rloc')
    BY <1>1 DEF Filled
  <2>. QED
    BY <1>1, <1>3, <2>1, Modulus
<1>5. Stored = Contents(_buf, _rloc, Filled) /\ Stored' = Contents(_buf', _rloc', Filled')
  BY DEF Stored, Contents
<1>6. Stored' = IF Len(Stored) < Size - 2 THEN Append(Stored, Head(rest)) ELSE <<>>
  BY <1>1, <1>2, <1>3, <1>4, <1>5, PutIs
<1>. QED
  BY <1>1, <1>2, <1>6 DEF Queue!Put

LEMMA RxQueue ==
  ASSUME IInv, IInv', NEW b \in Bytes, rxIrq(b)
  PROVE  Queue!Put(b)
<1>1. /\ dir = "rx" /\ pc' = pc /\ pc \notin {"data", "wrap"}
      /\ _buf' = [_buf EXCEPT ![_wloc] = b] /\ _wloc' = Wrapped(_wloc + 1)
      /\ UNCHANGED <<_rloc, out>>
  BY DEF rxIrq, IInv, Thread
<1>2. _buf \in Rings /\ _wloc \in 0 .. M - 1 /\ _rloc \in 0 .. M
  BY <1>1, StoredIs, BufferAssumption DEF IInv, TypeOK, M
<1>3. Wrapped(Wrapped(_wloc + 1) - _rloc) = Wrapped(_wloc + 1 - _rloc)
  <2>1. _wloc + 1 \in 0 .. M
    BY <1>2, Modulus
  <2>. QED
    BY <1>2, <2>1, Distance
<1>4. Filled = Wrapped(_wloc - _rloc) /\ Filled' = Wrapped(_wloc + 1 - _rloc)
  BY <1>1, <1>3 DEF Filled
<1>5. Stored = Contents(_buf, _rloc, Filled) /\ Stored' = Contents(_buf', _rloc', Filled')
  BY DEF Stored, Contents
<1>6. Stored' = IF Len(Stored) < Size - 2 THEN Append(Stored, b) ELSE <<>>
  BY <1>1, <1>2, <1>4, <1>5, PutIs
<1>. QED
  BY <1>1, <1>6 DEF Queue!Put

\* A byte that is counted first is put when it is stored, or empties the ring at once.
LEMMA PutCountsQueue ==
  ASSUME IInv, IInv', PutCounts
  PROVE  UNCHANGED <<Stored, out>> \/ \E b \in Bytes : Queue!Put(b)
<1>. M \in Nat /\ M >= 2 /\ Size = M + 1 /\ 0 \in Bytes
  BY Modulus, BufferAssumption DEF M
<1>1. /\ pc = "put" /\ pc' = "data" /\ _wloc' = _wloc + 1
      /\ UNCHANGED <<_buf, _rloc, out>>
  BY DEF PutCounts, Goes
<1>2. _buf \in Rings /\ _wloc \in 0 .. M - 1 /\ _rloc \in 0 .. M - 1
  BY <1>1, StoredIs DEF IInv, TypeOK
<1>3. Filled = Wrapped(_wloc - _rloc)
  BY <1>1 DEF Filled
<1>4. Stored = Contents(_buf, _rloc, Filled) /\ Stored' = Contents(_buf, _rloc, Filled')
  BY <1>1 DEF Stored, Contents
<1>5. CASE Wrapped(_wloc + 1) # _rloc
  <2>1. Filled' = Wrapped(_wloc + 1 - 1 - _rloc)
    <3>1. Wrapped(_wloc') # _rloc'
      BY <1>1, <1>5
    <3>2. Filled' = Wrapped(_wloc' - 1 - _rloc')
      BY <1>1, <3>1 DEF Filled
    <3>. QED
      BY <1>1, <1>2, <3>2
  <2>2. _wloc + 1 - 1 - _rloc = _wloc - _rloc
    BY <1>2
  <2>. QED
    BY <1>1, <1>3, <1>4, <2>1, <2>2
<1>6. CASE Wrapped(_wloc + 1) = _rloc
  <2>1. Filled' = Wrapped(_wloc + 1 - _rloc)
    <3>1. Wrapped(_wloc') = _rloc'
      BY <1>1, <1>6
    <3>2. Filled' = Wrapped(_wloc' - _rloc')
      BY <1>1, <3>1 DEF Filled
    <3>. QED
      BY <1>1, <1>2, <3>2
  <2>2. _wloc + 1 \in 0 .. M /\ _wloc + 1 - 1 - _rloc = _wloc - _rloc
    BY <1>2
  <2>3. Filled' = 0 /\ Filled = M - 1
    BY <1>2, <1>3, <1>6, <2>1, <2>2, Moves
  <2>4. Stored' = <<>> /\ Len(Stored) = Size - 2
    BY <1>4, <2>3, Empty, StoredIs
  <2>5. Queue!Put(0)
    BY <1>1, <2>4 DEF Queue!Put
  <2>. QED
    BY <2>5
<1>. QED
  BY <1>5, <1>6

LEMMA PutDataQueue ==
  ASSUME IInv, IInv', PutData
  PROVE  UNCHANGED <<Stored, out>> \/ \E b \in Bytes : Queue!Put(b)
<1>. M \in Nat /\ M >= 2 /\ Size = M + 1
  BY Modulus, BufferAssumption DEF M
<1>1. /\ pc = "data" /\ pc' = "wrap" /\ rest # <<>>
      /\ _buf' = [_buf EXCEPT ![_wloc - 1] = Head(rest)]
      /\ UNCHANGED <<_wloc, _rloc, out>>
  BY DEF PutData, Goes, IInv, Thread
<1>2. _buf \in Rings /\ _wloc \in 1 .. M /\ _rloc \in 0 .. M - 1
  BY <1>1, StoredIs DEF IInv, TypeOK, Thread
<1>3. Head(rest) \in Bytes
  BY <1>1, RestType DEF IInv
<1>4. Filled' = Wrapped(_wloc - _rloc)
  BY <1>1 DEF Filled
<1>5. Stored = Contents(_buf, _rloc, Filled) /\ Stored' = Contents(_buf', _rloc, Filled')
  BY <1>1 DEF Stored, Contents
<1>6. CASE Wrapped(_wloc) # _rloc
  <2>1. Filled = Wrapped(_wloc - 1 - _rloc)
    BY <1>1, <1>6 DEF Filled
  <2>2. _wloc - 1 \in 0 .. M - 1 /\ (_wloc - 1) + 1 - _rloc = _wloc - _rloc
    BY <1>2
  <2>3. Stored' = IF Len(Stored) < Size - 2 THEN Append(Stored, Head(rest)) ELSE <<>>
    <3>1. Contents([_buf EXCEPT ![_wloc - 1] = Head(rest)], _rloc, Wrapped((_wloc - 1) + 1 - _rloc))
            = IF Len(Contents(_buf, _rloc, Wrapped((_wloc - 1) - _rloc))) < Size - 2
              THEN Append(Contents(_buf, _rloc, Wrapped((_wloc - 1) - _rloc)), Head(rest))
              ELSE <<>>
      BY <1>2, <1>3, <2>2, PutIs
    <3>. QED
      BY <1>1, <1>4, <1>5, <2>1, <2>2, <3>1
  <2>4. Queue!Put(Head(rest))
    BY <1>1, <2>3 DEF Queue!Put
  <2>. QED
    BY <1>3, <2>4
<1>7. CASE Wrapped(_wloc) = _rloc
  <2>1. Filled = Wrapped(_wloc - _rloc)
    BY <1>7 DEF Filled
  <2>2. Filled = 0 /\ Filled' = 0
    BY <1>2, <1>4, <1>7, <2>1, Moves
  <2>3. Stored = <<>> /\ Stored' = <<>>
    BY <1>5, <2>2, Empty
  <2>. QED
    BY <1>1, <2>3
<1>. QED
  BY <1>6, <1>7

LEMMA PutWrapsQueue ==
  ASSUME IInv, IInv', PutWraps
  PROVE  UNCHANGED <<Stored, out>>
<1>1. /\ pc = "wrap" /\ pc' \in {"put", "prime"} /\ _wloc' = Wrapped(_wloc)
      /\ UNCHANGED <<_buf, _rloc, out>>
  BY DEF PutWraps, Goes
<1>2. _wloc \in 0 .. M /\ _rloc \in 0 .. M
  BY StoredIs
<1>3. Filled = Wrapped(_wloc - _rloc) /\ Filled' = Wrapped(Wrapped(_wloc) - _rloc)
  <2>1. Filled = Wrapped(_wloc - _rloc) /\ Filled' = Wrapped(_wloc' - _rloc')
    BY <1>1 DEF Filled
  <2>. QED
    BY <1>1, <2>1
<1>4. Filled' = Filled
  BY <1>2, <1>3, Distance
<1>5. Stored = Contents(_buf, _rloc, Filled) /\ Stored' = Contents(_buf, _rloc, Filled')
  BY <1>1 DEF Stored, Contents
<1>. QED
  BY <1>1, <1>4, <1>5

\* The thread's calls and the handler's decisions leave the queue alone.
LEMMA OthersQueue ==
  ASSUME UNCHANGED <<ring, out>>, pc # "data", pc' # "data"
  PROVE  UNCHANGED <<Stored, out>>
<1>1. UNCHANGED <<_buf, _wloc, _rloc, out>>
  BY DEF ring
<1>2. Filled' = Filled
  BY <1>1 DEF Filled
<1>. QED
  BY <1>1, <1>2 DEF Stored

LEMMA SameQueue ==
  ASSUME UNCHANGED <<ring, pc>>
  PROVE  Stored' = Stored
<1>1. UNCHANGED <<_buf, _wloc, _rloc>>
  BY DEF ring
<1>2. Filled' = Filled
  BY <1>1 DEF Filled
<1>. QED
  BY <1>1, <1>2 DEF Stored

\* What get() does to the queue, by either index that it leaves.
LEMMA TakeIs ==
  ASSUME IInv, NEW n \in Nat, NEW s, _rloc \in 0 .. M - 1, out = None, Filled > 0,
         n = Filled - 1, s = Contents(_buf, _rloc + 1, n), Stored' = s, out' = _buf[_rloc]
  PROVE  Queue!Take
<1>1. Filled \in 1 .. M - 1 /\ _buf \in Rings /\ Stored = Contents(_buf, _rloc, Filled)
  BY StoredIs, Modulus
<1>2. Stored # <<>> /\ Head(Stored) = _buf[_rloc] /\ s = Tail(Stored)
  BY <1>1, ContentsTail
<1>. QED
  BY <1>2 DEF Queue!Take

FilledFact == IInv => Filled \in 0 .. M - 1

LEMMA FilledBounded == FilledFact
BY StoredIs DEF FilledFact

LEMMA FilledNext == FilledFact'
BY FilledBounded, PTL

StoredFact == IInv => Stored \in Seq(Bytes) /\ Len(Stored) <= Size - 2

LEMMA StoredBounded == StoredFact
<1>. SUFFICES ASSUME IInv PROVE Stored \in Seq(Bytes) /\ Len(Stored) <= Size - 2
  BY DEF StoredFact
<1>1. Stored \in Seq(Bytes) /\ Len(Stored) \in 0 .. M - 1
  BY StoredIs
<1>2. M - 1 = Size - 2 /\ M \in Nat
  BY Modulus, BufferAssumption DEF M
<1>. QED
  BY <1>1, <1>2

LEMMA StoredNext == StoredFact'
BY StoredBounded, PTL

LEMMA ReplayIs ==
  ASSUME IInv, IInv', Filled = 0, out = None, out' \in Bytes, pc \in {"data", "wrap", "get"}
  PROVE  Queue!Replay
<1>1. Stored = <<>>
  BY StoredIs, Empty
<1>2. Stored' \in Seq(Bytes) /\ Len(Stored') <= Size - 2
  BY StoredNext DEF StoredFact
<1>. QED
  BY <1>1, <1>2 DEF Queue!Replay

\* get(), by the handler or prime(): the index is reduced at once.
LEMMA GetQueue ==
  ASSUME IInv, IInv', Get, out = None, _rloc \in 0 .. M - 1,
         available, pc = "data" <=> pc' = "data"
  PROVE  Queue!Take \/ Queue!Replay
<1>. M \in Nat /\ M >= 2 /\ Size = M + 1
  BY Modulus, BufferAssumption DEF M
<1>1. /\ out' = _buf[_rloc] /\ _rloc' = Wrapped(_rloc + 1) /\ UNCHANGED <<_buf, _wloc>>
  BY DEF Get
<1>2. _buf \in Rings /\ _wloc \in 0 .. M /\ _rloc \in 0 .. M - 1 /\ _rloc + 1 \in 0 .. M
      /\ Filled \in 0 .. M - 1
  BY StoredIs
<1>3. Stored' = Contents(_buf, _rloc + 1, Filled')
  <2>1. Stored' = Contents(_buf', _rloc', Filled')
    BY DEF Stored, Contents
  <2>2. Filled' \in 0 .. M - 1
    BY FilledNext DEF FilledFact
  <2>. QED
    BY <1>1, <1>2, <2>1, <2>2, ContentsWrapped
<1>4. CASE Filled > 0
  <2>1. Filled' = Filled - 1
    <3>1. CASE pc # "data"
      <4>1. Filled = Wrapped(_wloc - _rloc) /\ Filled' = Wrapped(_wloc' - _rloc')
        BY <3>1 DEF Filled
      <4>2. Filled' = Wrapped(_wloc - Wrapped(_rloc + 1))
        BY <1>1, <4>1
      <4>3. Filled' = Wrapped(_wloc - (_rloc + 1))
        BY <1>2, <4>2, Distance
      <4>. QED
        BY <1>2, <1>4, <4>1, <4>3, Moves
    <3>2. CASE pc = "data"
      <4>1. _wloc \in 1 .. M /\ _wloc - 1 \in 0 .. M
        BY <1>2, <3>2 DEF IInv, Thread
      <4>2. Wrapped(_wloc) # _rloc
        <5>1. Wrapped(_wloc) = _rloc => Filled = Wrapped(_wloc - _rloc)
          BY DEF Filled
        <5>. QED
          BY <1>2, <1>4, <5>1, Moves
      <4>3. Filled = Wrapped(_wloc - 1 - _rloc)
        BY <3>2, <4>2 DEF Filled
      <4>4. Wrapped(_wloc) # Wrapped(_rloc + 1)
        <5>1. Wrapped(_wloc) = Wrapped(_rloc + 1) <=> Wrapped(_wloc - 1 - _rloc) = 0
          BY <1>2, <4>1, Moves
        <5>2. Wrapped(_wloc - 1 - _rloc) # 0
          BY <1>4, <4>3
        <5>. QED
          BY <5>1, <5>2, Zenon
      <4>5. Filled' = Wrapped(_wloc - 1 - Wrapped(_rloc + 1))
        <5>1. pc' = "data" /\ Wrapped(_wloc') # _rloc'
          BY <1>1, <3>2, <4>4
        <5>2. Filled' = Wrapped(_wloc' - 1 - _rloc')
          BY <5>1 DEF Filled
        <5>. QED
          BY <1>1, <5>2
      <4>6. Filled' = Wrapped(_wloc - 1 - (_rloc + 1))
        BY <1>2, <4>1, <4>5, Distance
      <4>. QED
        BY <1>2, <1>4, <4>1, <4>3, <4>6, Moves
    <3>. QED
      BY <3>1, <3>2
  <2>2. Queue!Take
    BY <1>1, <1>2, <1>3, <1>4, <2>1, TakeIs
  <2>. QED
    BY <2>2
<1>5. CASE Filled = 0
  <2>1. pc \in {"data", "wrap"}
    <3>. SUFFICES ASSUME pc \notin {"data", "wrap"} PROVE FALSE
      OBVIOUS
    <3>1. Filled = Wrapped(_wloc - _rloc) /\ _wloc < M
      BY <1>2 DEF Filled, IInv, TypeOK
    <3>2. Wrapped(_wloc - _rloc) > 0
      BY <1>2, <3>1, Moves DEF available
    <3>. QED
      BY <1>5, <3>1, <3>2
  <2>2. out' \in Bytes
    BY <1>1, <1>2 DEF Rings
  <2>3. Queue!Replay
    BY <1>5, <2>1, <2>2, ReplayIs
  <2>. QED
    BY <2>3
<1>. QED
  BY <1>2, <1>4, <1>5

LEMMA GetCountsQueue ==
  ASSUME IInv, IInv', GetCounts
  PROVE  Queue!Take \/ Queue!Replay
<1>. M \in Nat /\ M >= 2 /\ Size = M + 1
  BY Modulus, BufferAssumption DEF M
<1>1. /\ pc = "get" /\ pc' = "get_wrap" /\ out = None
      /\ out' = _buf[_rloc] /\ _rloc' = _rloc + 1 /\ UNCHANGED <<_buf, _wloc>>
  BY DEF GetCounts, Goes, IInv, Thread, Handler
<1>2. _buf \in Rings /\ _wloc \in 0 .. M - 1 /\ _rloc \in 0 .. M - 1
  BY <1>1, StoredIs DEF IInv, TypeOK
<1>3. Stored' = Contents(_buf, _rloc + 1, Filled')
  BY <1>1 DEF Stored, Contents
<1>4. Filled = Wrapped(_wloc - _rloc) /\ Filled' = Wrapped(_wloc - (_rloc + 1))
  <2>1. Filled = Wrapped(_wloc - _rloc) /\ Filled' = Wrapped(_wloc' - _rloc')
    BY <1>1 DEF Filled
  <2>. QED
    BY <1>1, <1>2, <2>1
<1>5. Filled \in 0 .. M - 1
  BY StoredIs
<1>6. CASE Filled > 0
  <2>1. Filled' = Filled - 1
    <3>1. _wloc \in 0 .. M
      BY <1>2
    <3>. QED
      BY <1>2, <1>4, <1>6, <3>1, Moves
  <2>2. Queue!Take
    BY <1>1, <1>2, <1>3, <1>5, <1>6, <2>1, TakeIs
  <2>. QED
    BY <2>2
<1>7. CASE Filled = 0
  <2>1. out' \in Bytes
    BY <1>1, <1>2 DEF Rings
  <2>2. Queue!Replay
    BY <1>1, <1>7, <2>1, ReplayIs
  <2>. QED
    BY <2>2
<1>. QED
  BY <1>5, <1>6, <1>7

LEMMA GetWrapsQueue ==
  ASSUME IInv, IInv', GetWraps
  PROVE  Queue!Deliver \/ UNCHANGED <<Stored, out>>
<1>1. /\ pc = "get_wrap" /\ pc' = "idle" /\ out' = None
      /\ _rloc' = Wrapped(_rloc) /\ UNCHANGED <<_buf, _wloc>>
  BY DEF GetWraps, Goes
<1>2. _buf \in Rings /\ _wloc \in 0 .. M /\ _rloc \in 0 .. M /\ Filled \in 0 .. M - 1
      /\ Stored = Contents(_buf, _rloc, Filled)
  BY StoredIs
<1>3. Filled' = Filled
  <2>1. Filled = Wrapped(_wloc - _rloc) /\ Filled' = Wrapped(_wloc' - _rloc')
    BY <1>1 DEF Filled
  <2>2. Filled' = Wrapped(_wloc - Wrapped(_rloc))
    BY <1>1, <2>1
  <2>. QED
    BY <1>2, <2>1, <2>2, Distance
<1>4. Stored' = Stored
  <2>1. Stored' = Contents(_buf', _rloc', Filled')
    BY DEF Stored, Contents
  <2>. QED
    BY <1>1, <1>2, <1>3, <2>1, ContentsWrapped
<1>. QED
  BY <1>1, <1>4 DEF Queue!Deliver

LEMMA QueueStep ==
  ASSUME IInv, IInv', [Next]_vars
  PROVE  Queue!Next
<1>. SUFFICES \/ \E b \in Bytes : Queue!Put(b)
              \/ Queue!Take \/ Queue!Replay \/ Queue!Deliver
              \/ UNCHANGED <<Stored, out>>
  BY DEF Queue!Next
<1>. M \in Nat /\ Size = M + 1
  BY Modulus, BufferAssumption DEF M
<1>1. ASSUME NEW s \in Strings, Call(s) PROVE UNCHANGED <<Stored, out>>
  BY <1>1, OthersQueue DEF Call, Goes
<1>2. CASE PutStores
  BY <1>2, PutStoresQueue
<1>3. CASE PutCounts
  BY <1>3, PutCountsQueue
<1>4. CASE PutData
  BY <1>4, PutDataQueue
<1>5. CASE PutWraps
  BY <1>5, PutWrapsQueue
<1>6. CASE PrimeBusy \/ PrimeDetaches \/ PrimeLooks \/ PrimeFilled \/ PrimeAttaches
  BY <1>6, OthersQueue DEF PrimeBusy, PrimeDetaches, PrimeLooks, PrimeFilled, PrimeAttaches, Goes
<1>7. CASE PrimeTakes
  <2>1. Get /\ out = None /\ available /\ pc = "take" /\ pc' = "fill"
    BY <1>7 DEF PrimeTakes, Goes, Writable, IInv, Handler
  <2>2. _rloc \in 0 .. M - 1
    BY <2>1 DEF IInv, TypeOK
  <2>. QED
    BY <2>1, <2>2, GetQueue
<1>8. CASE IrqTakes
  <2>1. Get /\ out = None /\ available /\ pc' = pc /\ pc # "get_wrap"
    BY <1>8 DEF IrqTakes, Writable, IInv, Thread, Handler
  <2>2. _rloc \in 0 .. M - 1
    BY <2>1 DEF IInv, TypeOK
  <2>. QED
    BY <2>1, <2>2, GetQueue
<1>9. CASE Interrupt \/ IrqDrained \/ IrqReturns
  BY <1>9, SameQueue DEF Interrupt, IrqDrained, IrqReturns
<1>10. CASE Shifts
  BY <1>10, SameQueue DEF Shifts, Queue!Deliver
<1>11. ASSUME NEW b \in Bytes, rxIrq(b) PROVE Queue!Put(b)
  BY <1>11, RxQueue
<1>12. CASE Readable
  BY <1>12, OthersQueue DEF Readable, Goes
<1>13. CASE GetCounts
  BY <1>13, GetCountsQueue
<1>14. CASE GetWraps
  BY <1>14, GetWrapsQueue
<1>15. CASE UNCHANGED vars
  BY <1>15, SameQueue DEF vars
<1>. QED
  BY <1>1, <1>2, <1>3, <1>4, <1>5, <1>6, <1>7, <1>8, <1>9, <1>10, <1>11, <1>12, <1>13, <1>14,
     <1>15, PutStoresQueue DEF Next, write, prime, txIrq, getc

\* Both rings are the queue Fifo, for every size: whatever the handler comes
\* between, a byte is handed out once and in order, or was lost to a lap.
THEOREM RingImplementsQueue == Spec => ImplementsQueue
<1>1. Init => Queue!Init
  <2>. SUFFICES ASSUME Init PROVE Queue!Init
    OBVIOUS
  <2>1. IInv /\ _wloc = 0 /\ _rloc = 0 /\ pc = "idle" /\ out = None
    BY InitInv DEF Init
  <2>2. Filled = Wrapped(0 - 0)
    BY <2>1 DEF Filled
  <2>3. Filled = 0
    BY <2>2, Modulus, WrappedIs
  <2>4. Stored = <<>>
    BY <2>1, <2>3, StoredIs, Empty
  <2>. QED
    BY <2>1, <2>4 DEF Queue!Init
<1>2. IInv /\ IInv' /\ [Next]_vars => Queue!Next
  BY QueueStep
<1>. QED
  BY Inductive, <1>1, <1>2, PTL DEF Spec, ImplementsQueue, Queue!Spec
=============================================================================
