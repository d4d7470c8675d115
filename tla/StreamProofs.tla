---------------------------- MODULE StreamProofs ----------------------------
(***************************************************************************)
(* The theorems about Stream, for buffers, characters, ints and formats of *)
(* any size and for every answer of the writer.                            *)
(***************************************************************************)
EXTENDS StreamInv, SequenceTheorems, Induction, TLAPS

(* A buffer that holds n characters and then zeros up to its end.          *)
Holds(b, n) ==
  /\ b \in [Indexes -> Char \cup {NUL}] /\ n \in 0 .. BufLen - 2
  /\ \A k \in Indexes : b[k] = NUL <=> k >= n

StreamOK ==
  /\ Holds(buf, strlen(buf)) /\ buf_i \in 0 .. BufLen - 3 /\ buf_i <= strlen(buf)
  /\ out \in Seq(Char) /\ spoiled \in BOOLEAN

CallOK ==
  /\ pc \in {"idle", "parse", "digits", "text"}
  /\ call \in Call /\ call \in Calls \cup {NoCall} /\ args \in Seq(Argument)
  /\ i \in 1 .. Len(fmt) + 1 /\ parse_mode \in {"normal", "argument", "format"}
  /\ arg \in Char \cup {NUL}
  /\ val \in 0 .. Words - 1 /\ base \in {8, 10, 16} /\ todo \in Seq(Char)
  /\ pc = "idle" => i = 1 /\ call = NoCall /\ buf_i = 0

StreamIInv == StreamOK /\ CallOK

(* strlen() finds the end of what a buffer holds.                          *)
LEMMA StrlenOfHolds ==
  ASSUME NEW b, NEW n, Holds(b, n)
  PROVE  strlen(b) = n
<1>1. n \in Indexes /\ n \in Nat /\ b[n] = NUL /\ \A m \in 0 .. n - 1 : b[m] # NUL
  BY StreamConstants DEF Holds, Indexes
<1>2. \A l \in Indexes : (b[l] = NUL /\ \A m \in 0 .. l - 1 : b[m] # NUL) => l = n
  BY <1>1, StreamConstants DEF Holds, Indexes
<1> QED  BY <1>1, <1>2 DEF strlen

(* Chunks of a buffer are texts, and neighbouring chunks make one.         *)
LEMMA ChunkIsText ==
  ASSUME NEW b, NEW f \in Nat, NEW t \in Nat, f <= t,
         \A k \in f .. t - 1 : b[k] \in Char
  PROVE  /\ Chunk(b, f, t) \in Seq(Char)
         /\ Len(Chunk(b, f, t)) = t - f
         /\ \A k \in 1 .. t - f : Chunk(b, f, t)[k] = b[f + k - 1]
<1>1. t - f \in Nat /\ \A k \in 1 .. t - f : f + k - 1 \in f .. t - 1
  OBVIOUS
<1>2. Chunk(b, f, t) \in [1 .. t - f -> Char]
  BY <1>1 DEF Chunk
<1> QED  BY <1>1, <1>2 DEF Chunk

LEMMA ChunksJoin ==
  ASSUME NEW b, NEW f \in Nat, NEW m \in Nat, NEW t \in Nat, f <= m, m <= t,
         \A k \in f .. t - 1 : b[k] \in Char
  PROVE  Chunk(b, f, m) \o Chunk(b, m, t) = Chunk(b, f, t)
<1> DEFINE p == Chunk(b, f, m)
           q == Chunk(b, m, t)
           r == Chunk(b, f, t)
<1>1. /\ p \in Seq(Char) /\ Len(p) = m - f /\ \A k \in 1 .. m - f : p[k] = b[f + k - 1]
  BY ChunkIsText
<1>2. /\ q \in Seq(Char) /\ Len(q) = t - m /\ \A k \in 1 .. t - m : q[k] = b[m + k - 1]
  BY ChunkIsText
<1>3. /\ r \in Seq(Char) /\ Len(r) = t - f /\ \A k \in 1 .. t - f : r[k] = b[f + k - 1]
  BY ChunkIsText
<1> HIDE DEF p, q, r
<1>4. /\ p \o q \in Seq(Char) /\ Len(p \o q) = t - f
      /\ \A k \in 1 .. t - f : (p \o q)[k] = IF k <= m - f THEN p[k] ELSE q[k - (m - f)]
  BY <1>1, <1>2, ConcatProperties
<1>5. \A k \in 1 .. t - f : (p \o q)[k] = r[k]
  <2> TAKE k \in 1 .. t - f
  <2>1. CASE k <= m - f  BY <2>1, <1>1, <1>3, <1>4, SMTT(30)
  <2>2. CASE ~(k <= m - f)
    <3>1. k - (m - f) \in 1 .. t - m  BY <2>2
    <3>2. q[k - (m - f)] = b[m + (k - (m - f)) - 1]  BY <3>1, <1>2
    <3>3. m + (k - (m - f)) - 1 = f + k - 1  OBVIOUS
    <3> QED  BY <2>2, <3>2, <3>3, <1>3, <1>4
  <2> QED  BY <2>1, <2>2
<1>6. p \o q = r  BY <1>3, <1>4, <1>5, SeqEqual
<1> QED  BY <1>6 DEF p, q, r

LEMMA EmptyChunk == ASSUME NEW b, NEW f \in Nat PROVE Chunk(b, f, f) = <<>>
<1>1. f <= f /\ f - f = 0 /\ \A k \in f .. f - 1 : b[k] \in Char
  OBVIOUS
<1>2. Chunk(b, f, f) \in Seq(Char) /\ Len(Chunk(b, f, f)) = 0
  BY <1>1, ChunkIsText
<1> QED  BY <1>2, EmptySeq

LEMMA BufferSize == BufLen \in Nat /\ BufLen >= 3 /\ BufLen - 3 \in Nat
BY StreamConstants

LEMMA HoldsText ==
  ASSUME NEW b, NEW n, Holds(b, n)
  PROVE  /\ n \in Nat /\ n <= BufLen - 2
         /\ \A k \in Int : 0 <= k /\ k < n => k \in Indexes /\ b[k] \in Char /\ b[k] # NUL
<1>1. n \in Nat /\ n <= BufLen - 2  BY BufferSize DEF Holds
<1>2. ASSUME NEW k \in Int, 0 <= k, k < n
      PROVE  k \in Indexes /\ b[k] \in Char /\ b[k] # NUL
  <2>1. k \in Indexes  BY <1>1, <1>2, BufferSize DEF Indexes
  <2>2. b[k] # NUL  BY <1>1, <1>2, <2>1 DEF Holds
  <2> QED  BY <2>1, <2>2 DEF Holds
<1> QED  BY <1>1, <1>2

(* What the invariant says of the two parts of the buffer.                 *)
LEMMA Parts ==
  ASSUME StreamOK
  PROVE  /\ queue \in Seq(Char) /\ Len(queue) = buf_i /\ buf_i \in Nat
         /\ stale \in Seq(Char) /\ Len(stale) = strlen(buf) - buf_i
         /\ strlen(buf) \in Nat
         /\ \A k \in 0 .. strlen(buf) - 1 : buf[k] \in Char
<1>1. /\ buf_i \in Nat /\ strlen(buf) \in Nat /\ buf_i <= strlen(buf)
      /\ \A k \in 0 .. strlen(buf) - 1 : buf[k] \in Char
  <2>1. Holds(buf, strlen(buf)) /\ buf_i \in Nat /\ buf_i <= strlen(buf)
    BY BufferSize DEF StreamOK
  <2> QED  BY <2>1, HoldsText
<1>2. queue \in Seq(Char) /\ Len(queue) = buf_i - 0
  <2>1. 0 \in Nat /\ 0 <= buf_i /\ \A k \in 0 .. buf_i - 1 : buf[k] \in Char
    BY <1>1
  <2> QED  BY <1>1, <2>1, ChunkIsText DEF queue
<1>3. stale \in Seq(Char) /\ Len(stale) = strlen(buf) - buf_i
  <2>1. \A k \in buf_i .. strlen(buf) - 1 : buf[k] \in Char  BY <1>1
  <2> QED  BY <1>1, <2>1, ChunkIsText DEF stale
<1> QED  BY <1>1, <1>2, <1>3

(* A character is stored: the queue grows by it, and what is left of a     *)
(* refused text, if anything, loses its first.                             *)
LEMMA Storing ==
  ASSUME StreamOK, NEW c \in Char
  PROVE  \E m \in Nat :
           /\ Holds(Stored(c), m) /\ buf_i + 1 <= m
           /\ Chunk(Stored(c), 0, buf_i + 1) = Append(queue, c)
           /\ Chunk(Stored(c), buf_i + 1, m) = Pipe!Rest(stale)
<1> DEFINE S == Stored(c)
           n == strlen(buf)
           m == IF buf_i = n THEN n + 1 ELSE n
           t == Chunk(S, buf_i + 1, m)
<1>1. /\ buf_i \in Nat /\ n \in Nat /\ buf_i <= n /\ n <= BufLen - 2
      /\ buf_i <= BufLen - 3 /\ BufLen \in Nat /\ BufLen >= 3
      /\ buf_i \in Indexes /\ m \in Nat /\ buf_i + 1 <= m /\ m <= BufLen - 2
      /\ queue \in Seq(Char) /\ Len(queue) = buf_i
      /\ stale \in Seq(Char) /\ Len(stale) = n - buf_i
      /\ \A k \in 0 .. n - 1 : buf[k] \in Char
      /\ buf \in [Indexes -> Char \cup {NUL}]
      /\ \A k \in Indexes : buf[k] = NUL <=> k >= n
  <2>1. Holds(buf, n) /\ buf_i \in 0 .. BufLen - 3 /\ buf_i <= n  BY DEF StreamOK
  <2>2. /\ buf \in [Indexes -> Char \cup {NUL}]
        /\ \A k \in Indexes : buf[k] = NUL <=> k >= n
    BY <2>1 DEF Holds
  <2>3. n \in Nat /\ n <= BufLen - 2  BY <2>1, HoldsText
  <2> HIDE DEF n
  <2>4. /\ buf_i \in Nat /\ buf_i <= n /\ buf_i <= BufLen - 3
        /\ m \in Nat /\ buf_i + 1 <= m /\ m <= BufLen - 2
    BY <2>1, <2>3, BufferSize
  <2>5. buf_i \in Indexes  BY <2>4, BufferSize DEF Indexes
  <2> USE DEF n
  <2> QED  BY <2>2, <2>3, <2>4, <2>5, Parts, BufferSize
<1>2. /\ S \in [Indexes -> Char \cup {NUL}] /\ S[buf_i] = c /\ c # NUL
      /\ \A k \in Indexes : k # buf_i => S[k] = buf[k]
  BY <1>1, StreamConstants DEF Stored
<1> HIDE DEF S, n
<1>3. Holds(S, m)
  <2>1. m \in 0 .. BufLen - 2  BY <1>1
  <2>2. \A k \in Indexes : S[k] = NUL <=> k >= m  BY <1>1, <1>2 DEF Indexes
  <2> QED  BY <1>2, <2>1, <2>2 DEF Holds
<1>4. \A k \in Int : 0 <= k /\ k < m => k \in Indexes /\ S[k] \in Char
  BY <1>3, HoldsText
<1>5. Chunk(S, 0, buf_i + 1) = Append(queue, c)
  <2> DEFINE p == Chunk(S, 0, buf_i + 1)
             a == Append(queue, c)
  <2>1. /\ p \in Seq(Char) /\ Len(p) = buf_i + 1
        /\ \A k \in 1 .. buf_i + 1 : p[k] = S[0 + k - 1]
    <3>1. 0 \in Nat /\ buf_i + 1 \in Nat /\ 0 <= buf_i + 1 /\ buf_i + 1 - 0 = buf_i + 1
      BY <1>1
    <3>2. \A k \in 0 .. (buf_i + 1) - 1 : S[k] \in Char
      <4> TAKE k \in 0 .. (buf_i + 1) - 1
      <4> HIDE DEF m
      <4> QED  BY <1>1, <1>4
    <3>3. /\ p \in Seq(Char) /\ Len(p) = (buf_i + 1) - 0
          /\ \A k \in 1 .. (buf_i + 1) - 0 : p[k] = S[0 + k - 1]
      BY <3>1, <3>2, ChunkIsText
    <3> QED  BY <3>1, <3>3
  <2>2. \A k \in 1 .. buf_i : queue[k] = buf[0 + k - 1]
    <3>1. buf_i - 0 = buf_i  BY <1>1
    <3> QED  BY <3>1 DEF queue, Chunk
  <2>3. /\ a \in Seq(Char) /\ Len(a) = buf_i + 1 /\ a[buf_i + 1] = c
        /\ \A k \in 1 .. buf_i : a[k] = queue[k]
    BY <1>1, AppendProperties
  <2> HIDE DEF p, a
  <2>4. \A k \in 1 .. buf_i + 1 : p[k] = a[k]
    <3> TAKE k \in 1 .. buf_i + 1
    <3>1. CASE k = buf_i + 1  BY <3>1, <1>1, <1>2, <2>1, <2>3
    <3>2. CASE k # buf_i + 1
      <4>1. k \in 1 .. buf_i /\ 0 + k - 1 \in Indexes /\ 0 + k - 1 # buf_i
        BY <3>2, <1>1 DEF Indexes
      <4> QED  BY <4>1, <1>2, <2>1, <2>2, <2>3
    <3> QED  BY <3>1, <3>2
  <2>5. p = a  BY <2>1, <2>3, <2>4, <1>1, SeqEqual
  <2> QED  BY <2>5 DEF p, a
<1>6. t = Pipe!Rest(stale)
  <2>1. /\ t \in Seq(Char) /\ Len(t) = m - (buf_i + 1)
        /\ \A k \in 1 .. m - (buf_i + 1) : t[k] = S[buf_i + 1 + k - 1]
    <3> HIDE DEF m
    <3>1. buf_i + 1 \in Nat /\ m \in Nat /\ buf_i + 1 <= m  BY <1>1
    <3>2. \A k \in buf_i + 1 .. m - 1 : S[k] \in Char  BY <3>1, <1>4
    <3> QED  BY <3>1, <3>2, ChunkIsText
  <2> HIDE DEF t
  <2>2. CASE buf_i = n
    <3>1. Len(t) = 0 /\ Len(stale) = 0  BY <2>1, <2>2, <1>1
    <3>2. t = <<>> /\ stale = <<>>  BY <3>1, <2>1, <1>1, EmptySeq
    <3> QED  BY <3>2 DEF Pipe!Rest
  <2>3. CASE buf_i # n
    <3>1. m = n /\ stale # <<>>  BY <2>3, <1>1, EmptySeq
    <3>2. /\ Tail(stale) \in Seq(Char) /\ Len(Tail(stale)) = n - buf_i - 1
          /\ \A k \in 1 .. n - buf_i - 1 : Tail(stale)[k] = stale[k + 1]
      BY <3>1, <1>1, HeadTailProperties
    <3>3. \A k \in 1 .. n - buf_i : stale[k] = buf[buf_i + k - 1]
      BY DEF stale, n, Chunk
    <3>4. \A k \in 1 .. Len(t) : t[k] = Tail(stale)[k]
      <4> TAKE k \in 1 .. Len(t)
      <4>1. /\ k \in 1 .. n - buf_i - 1 /\ k + 1 \in 1 .. n - buf_i
            /\ buf_i + 1 + k - 1 \in Indexes /\ buf_i + 1 + k - 1 # buf_i
            /\ buf_i + 1 + k - 1 = buf_i + (k + 1) - 1
        BY <2>1, <3>1, <1>1 DEF Indexes
      <4>2. t[k] = buf[buf_i + (k + 1) - 1]  BY <4>1, <2>1, <3>1, <1>2
      <4> QED  BY <4>1, <4>2, <3>2, <3>3
    <3>5. t = Tail(stale)  BY <2>1, <3>1, <3>2, <3>4, <1>1, SeqEqual
    <3> QED  BY <3>1, <3>5 DEF Pipe!Rest
  <2> QED  BY <2>2, <2>3
<1> QED  BY <1>1, <1>3, <1>5, <1>6 DEF S

LEMMA EmptyHolds == Holds(Empty, 0)
BY BufferSize DEF Holds, Empty, Indexes

(* The writer has taken all that it was given.                             *)
Taken(q, s) == ~spoiled' => ~spoiled /\ out' = out \o q \o s /\ stale' = <<>>

(* A buffer is printed: its text, cut at any place, is handed to the pipe. *)
LEMMA Printing ==
  ASSUME StreamOK, NEW b, NEW n, Holds(b, n), NEW j \in Nat, j <= n,
         print_stream_buf(b)
  PROVE  /\ StreamOK' /\ buf_i' = 0 /\ Pipe!Hand(Chunk(b, 0, j), Chunk(b, j, n))
         /\ Taken(Chunk(b, 0, j), Chunk(b, j, n))
<1>1. /\ n \in Nat /\ n <= BufLen - 2
      /\ \A k \in Int : 0 <= k /\ k < n => k \in Indexes /\ b[k] \in Char /\ b[k] # NUL
  BY HoldsText
<1>2. Terminated(b) = b
  <2>1. BufLen - 1 \in Indexes /\ BufLen - 1 >= n  BY <1>1, BufferSize DEF Indexes
  <2>2. b \in [Indexes -> Char \cup {NUL}] /\ b[BufLen - 1] = NUL  BY <2>1 DEF Holds
  <2> QED  BY <2>1, <2>2 DEF Terminated
<1>3. strlen(b) = n  BY StrlenOfHolds
<1>4. Cleared(b) = Empty
  <2>1. \A k \in Indexes : (IF k < n THEN NUL ELSE b[k]) = NUL
    BY <1>1, BufferSize DEF Holds, Indexes
  <2> QED  BY <1>3, <2>1 DEF Cleared, Empty
<1> DEFINE q == Chunk(b, 0, j)
           s == Chunk(b, j, n)
<1>5. q \in Seq(Char) /\ s \in Seq(Char) /\ q \o s = Chunk(b, 0, n)
  <2>1. /\ \A k \in 0 .. j - 1 : b[k] \in Char
        /\ \A k \in j .. n - 1 : b[k] \in Char
        /\ \A k \in 0 .. n - 1 : b[k] \in Char
    BY <1>1
  <2> 0 \in Nat /\ 0 <= j  OBVIOUS
  <2>2. q \in Seq(Char)  BY <2>1, ChunkIsText
  <2>3. s \in Seq(Char)  BY <1>1, <2>1, ChunkIsText
  <2>4. q \o s = Chunk(b, 0, n)  BY <1>1, <2>1, ChunksJoin
  <2> QED  BY <2>2, <2>3, <2>4
<1> HIDE DEF q, s
<1>6. /\ buf_i' = 0
      /\ \/ out' = out \o (q \o s) /\ buf' = Empty /\ spoiled' = spoiled
         \/ out' = out /\ buf' = b /\ spoiled' = TRUE
  BY <1>2, <1>3, <1>4, <1>5 DEF print_stream_buf, TextOf
<1>7. queue' = <<>>
  <2>1. queue' = Chunk(buf', 0, 0)  BY <1>6 DEF queue
  <2> QED  BY <2>1, EmptyChunk
<1>8. out \in Seq(Char) /\ spoiled \in BOOLEAN  BY DEF StreamOK
<1>9. CASE out' = out \o (q \o s) /\ buf' = Empty /\ spoiled' = spoiled
  <2>1. strlen(buf') = 0  BY <1>9, EmptyHolds, StrlenOfHolds
  <2>2. stale' = <<>>
    <3>1. stale' = Chunk(buf', 0, 0)  BY <1>6, <2>1 DEF stale
    <3> QED  BY <3>1, EmptyChunk
  <2>3. out' = out \o q \o s
    <3>1. \A x, y, z \in Seq(Char) : (x \o y) \o z = x \o (y \o z)
      BY ConcatAssociative, SMTT(60)
    <3>2. (out \o q) \o s = out \o (q \o s)  BY <1>5, <1>8, <3>1
    <3> QED  BY <3>2, <1>9
  <2>4. out' \in Seq(Char)  BY <1>5, <1>8, <1>9, ConcatProperties
  <2>5. Holds(buf', strlen(buf'))  BY <1>9, <2>1, EmptyHolds
  <2>6. buf_i' \in 0 .. BufLen - 3 /\ buf_i' <= strlen(buf')  BY <1>6, <2>1, BufferSize
  <2>7. StreamOK'  BY <1>8, <1>9, <2>4, <2>5, <2>6 DEF StreamOK, Holds
  <2> QED  BY <1>6, <1>7, <1>9, <2>2, <2>3, <2>7 DEF Pipe!Hand, Taken, q, s
<1>10. CASE out' = out /\ buf' = b /\ spoiled' = TRUE
  <2>1. strlen(buf') = n  BY <1>3, <1>10
  <2>2. stale' = q \o s
    <3>1. stale' = Chunk(b, 0, n)  BY <1>6, <1>10, <2>1 DEF stale
    <3> QED  BY <3>1, <1>5
  <2>3. Holds(buf', strlen(buf'))  BY <1>10, <2>1
  <2>4. buf_i' \in 0 .. BufLen - 3 /\ buf_i' <= strlen(buf')
    BY <1>1, <1>6, <2>1, BufferSize
  <2>5. StreamOK'  BY <1>8, <1>10, <2>3, <2>4 DEF StreamOK, Holds
  <2> QED  BY <1>6, <1>7, <1>10, <2>2, <2>5 DEF Pipe!Hand, Taken, q, s
<1> QED  BY <1>6, <1>9, <1>10

LEMMA AppendToEnd ==
  ASSUME NEW s \in Seq(Char), NEW t \in Seq(Char), NEW c \in Char
  PROVE  s \o Append(t, c) = (s \o t) \o <<c>>
<1>1. Append(t, c) = t \o <<c>> /\ <<c>> \in Seq(Char)  BY AppendIsConcat
<1> QED  BY <1>1, ConcatAssociative

(* Once a text is refused the call counts as spoiled; before, nothing is   *)
(* left of such a text.                                                    *)
Clean == ~spoiled => stale = <<>>

Printed == out \o queue

(* A character is pushed: a step of the pipe, with or without a flush.     *)
LEMMA Pushing ==
  ASSUME StreamOK, NEW c \in Char, push_to_buf(c)
  PROVE  /\ StreamOK' /\ (Pipe!Put(c) \/ Pipe!PutLast(c))
         /\ Clean => Clean' /\ (~spoiled' => ~spoiled /\ ~Refused /\ Printed' = Printed \o <<c>>)
<1>1. PICK m \in Nat :
        /\ Holds(Stored(c), m) /\ buf_i + 1 <= m
        /\ Chunk(Stored(c), 0, buf_i + 1) = Append(queue, c)
        /\ Chunk(Stored(c), buf_i + 1, m) = Pipe!Rest(stale)
  BY Storing
<1>2. /\ queue \in Seq(Char) /\ Len(queue) = buf_i /\ buf_i \in Nat
      /\ buf_i <= BufLen - 3 /\ out \in Seq(Char) /\ spoiled \in BOOLEAN
  BY Parts, BufferSize DEF StreamOK
<1>3. CASE PushQuietly(c)
  <2>1. /\ buf_i + 1 # BufLen - 2 /\ buf' = Stored(c) /\ buf_i' = buf_i + 1
        /\ out' = out /\ spoiled' = spoiled
    BY <1>3 DEF PushQuietly, Full
  <2>2. strlen(buf') = m  BY <1>1, <2>1, StrlenOfHolds
  <2>3. queue' = Append(queue, c)  BY <1>1, <2>1 DEF queue
  <2>4. stale' = Pipe!Rest(stale)  BY <1>1, <2>1, <2>2 DEF stale
  <2>5. buf_i' \in 0 .. BufLen - 3 /\ buf_i' <= strlen(buf')
    BY <1>1, <1>2, <2>1, <2>2, BufferSize
  <2>6. StreamOK'  BY <1>1, <1>2, <2>1, <2>2, <2>5 DEF StreamOK, Holds
  <2>7. Len(queue) + 1 < BufLen - 2  BY <1>2, <2>1, BufferSize
  <2>8. Printed' = Printed \o <<c>>
    <3>1. Printed' = out \o Append(queue, c)  BY <2>1, <2>3 DEF Printed
    <3> QED  BY <1>2, <3>1, AppendToEnd DEF Printed
  <2>9. Clean => Clean'  BY <2>1, <2>4 DEF Clean, Pipe!Rest
  <2> QED  BY <2>1, <2>3, <2>4, <2>6, <2>7, <2>8, <2>9 DEF Pipe!Put, Refused, Full
<1>4. CASE PushAndPrint(c)
  <2>1. buf_i + 1 = BufLen - 2 /\ print_stream_buf(Stored(c))
    BY <1>4 DEF PushAndPrint, Full
  <2>2. buf_i + 1 \in Nat  BY <1>2
  <2>3. /\ StreamOK' /\ Pipe!Hand(Append(queue, c), Pipe!Rest(stale))
        /\ Taken(Append(queue, c), Pipe!Rest(stale))
    BY <1>1, <2>1, <2>2, Printing
  <2>4. ASSUME Clean, ~spoiled'
        PROVE  ~spoiled /\ ~Refused /\ Printed' = Printed \o <<c>> /\ stale' = <<>>
    <3> DEFINE q == Append(queue, c)
    <3>1. ~spoiled /\ out' = out \o q \o Pipe!Rest(stale) /\ stale' = <<>> /\ queue' = <<>>
      BY <2>3, <2>4 DEF Taken, Pipe!Hand
    <3>2. Pipe!Rest(stale) = <<>>  BY <2>4, <3>1 DEF Clean, Pipe!Rest
    <3>3. q \in Seq(Char) /\ q # <<>> /\ out \o q \in Seq(Char)
      BY <1>2, AppendProperties, ConcatProperties
    <3> HIDE DEF q
    <3>4. out' = out \o q /\ Printed' = out \o q
      BY <3>1, <3>2, <3>3, ConcatEmptySeq DEF Printed
    <3>5. out \o q # out  BY <1>2, <3>3, ConcatEqualIffEmpty
    <3>6. out \o q = Printed \o <<c>>  BY <1>2, AppendToEnd DEF q, Printed
    <3> QED  BY <3>1, <3>4, <3>5, <3>6 DEF Refused
  <2> QED  BY <1>2, <2>1, <2>3, <2>4 DEF Pipe!PutLast, Clean
<1> QED  BY <1>3, <1>4 DEF push_to_buf

(* A step that leaves the stream alone.                                    *)
LEMMA Resting ==
  ASSUME StreamOK, UNCHANGED stream
  PROVE  StreamOK' /\ UNCHANGED <<queue, stale, out>>
<1>1. buf' = buf /\ buf_i' = buf_i /\ out' = out /\ spoiled' = spoiled
  BY DEF stream
<1>2. strlen(buf') = strlen(buf)  BY <1>1
<1> QED  BY <1>1, <1>2 DEF StreamOK, Holds, queue, stale

PipeStep == Pipe!Next \/ UNCHANGED <<queue, stale, out>>

LEMMA PushIsStep ==
  ASSUME StreamOK, NEW c \in Char, push_to_buf(c)
  PROVE  StreamOK' /\ PipeStep
<1>1. StreamOK' /\ (Pipe!Put(c) \/ Pipe!PutLast(c))  BY Pushing
<1> QED  BY <1>1 DEF PipeStep, Pipe!Next

(* What the invariant says of the character the parser has come to.        *)
LEMMA AtCharacter ==
  ASSUME CallOK, NEW chars, Meets(chars)
  PROVE  /\ pc = "parse" /\ fmt \in Seq(Char) /\ fmt[i] \in Char /\ fmt[i] \in chars
         /\ i \in 1 .. Len(fmt) /\ i + 1 \in 1 .. Len(fmt) + 1
<1>1. fmt \in Seq(Char)  BY DEF CallOK, Call, fmt
<1>2. i \in 1 .. Len(fmt)  BY <1>1 DEF CallOK, Meets
<1>3. fmt[i] \in Char  BY <1>1, <1>2, ElementOfSeq
<1>4. i + 1 \in 1 .. Len(fmt) + 1  BY <1>1, <1>2
<1> QED  BY <1>1, <1>2, <1>3, <1>4 DEF Meets

LEMMA InitStream == Init => StreamIInv /\ Pipe!Init
<1> SUFFICES ASSUME Init PROVE StreamIInv /\ Pipe!Init  OBVIOUS
<1>1. strlen(buf) = 0 /\ Holds(buf, 0)  BY EmptyHolds, StrlenOfHolds DEF Init
<1>2. queue = <<>> /\ stale = <<>>  BY <1>1, EmptyChunk DEF Init, queue, stale
<1>3. <<>> \in Seq(Char) /\ <<>> \in Seq(Argument)  BY EmptySeq
<1>4. StreamOK
  <2>1. Holds(buf, strlen(buf))  BY <1>1
  <2>2. buf_i \in 0 .. BufLen - 3 /\ buf_i <= strlen(buf)  BY <1>1, BufferSize DEF Init
  <2>3. out \in Seq(Char) /\ spoiled \in BOOLEAN  BY <1>3 DEF Init
  <2> QED  BY <2>1, <2>2, <2>3 DEF StreamOK
<1>5. NoCall \in Call /\ Len(NoCall.fmt) = 0  BY <1>3 DEF NoCall, Call
<1>6. CallOK  BY <1>3, <1>5, StreamConstants DEF Init, CallOK, fmt
<1> QED  BY <1>2, <1>4, <1>6 DEF StreamIInv, Pipe!Init, Init

(* The parser's steps.                                                     *)
LEMMA SwitchStep ==
  ASSUME StreamIInv, Open \/ Close \/ Ask \/ SetArg
  PROVE  StreamIInv' /\ PipeStep
<1>1. PICK chars : Meets(chars)  BY DEF Open, Close, Ask, SetArg
<1>2. /\ UNCHANGED stream /\ i' = i + 1 /\ call' = call /\ UNCHANGED <<pc, args, number>>
      /\ parse_mode' \in {"normal", "argument", "format"}
      /\ arg' = arg \/ arg' = fmt[i]
  BY DEF Open, Close, Ask, SetArg, Switch, Onward
<1>3. StreamOK' /\ PipeStep  BY <1>2, Resting DEF StreamIInv, PipeStep
<1>4. pc = "parse" /\ fmt[i] \in Char /\ i + 1 \in 1 .. Len(fmt) + 1
  BY <1>1, AtCharacter DEF StreamIInv
<1>5. CallOK'  BY <1>2, <1>4 DEF StreamIInv, CallOK, fmt, number
<1> QED  BY <1>3, <1>5 DEF StreamIInv

LEMMA CharacterStep ==
  ASSUME StreamIInv, Escaped \/ Plain
  PROVE  StreamIInv' /\ PipeStep
<1>1. PICK chars : Meets(chars)  BY DEF Escaped, Plain
<1>2. /\ i' = i + 1 /\ call' = call /\ UNCHANGED <<pc, args, arg, number>>
      /\ parse_mode' = "normal" \/ parse_mode' = parse_mode
      /\ push_to_buf(fmt[i])
  BY DEF Escaped, Plain, Onward, Meets
<1>3. pc = "parse" /\ fmt[i] \in Char /\ i + 1 \in 1 .. Len(fmt) + 1
  BY <1>1, AtCharacter DEF StreamIInv
<1>4. StreamOK' /\ PipeStep  BY <1>2, <1>3, PushIsStep DEF StreamIInv
<1>5. CallOK'  BY <1>2, <1>3 DEF StreamIInv, CallOK, fmt, number
<1> QED  BY <1>4, <1>5 DEF StreamIInv

(* A directive takes an argument of the right types.                       *)
LEMMA DirectiveTakes ==
  ASSUME StreamIInv, NEW c, Directive(c)
  PROVE  /\ args[1] \in Argument /\ args' \in Seq(Argument) /\ arg' = NUL
         /\ call' = call /\ parse_mode' = parse_mode /\ i' \in 1 .. Len(fmt) + 1
         /\ pc = "parse"
<1>1. args \in Seq(Argument) /\ args # <<>>  BY DEF Directive, Take, StreamIInv, CallOK
<1>2. args[1] \in Argument /\ Tail(args) \in Seq(Argument)
  <2>1. Len(args) \in Nat \ {0}  BY <1>1, EmptySeq
  <2>2. 1 \in 1 .. Len(args)  BY <2>1
  <2> QED  BY <1>1, <2>2, ElementOfSeq, HeadTailProperties
<1>3. pc = "parse" /\ i + 1 \in 1 .. Len(fmt) + 1
  BY AtCharacter DEF Directive, StreamIInv
<1> QED  BY <1>2, <1>3 DEF Directive, Take, Onward, EndOfSpecifier

LEMMA NumberStep ==
  ASSUME StreamIInv, Number
  PROVE  StreamIInv' /\ PipeStep
<1>1. PICK c : Directive(c)  BY DEF Number
<1>2. /\ args[1] \in Argument /\ args' \in Seq(Argument) /\ arg' = NUL
      /\ call' = call /\ parse_mode' = parse_mode /\ i' \in 1 .. Len(fmt) + 1
  BY <1>1, DirectiveTakes
<1>3. StreamOK' /\ PipeStep
  <2>1. CASE push_to_buf("-")
    BY <2>1, PushIsStep, StreamConstants DEF StreamIInv
  <2>2. CASE UNCHANGED stream
    BY <2>2, Resting DEF StreamIInv, PipeStep
  <2> QED  BY <2>1, <2>2 DEF Number
<1>4. val' \in 0 .. Words - 1
  <2>1. val' = args[1].n % Words /\ args[1].n \in Int  BY <1>2 DEF Number, Argument
  <2>2. Words \in Nat \ {0}  BY StreamConstants
  <2> QED  BY <2>1, <2>2
<1>5. base' \in {8, 10, 16}
  BY DEF Number, int_display_flag_to_base, BaseOf
<1>6. CallOK'
  BY <1>2, <1>4, <1>5 DEF Number, StreamIInv, CallOK, fmt
<1> QED  BY <1>3, <1>6 DEF StreamIInv

LEMMA StringStep ==
  ASSUME StreamIInv, String
  PROVE  StreamIInv' /\ PipeStep
<1>1. Directive("s")  BY DEF String
<1>2. /\ args[1] \in Argument /\ args' \in Seq(Argument) /\ arg' = NUL
      /\ call' = call /\ parse_mode' = parse_mode /\ i' \in 1 .. Len(fmt) + 1
  BY <1>1, DirectiveTakes
<1>3. StreamOK' /\ PipeStep  BY Resting DEF String, StreamIInv, PipeStep
<1>4. todo' \in Seq(Char)  BY <1>2 DEF String, Argument
<1>5. CallOK'  BY <1>2, <1>4 DEF String, StreamIInv, CallOK, fmt
<1> QED  BY <1>3, <1>5 DEF StreamIInv

LEMMA DigitStep ==
  ASSUME StreamIInv, Digit \/ EndOfDigits \/ EndOfText
  PROVE  StreamIInv' /\ PipeStep
<1>1. UNCHANGED <<stream, call, args, i, parse_mode, arg>>
  BY DEF Digit, EndOfDigits, EndOfText, parser
<1>2. StreamOK' /\ PipeStep  BY <1>1, Resting DEF StreamIInv, PipeStep
<1>3. /\ base \in {8, 10, 16} /\ val \in 0 .. Words - 1 /\ todo \in Seq(Char)
      /\ Words \in Nat
  BY StreamConstants DEF StreamIInv, CallOK
<1>4. CASE Digit
  <2>1. val % base \in 0 .. 15 /\ val \div base \in 0 .. Words - 1
    BY <1>3
  <2>2. DigitChar[val % base] \in Char  BY <2>1, StreamConstants
  <2>3. todo' \in Seq(Char)
    <3>1. <<DigitChar[val % base]>> \in Seq(Char)  BY <2>2
    <3> QED  BY <1>3, <1>4, <3>1, ConcatProperties DEF Digit
  <2>4. val' \in 0 .. Words - 1  BY <1>4, <2>1 DEF Digit
  <2> QED  BY <1>1, <1>2, <1>4, <2>3, <2>4 DEF Digit, StreamIInv, CallOK, fmt
<1>5. CASE EndOfDigits \/ EndOfText
  BY <1>1, <1>2, <1>5 DEF EndOfDigits, EndOfText, StreamIInv, CallOK, fmt, number
<1> QED  BY <1>4, <1>5

LEMMA PushTextStep ==
  ASSUME StreamIInv, PushText
  PROVE  StreamIInv' /\ PipeStep
<1>1. todo \in Seq(Char) /\ todo # <<>>  BY DEF PushText, StreamIInv, CallOK
<1>2. todo[1] \in Char /\ Tail(todo) \in Seq(Char) /\ <<>> \in Seq(Char)
  <2>1. Len(todo) \in Nat \ {0}  BY <1>1, EmptySeq
  <2>2. 1 \in 1 .. Len(todo)  BY <2>1
  <2> QED  BY <1>1, <2>2, ElementOfSeq, HeadTailProperties, EmptySeq
<1>3. StreamOK' /\ PipeStep  BY <1>2, PushIsStep DEF PushText, StreamIInv
<1>4. CallOK'
  BY <1>2 DEF PushText, AfterPush, StreamIInv, CallOK, fmt, parser
<1> QED  BY <1>3, <1>4 DEF StreamIInv

LEMMA ReturnStep ==
  ASSUME StreamIInv, Return
  PROVE  StreamIInv' /\ PipeStep
<1>1. StreamOK /\ Holds(buf, strlen(buf)) /\ buf_i \in Nat /\ buf_i <= strlen(buf)
  BY BufferSize DEF StreamIInv, StreamOK
<1>2. StreamOK' /\ buf_i' = 0 /\ Pipe!Hand(queue, stale)
  BY <1>1, Printing DEF Return, queue, stale
<1>3. PipeStep  BY <1>2 DEF PipeStep, Pipe!Next, Pipe!Flush
<1>4. <<>> \in Seq(Char) /\ <<>> \in Seq(Argument)  BY EmptySeq
<1>5. NoCall \in Call /\ Len(NoCall.fmt) = 0  BY <1>4 DEF NoCall, Call
<1>6. CallOK'  BY <1>2, <1>4, <1>5 DEF Return, StreamIInv, CallOK, fmt, number
<1> QED  BY <1>2, <1>3, <1>6 DEF StreamIInv

LEMMA CallStep ==
  ASSUME StreamIInv, NEW c \in Calls, vfprintf(c)
  PROVE  StreamIInv' /\ PipeStep
<1>1. c \in Call  BY StreamConstants
<1>2. /\ pc = "idle" /\ buf_i = 0 /\ i = 1
      /\ buf' = buf /\ buf_i' = buf_i /\ out' = <<>> /\ spoiled' \in BOOLEAN
  BY DEF vfprintf, StreamIInv, CallOK
<1>3. strlen(buf') = strlen(buf)  BY <1>2
<1>4. queue = <<>> /\ queue' = queue /\ stale' = stale
  BY <1>2, <1>3, EmptyChunk DEF queue, stale
<1>5. PipeStep  BY <1>2, <1>4 DEF PipeStep, Pipe!Next, Pipe!Begin
<1>6. StreamOK'  BY <1>2, <1>3, EmptySeq DEF StreamIInv, StreamOK, Holds
<1>7. Len(c.fmt) \in Nat /\ c.args \in Seq(Argument)  BY <1>1 DEF Call
<1>8. CallOK'  BY <1>1, <1>2, <1>7 DEF vfprintf, StreamIInv, CallOK, fmt, number
<1> QED  BY <1>5, <1>6, <1>8 DEF StreamIInv

(* Every step keeps the invariant and is a step of the pipe, or none.      *)
LEMMA StreamStep == StreamIInv /\ [Next]_vars => StreamIInv' /\ PipeStep
<1> SUFFICES ASSUME StreamIInv, [Next]_vars PROVE StreamIInv' /\ PipeStep  OBVIOUS
<1>1. CASE Run
  BY <1>1, SwitchStep, CharacterStep, NumberStep, StringStep, DigitStep,
     PushTextStep, ReturnStep DEF Run
<1>2. CASE \E c \in Calls : vfprintf(c)  BY <1>2, CallStep
<1>3. CASE UNCHANGED vars
  <2>1. UNCHANGED <<stream, pc, parser, number>>  BY <1>3 DEF vars
  <2>2. StreamOK' /\ PipeStep  BY <2>1, Resting DEF StreamIInv, PipeStep
  <2>3. CallOK'  BY <2>1 DEF StreamIInv, CallOK, fmt, parser, number, stream
  <2> QED  BY <2>2, <2>3 DEF StreamIInv
<1> QED  BY <1>1, <1>2, <1>3 DEF Next

THEOREM StreamInvariant == Spec => []StreamIInv
<1>1. Init => StreamIInv  BY InitStream
<1>2. StreamIInv /\ [Next]_vars => StreamIInv'  BY StreamStep
<1> QED  BY <1>1, <1>2, PTL DEF Spec

(* TypeOK: in particular, buf_i never comes to the buffer's last two bytes *)
(* (randpseudocode.c:40), whatever is pushed and refused.                  *)
THEOREM StreamTyped == Spec => []TypeOK
<1>1. StreamIInv => TypeOK
  BY DEF StreamIInv, StreamOK, CallOK, TypeOK, Holds
<1> QED  BY <1>1, StreamInvariant, PTL

(* ZerosBehind: memset()'s early stop (memory.c:24) never leaves a byte    *)
(* uncleared in this use of it.                                            *)
THEOREM BufferIsText == Spec => []ZerosBehind
<1>1. StreamIInv => ZerosBehind
  <2> SUFFICES ASSUME StreamIInv PROVE ZerosBehind  OBVIOUS
  <2>1. Holds(buf, strlen(buf)) /\ buf_i <= strlen(buf)  BY DEF StreamIInv, StreamOK
  <2>2. strlen(buf) \in Nat /\ strlen(buf) <= BufLen - 2  BY <2>1, HoldsText
  <2>3. \A k \in strlen(buf) .. BufLen - 1 : buf[k] = NUL
    BY <2>1, <2>2, BufferSize DEF Holds, Indexes
  <2> QED  BY <2>1, <2>2, <2>3 DEF ZerosBehind
<1> QED  BY <1>1, StreamInvariant, PTL

(* ImplementsPipe: characters are written in order and once, and what a    *)
(* refusal (randpseudocode.c:25) leaves behind is written as TextPipe says.*)
THEOREM StreamIsPipe == Spec => ImplementsPipe
<1>1. Init => Pipe!Init  BY InitStream
<1>2. StreamIInv /\ [Next]_vars => [Pipe!Next]_(Pipe!vars)
  BY StreamStep DEF PipeStep, Pipe!vars
<1> QED  BY <1>1, <1>2, StreamInvariant, PTL DEF Spec, ImplementsPipe, Pipe!Spec
----------------------------------------------------------------------------
(* PrintsWhatIsMeant.                                                      *)

(* The format from a position on.                                          *)
From(k) == SubSeq(fmt, k, Len(fmt))

LEMMA RegularIsCall == Regular \subseteq Call
BY DEF Regular

LEMMA RegularCases ==
  ASSUME NEW c \in Regular
  PROVE  \/ c = NoCall
         \/ \E p \in Call, e \in Regular : IsPiece(p) /\ c = Join(p, e)
<1> DEFINE ps == {p \in Call : IsPiece(p)}
<1>1. PICK calls \in SUBSET Call : BuiltOf(ps, calls) /\ c \in calls  BY DEF Regular
<1>2. calls \subseteq Regular  BY <1>1 DEF Regular
<1>3. c = NoCall \/ \E p \in ps, e \in calls : c = Join(p, e)  BY <1>1 DEF BuiltOf
<1> QED  BY <1>2, <1>3

LEMMA CallFields ==
  ASSUME NEW c \in Call
  PROVE  c.fmt \in Seq(Char) /\ c.args \in Seq(Argument) /\ c.means \in Seq(Char)
BY DEF Call

(* Where the format begins with one text, the rest of it is the other.     *)
LEMMA Cut ==
  ASSUME fmt \in Seq(Char), i \in 1 .. Len(fmt) + 1, NEW a \in Seq(Char), NEW b \in Seq(Char),
         From(i) = a \o b
  PROVE  /\ i + Len(a) \in 1 .. Len(fmt) + 1 /\ From(i + Len(a)) = b
         /\ \A k \in 1 .. Len(a) : fmt[i + k - 1] = a[k]
<1> DEFINE n == Len(fmt)
<1>1. n \in Nat /\ i \in Nat /\ i >= 1 /\ i <= n + 1 /\ Len(a) \in Nat /\ Len(b) \in Nat
  OBVIOUS
<1>2. \A k \in 1 .. n : fmt[k] \in Char  OBVIOUS
<1>3. /\ From(i) \in Seq(Char) /\ Len(From(i)) = n - i + 1
      /\ \A k \in 1 .. n - i + 1 : From(i)[k] = fmt[i + k - 1]
  <2>1. \A k \in i .. n : fmt[k] \in Char  BY <1>1, <1>2
  <2> HIDE DEF n
  <2>2. /\ SubSeq(fmt, i, n) \in Seq(Char)
        /\ Len(SubSeq(fmt, i, n)) = IF i <= n THEN n - i + 1 ELSE 0
        /\ \A k \in 1 .. n - i + 1 : SubSeq(fmt, i, n)[k] = fmt[i + k - 1]
    BY <1>1, <2>1, SubSeqProperties
  <2> QED  BY <1>1, <2>2 DEF From, n
<1>4. /\ Len(a \o b) = Len(a) + Len(b)
      /\ \A k \in 1 .. Len(a) + Len(b) : (a \o b)[k] = IF k <= Len(a) THEN a[k] ELSE b[k - Len(a)]
  BY ConcatProperties
<1> DEFINE la == Len(a)
           j == i + la
<1>5. n - i + 1 = la + Len(b)  BY <1>3, <1>4
<1>6. \A k \in 1 .. la : fmt[i + k - 1] = a[k]
  <2> TAKE k \in 1 .. la
  <2>1. k \in 1 .. la + Len(b) /\ k \in 1 .. n - i + 1 /\ k <= la  BY <1>1, <1>5
  <2> QED  BY <1>3, <1>4, <2>1
<1>7. j \in 1 .. n + 1  BY <1>1, <1>5
<1>8. From(j) = b
  <2>1. \A k \in j .. n : fmt[k] \in Char  BY <1>1, <1>2, <1>7
  <2> HIDE DEF n, j
  <2>2. j \in Int /\ n \in Int  BY <1>1, <1>7
  <2>3. /\ SubSeq(fmt, j, n) \in Seq(Char)
        /\ Len(SubSeq(fmt, j, n)) = IF j <= n THEN n - j + 1 ELSE 0
        /\ \A k \in 1 .. n - j + 1 : SubSeq(fmt, j, n)[k] = fmt[j + k - 1]
    BY <2>1, <2>2, SubSeqProperties, SMTT(30)
  <2>4. n - j + 1 = Len(b)  BY <1>1, <1>5 DEF j
  <2>5. \A k \in 1 .. Len(b) : SubSeq(fmt, j, n)[k] = b[k]
    <3> TAKE k \in 1 .. Len(b)
    <3> HIDE DEF la
    <3>1. la = Len(a)  BY DEF la
    <3>2. /\ la + k \in 1 .. la + Len(b) /\ ~(la + k <= la) /\ (la + k) - la = k
          /\ la + k \in 1 .. n - i + 1
          /\ j + k - 1 = i + (la + k) - 1
      BY <1>1, <1>5, <3>1 DEF j
    <3>3. SubSeq(fmt, j, n)[k] = fmt[i + (la + k) - 1]  BY <2>3, <2>4, <3>2
    <3>4. fmt[i + (la + k) - 1] = From(i)[la + k]  BY <1>3, <3>2
    <3>5. (a \o b)[la + k] = b[k]  BY <1>4, <3>1, <3>2
    <3> QED  BY <3>3, <3>4, <3>5
  <2>6. Len(SubSeq(fmt, j, n)) = Len(b)  BY <1>1, <1>7, <2>3, <2>4
  <2>7. SubSeq(fmt, j, n) = b  BY <2>3, <2>5, <2>6, SeqEqual
  <2> QED  BY <2>7 DEF From, n
<1> QED  BY <1>6, <1>7, <1>8

(* A text without its first character.                                     *)
LEMMA HeadAndRest ==
  ASSUME NEW S, NEW s \in Seq(S), s # <<>>
  PROVE  s = <<s[1]>> \o Tail(s) /\ s[1] \in S /\ Tail(s) \in Seq(S)
<1>1. Len(s) \in Nat /\ Len(s) >= 1 /\ 1 \in 1 .. Len(s)
  <2>1. Len(s) \in Nat \ {0}  BY EmptySeq
  <2> QED  BY <2>1
<1>2. s[1] \in S /\ Tail(s) \in Seq(S)  BY <1>1, ElementOfSeq, HeadTailProperties
<1>3. SubSeq(s, 1, Len(s)) = <<s[1]>> \o SubSeq(s, 1 + 1, Len(s))
  <2>1. Len(s) \in 1 .. Len(s)  BY <1>1
  <2> QED  BY <1>1, <2>1, SubSeqRecursiveFirst
<1>4. SubSeq(s, 1, Len(s)) = s  BY SubSeqFull
<1>5. Tail(s) = SubSeq(s, 2, Len(s))  BY TailIsSubSeq
<1>6. 1 + 1 = 2  OBVIOUS
<1> QED  BY <1>2, <1>3, <1>4, <1>5, <1>6

LEMMA OneBefore ==
  ASSUME NEW S, NEW a \in Seq(S), NEW s \in Seq(S), Len(a) = 1
  PROVE  a \o s # <<>> /\ (a \o s)[1] = a[1] /\ Tail(a \o s) = s
<1>1. /\ a \o s \in Seq(S) /\ Len(a \o s) = Len(a) + Len(s) /\ Len(s) \in Nat
      /\ \A k \in 1 .. Len(a) + Len(s) : (a \o s)[k] = IF k <= Len(a) THEN a[k] ELSE s[k - Len(a)]
  BY ConcatProperties, LenProperties
<1>2. a \o s # <<>>  BY <1>1, EmptySeq
<1>3. (a \o s)[1] = a[1]  BY <1>1
<1>4. /\ Tail(a \o s) \in Seq(S) /\ Len(Tail(a \o s)) = Len(a \o s) - 1
      /\ \A k \in 1 .. Len(Tail(a \o s)) : Tail(a \o s)[k] = (a \o s)[k + 1]
  BY <1>1, <1>2, HeadTailProperties
<1> DEFINE t == Tail(a \o s)
           u == a \o s
<1> HIDE DEF t, u
<1>5. \A k \in 1 .. Len(s) : t[k] = s[k]
  <2> TAKE k \in 1 .. Len(s)
  <2>1. k + 1 \in 1 .. Len(a) + Len(s) /\ ~(k + 1 <= Len(a)) /\ (k + 1) - Len(a) = k
    BY <1>1
  <2>2. k \in 1 .. Len(t)  BY <1>1, <1>4 DEF t
  <2>3. t[k] = u[k + 1]  BY <1>4, <2>2 DEF t, u
  <2>4. u[k + 1] = s[k]  BY <1>1, <2>1 DEF u
  <2> QED  BY <2>3, <2>4
<1>6. t \in Seq(S) /\ Len(t) = Len(s)  BY <1>1, <1>4 DEF t
<1>7. t = s  BY <1>5, <1>6, SeqEqual
<1> QED  BY <1>2, <1>3, <1>7 DEF t

(* What is printed once a text and the rest of the call are.               *)
Told(t, e) == ~spoiled => Printed \o (t \o e.means) = call.means

(* The places of the parser in a call: what is left is the call e, behind  *)
(* what is left of the piece before it.                                    *)
Between(e) ==
  /\ pc = "parse" /\ parse_mode = "normal" /\ arg = NUL
  /\ From(i) = e.fmt /\ args = e.args /\ Told(<<>>, e)

AtBrace(e) ==
  /\ pc = "parse" /\ parse_mode = "format" /\ arg = NUL
  /\ i <= Len(fmt) /\ fmt[i] = LeftBrace /\ From(i + 1) = e.fmt
  /\ args = e.args /\ Told(<<LeftBrace>>, e)

AtText(e) ==
  /\ pc = "parse" /\ parse_mode = "format"
  /\ i + 1 <= Len(fmt) /\ fmt[i] = "s" /\ fmt[i + 1] = RightBrace /\ From(i + 2) = e.fmt
  /\ args # <<>> /\ Tail(args) = e.args /\ Told(args[1].text, e)

NumberAt(k, flag, e) ==
  /\ k + 1 <= Len(fmt) /\ fmt[k] \in {"d", "u"} /\ fmt[k + 1] = RightBrace /\ From(k + 2) = e.fmt
  /\ args # <<>> /\ Tail(args) = e.args
  /\ \E t \in Seq(Char) :
       /\ Spells(t, args[1].n % Words, int_display_flag_to_base(flag))
       /\ Told(Sign(fmt[k], args[1].n) \o t, e)

AtNumber(e) == pc = "parse" /\ parse_mode = "format" /\ NumberAt(i, arg, e)

AtFlag(e) ==
  /\ pc = "parse" /\ parse_mode = "argument"
  /\ fmt[i] \in Char \ Special /\ NumberAt(i + 1, fmt[i], e)

AtAsk(e) ==
  /\ pc = "parse" /\ parse_mode = "format" /\ fmt[i] = "?"
  /\ fmt[i + 1] \in Char \ Special /\ NumberAt(i + 2, fmt[i + 1], e)

(* The argument is taken.                                                  *)
Behind(e) ==
  /\ parse_mode = "format" /\ arg = NUL
  /\ i <= Len(fmt) /\ fmt[i] = RightBrace /\ From(i + 1) = e.fmt /\ args = e.args

Reading(read, t, v, b) ==
  /\ read \in [0 .. Len(t) -> 0 .. v]
  /\ read[0] = 0 /\ read[Len(t)] = v
  /\ \A k \in 1 .. Len(t) :
       /\ read[k] > 0
       /\ \E d \in 0 .. b - 1 : t[k] = DigitChar[d] /\ read[k] = b * read[k - 1] + d

(* k digits of the text are still to be made.                              *)
InDigits(e) ==
  /\ pc = "digits" /\ Behind(e)
  /\ \E t \in Seq(Char) : \E v \in Nat : \E read : \E k \in 0 .. Len(t) :
       /\ Reading(read, t, v, base) /\ Told(t, e)
       /\ val = read[k] /\ todo = SubSeq(t, k + 1, Len(t))

InText(e) == pc = "text" /\ Behind(e) /\ Told(todo, e)

Closing(e) == pc = "parse" /\ Behind(e) /\ Told(<<>>, e)

Place(e) ==
  \/ Between(e) \/ AtBrace(e) \/ AtText(e) \/ AtNumber(e) \/ AtFlag(e) \/ AtAsk(e)
  \/ InDigits(e) \/ InText(e) \/ Closing(e)

ReadOK ==
  /\ Clean
  /\ pc \in {"idle", "parse"} => todo = <<>>
  /\ pc = "idle" => parse_mode = "normal" /\ arg = NUL
  /\ pc # "idle" /\ call \in Regular => \E e \in Regular : Place(e)

(* Pushing the first character of what is to be printed.                   *)
LEMMA ToldPush ==
  ASSUME StreamOK, Clean, NEW c \in Char, NEW t \in Seq(Char), NEW e \in Call,
         push_to_buf(c), UNCHANGED call, Told(<<c>> \o t, e)
  PROVE  Told(t, e)' /\ Clean' /\ (~spoiled' => ~Refused)
<1>1. Clean' /\ (~spoiled' => ~spoiled /\ ~Refused /\ Printed' = Printed \o <<c>>)
  BY Pushing
<1>2. Printed \in Seq(Char) /\ e.means \in Seq(Char) /\ <<c>> \in Seq(Char)
  BY Parts, CallFields, ConcatProperties DEF StreamOK, Printed
<1>3. (Printed \o <<c>>) \o (t \o e.means) = Printed \o ((<<c>> \o t) \o e.means)
  <2>1. \A x, y, z \in Seq(Char) : (x \o y) \o z = x \o (y \o z)
    BY ConcatAssociative, SMTT(60)
  <2>2. t \o e.means \in Seq(Char)  BY <1>2, ConcatProperties
  <2>3. (Printed \o <<c>>) \o (t \o e.means) = Printed \o (<<c>> \o (t \o e.means))
    BY <1>2, <2>1, <2>2, ZenonT(60)
  <2>4. (<<c>> \o t) \o e.means = <<c>> \o (t \o e.means)
    BY <1>2, <2>1, Zenon
  <2> QED  BY <2>3, <2>4
<1>4. ASSUME ~spoiled' PROVE Printed' \o (t \o e.means) = call'.means
  BY <1>1, <1>3, <1>4 DEF Told
<1> QED  BY <1>1, <1>4 DEF Told

LEMMA ToldRest ==
  ASSUME StreamOK, Clean, UNCHANGED <<stream, call>>, NEW t, NEW e, Told(t, e)
  PROVE  Told(t, e)' /\ Clean'
<1>1. UNCHANGED <<queue, stale, out>> /\ UNCHANGED spoiled  BY Resting DEF stream
<1> QED  BY <1>1 DEF Told, Clean, Printed

(* Which step the parser can take next.                                    *)
LEMMA Possible ==
  ASSUME Run
  PROVE  /\ pc = "digits" => Digit \/ EndOfDigits
         /\ pc = "text" => PushText \/ EndOfText
         /\ pc = "parse" /\ parse_mode = "normal" => Return \/ Open \/ Plain
         /\ pc = "parse" /\ parse_mode = "argument" => Return \/ SetArg \/ Escaped \/ Plain
         /\ pc = "parse" /\ parse_mode = "format" =>
              \/ Return
              \/ fmt[i] = LeftBrace /\ Escaped
              \/ fmt[i] = RightBrace /\ Close
              \/ fmt[i] = "?" /\ Ask
              \/ fmt[i] \in {"d", "u"} /\ Number
              \/ fmt[i] = "s" /\ String
              \/ fmt[i] \notin Special /\ Plain
BY DEF Run, Open, Close, Ask, SetArg, Escaped, Plain, Number, String, Digit, EndOfDigits,
       PushText, EndOfText, Return, Switch, Meets, Directive, Special

LEMMA Braces ==
  /\ LeftBrace # RightBrace
  /\ {LeftBrace, RightBrace} \cap {"?", "d", "u", "s", "x", "o"} = {}
BY Zenon DEF LeftBrace, RightBrace

LEMMA NumberPiece ==
  ASSUME NEW p \in Call, IsNumber(p)
  PROVE  \E kind \in {"d", "u"}, flag \in Char \cup {NUL}, t \in Seq(Char) :
           /\ p.means = Sign(kind, p.args[1].n) \o t
           /\ Spells(t, p.args[1].n % Words, int_display_flag_to_base(flag))
           /\ \/ flag = NUL /\ p.fmt = <<LeftBrace, kind, RightBrace>>
              \/ flag \in Char \ Special /\ p.fmt = <<LeftBrace, "?", flag, kind, RightBrace>>
<1> DEFINE n == p.args[1].n
           t(kind) == SubSeq(p.means, Len(Sign(kind, n)) + 1, Len(p.means))
<1>1. PICK kind \in {"d", "u"}, b \in {8, 10, 16} :
        /\ InBase(p, kind, b) /\ p.means = Sign(kind, n) \o t(kind)
        /\ Spells(t(kind), n % Words, b)
  BY Zenon DEF IsNumber
<1>2. t(kind) \in Seq(Char)
  <2>1. p.means \in Seq(Char)  BY CallFields
  <2>2. Len(Sign(kind, n)) \in Nat  BY DEF Sign
  <2>3. Len(p.means) \in Nat /\ \A k \in 1 .. Len(p.means) : p.means[k] \in Char  BY <2>1
  <2>4. \A k \in Len(Sign(kind, n)) + 1 .. Len(p.means) : p.means[k] \in Char
    BY <2>2, <2>3
  <2> QED  BY <2>2, <2>3, <2>4, SubSeqProperties
<1>3. /\ int_display_flag_to_base(NUL) = 10
      /\ int_display_flag_to_base("x") = 16 /\ int_display_flag_to_base("o") = 8
      /\ {"x", "o"} \subseteq Char \ Special
  BY StreamConstants, Braces DEF int_display_flag_to_base, BaseOf, Special
<1> HIDE DEF t, n
<1>4. CASE p.fmt = <<LeftBrace, kind, RightBrace>> /\ b = 10
  BY <1>1, <1>2, <1>3, <1>4, Zenon DEF n
<1>5. CASE p.fmt = <<LeftBrace, "?", "x", kind, RightBrace>> /\ b = 16
  BY <1>1, <1>2, <1>3, <1>5, Zenon DEF n
<1>6. CASE p.fmt = <<LeftBrace, "?", "o", kind, RightBrace>> /\ b = 8
  BY <1>1, <1>2, <1>3, <1>6, Zenon DEF n
<1> QED  BY <1>1, <1>4, <1>5, <1>6 DEF InBase

LEMMA ToldJoin ==
  ASSUME NEW p \in Call, NEW f \in Call, Told(<<>>, Join(p, f))  PROVE Told(p.means, f)
<1>1. p.means \o f.means \in Seq(Char)  BY CallFields, ConcatProperties
<1>2. <<>> \o (p.means \o f.means) = p.means \o f.means  BY <1>1, ConcatEmptySeq
<1>3. Join(p, f).means = p.means \o f.means  BY DEF Join
<1> QED  BY <1>2, <1>3 DEF Told

(* The piece the parser has come to.                                       *)
LEMMA NextPiece ==
  ASSUME CallOK, pc = "parse", i <= Len(fmt), NEW e \in Regular, Between(e)
  PROVE  \E p \in Call, f \in Regular :
           /\ IsPiece(p) /\ args = p.args \o f.args /\ Told(p.means, f)
           /\ i + Len(p.fmt) <= Len(fmt) + 1 /\ From(i + Len(p.fmt)) = f.fmt
           /\ \A k \in 1 .. Len(p.fmt) : fmt[i + k - 1] = p.fmt[k]
<1>1. fmt \in Seq(Char) /\ i \in 1 .. Len(fmt)
  <2>1. fmt \in Seq(Char)  BY DEF CallOK, Call, fmt
  <2> QED  BY <2>1 DEF CallOK
<1>2. e # NoCall
  <2>1. From(i) # <<>>
    <3>1. /\ Len(fmt) \in Nat /\ i \in Int /\ Len(fmt) \in Int
          /\ \A k \in i .. Len(fmt) : fmt[k] \in Char
      BY <1>1
    <3>2. /\ From(i) \in Seq(Char)
          /\ Len(From(i)) = IF i <= Len(fmt) THEN Len(fmt) - i + 1 ELSE 0
      BY <3>1, SubSeqProperties DEF From
    <3>3. Len(From(i)) # 0  BY <1>1, <3>1, <3>2
    <3> QED  BY <3>3, EmptySeq
  <2> QED  BY <2>1 DEF Between, NoCall
<1>3. PICK p \in Call, f \in Regular : IsPiece(p) /\ e = Join(p, f)
  BY <1>2, RegularCases
<1>4. f \in Call  BY RegularIsCall
<1>5. /\ p.fmt \in Seq(Char) /\ f.fmt \in Seq(Char)
      /\ From(i) = p.fmt \o f.fmt /\ args = p.args \o f.args
  BY <1>3, <1>4, CallFields DEF Between, Join
<1>6. Told(p.means, f)  BY <1>3, <1>4, ToldJoin DEF Between
<1>7. /\ i + Len(p.fmt) \in 1 .. Len(fmt) + 1 /\ From(i + Len(p.fmt)) = f.fmt
      /\ \A k \in 1 .. Len(p.fmt) : fmt[i + k - 1] = p.fmt[k]
  <2>1. i \in 1 .. Len(fmt) + 1  BY DEF CallOK
  <2> QED  BY <1>1, <1>5, <2>1, Cut
<1>8. i + Len(p.fmt) <= Len(fmt) + 1  BY <1>7
<1> QED  BY <1>3, <1>5, <1>6, <1>7, <1>8

LEMMA Tuples ==
  /\ \A a : Len(<<a>>) = 1 /\ <<a>>[1] = a
  /\ \A a, b : Len(<<a, b>>) = 2 /\ <<a, b>>[1] = a /\ <<a, b>>[2] = b
  /\ \A a, b, c : /\ Len(<<a, b, c>>) = 3
                  /\ <<a, b, c>>[1] = a /\ <<a, b, c>>[2] = b /\ <<a, b, c>>[3] = c
  /\ \A a, b, c, d, e :
       /\ Len(<<a, b, c, d, e>>) = 5
       /\ <<a, b, c, d, e>>[1] = a /\ <<a, b, c, d, e>>[2] = b /\ <<a, b, c, d, e>>[3] = c
       /\ <<a, b, c, d, e>>[4] = d /\ <<a, b, c, d, e>>[5] = e
OBVIOUS

LEMMA OpenPiece ==
  ASSUME StreamIInv, Clean, NEW e \in Regular, Between(e), Open \/ Plain
  PROVE  \E f \in Regular : Place(f)'
<1>1. pc = "parse" /\ fmt \in Seq(Char) /\ fmt[i] \in Char /\ i \in 1 .. Len(fmt) /\ i \in Nat
  <2>1. pc = "parse" /\ fmt \in Seq(Char) /\ fmt[i] \in Char /\ i \in 1 .. Len(fmt)
    BY AtCharacter DEF Open, Plain, StreamIInv
  <2> QED  BY <2>1
<1>2. /\ pc' = "parse" /\ i' = i + 1 /\ call' = call /\ args' = args /\ arg' = arg /\ arg = NUL
      /\ \/ fmt[i] = LeftBrace /\ parse_mode' = "format" /\ UNCHANGED stream
         \/ fmt[i] # LeftBrace /\ parse_mode' = "normal" /\ push_to_buf(fmt[i])
  BY <1>1 DEF Open, Plain, Switch, Onward, Between, Meets
<1>3. fmt' = fmt /\ \A k : From(k)' = From(k)  BY <1>2 DEF fmt, From
<1>4. StreamOK  BY DEF StreamIInv
<1>5. PICK p \in Call, f \in Regular :
        /\ IsPiece(p) /\ args = p.args \o f.args /\ Told(p.means, f)
        /\ i + Len(p.fmt) <= Len(fmt) + 1 /\ From(i + Len(p.fmt)) = f.fmt
        /\ \A k \in 1 .. Len(p.fmt) : fmt[i + k - 1] = p.fmt[k]
  <2>1. CallOK /\ i <= Len(fmt)  BY <1>1 DEF StreamIInv
  <2> QED  BY <1>1, <2>1, NextPiece
<1>6. f \in Call /\ f.args \in Seq(Argument) /\ p.args \in Seq(Argument) /\ Len(fmt) \in Nat
  BY <1>1, RegularIsCall, CallFields
<1>7. ASSUME UNCHANGED stream PROVE Told(p.means, f)' /\ Clean'
  BY <1>2, <1>4, <1>5, <1>7, ToldRest
<1>8. CASE IsPlain(p)
  <2>1. PICK c \in Char \ {LeftBrace} : p.fmt = <<c>> /\ p.args = <<>> /\ p.means = <<c>>
    <3>1. PICK c \in Char \ {LeftBrace} : p = [fmt |-> <<c>>, args |-> <<>>, means |-> <<c>>]
      BY <1>8, Zenon DEF IsPlain
    <3>2. p.fmt = <<c>> /\ p.args = <<>> /\ p.means = <<c>>  BY <3>1, Zenon
    <3> QED  BY <3>2, Zenon
  <2>2. fmt[i] = c /\ From(i + 1) = f.fmt
    <3>1. Len(p.fmt) = 1 /\ p.fmt[1] = c  BY <2>1, Tuples
    <3>2. 1 \in 1 .. 1 /\ i + 1 - 1 = i  BY <1>1
    <3> QED  BY <1>5, <3>1, <3>2
  <2>3. parse_mode' = "normal" /\ push_to_buf(c)  BY <1>2, <2>1, <2>2
  <2>4. args = f.args  BY <1>5, <1>6, <2>1, ConcatEmptySeq
  <2>5. Told(<<c>> \o <<>>, f)
    <3>1. <<c>> \in Seq(Char)  OBVIOUS
    <3>2. <<c>> \o <<>> = <<c>>  BY <3>1, ConcatEmptySeq
    <3> QED  BY <1>5, <2>1, <3>2
  <2>6. Told(<<>>, f)' /\ Clean'
    <3>1. <<>> \in Seq(Char)  BY EmptySeq
    <3> QED  BY <1>2, <1>4, <1>6, <2>1, <2>3, <2>5, <3>1, ToldPush
  <2>7. Between(f)'  BY <1>2, <1>3, <2>2, <2>3, <2>4, <2>6 DEF Between
  <2> QED  BY <2>6, <2>7 DEF Place
<1>9. CASE IsBrace(p)
  <2>1. p.fmt = <<LeftBrace, LeftBrace>> /\ p.args = <<>> /\ p.means = <<LeftBrace>>  BY <1>9 DEF IsBrace
  <2>2. fmt[i] = LeftBrace /\ fmt[i + 1] = LeftBrace /\ From(i + 2) = f.fmt /\ i + 1 <= Len(fmt)
    <3>1. Len(p.fmt) = 2 /\ p.fmt[1] = LeftBrace /\ p.fmt[2] = LeftBrace  BY <2>1, Tuples
    <3>2. 1 \in 1 .. 2 /\ 2 \in 1 .. 2 /\ i + 1 - 1 = i /\ i + 2 - 1 = i + 1
      BY <1>1
    <3> QED  BY <1>1, <1>5, <1>6, <3>1, <3>2
  <2>3. parse_mode' = "format" /\ UNCHANGED stream  BY <1>2, <2>2
  <2>4. args = f.args  BY <1>5, <1>6, <2>1, ConcatEmptySeq
  <2>5. Told(<<LeftBrace>>, f)' /\ Clean'  BY <1>7, <2>1, <2>3
  <2>6. (i + 1) + 1 = i + 2  BY <1>1
  <2>7. AtBrace(f)'  BY <1>2, <1>3, <2>2, <2>3, <2>4, <2>5, <2>6 DEF AtBrace
  <2> QED  BY <2>5, <2>7 DEF Place
<1>10. ASSUME Len(p.args) = 1
       PROVE  args # <<>> /\ args[1] = p.args[1] /\ Tail(args) = f.args
  BY <1>5, <1>6, <1>10, OneBefore
<1>11. CASE IsText(p)
  <2>1. Len(p.args) = 1 /\ p.fmt = <<LeftBrace, "s", RightBrace>> /\ p.means = p.args[1].text
    BY <1>11 DEF IsText
  <2>2. /\ fmt[i] = LeftBrace /\ fmt[i + 1] = "s" /\ fmt[i + 2] = RightBrace /\ From(i + 3) = f.fmt
        /\ i + 2 <= Len(fmt)
    <3>1. Len(p.fmt) = 3 /\ p.fmt[1] = LeftBrace /\ p.fmt[2] = "s" /\ p.fmt[3] = RightBrace
      BY <2>1, Tuples
    <3>2. /\ 1 \in 1 .. 3 /\ 2 \in 1 .. 3 /\ 3 \in 1 .. 3
          /\ i + 1 - 1 = i /\ i + 2 - 1 = i + 1 /\ i + 3 - 1 = i + 2
      BY <1>1
    <3> QED  BY <1>1, <1>5, <1>6, <3>1, <3>2
  <2>3. parse_mode' = "format" /\ UNCHANGED stream  BY <1>2, <2>2
  <2>4. Told(args[1].text, f)' /\ Clean'  BY <1>2, <1>7, <1>10, <2>1, <2>3
  <2>5. (i + 1) + 1 = i + 2 /\ (i + 1) + 2 = i + 3  BY <1>1
  <2>6. AtText(f)'  BY <1>2, <1>3, <1>10, <2>1, <2>2, <2>3, <2>4, <2>5 DEF AtText
  <2> QED  BY <2>4, <2>6 DEF Place
<1>12. CASE IsNumber(p)
  <2>1. PICK kind \in {"d", "u"}, flag \in Char \cup {NUL}, t \in Seq(Char) :
           /\ p.means = Sign(kind, p.args[1].n) \o t
           /\ Spells(t, p.args[1].n % Words, int_display_flag_to_base(flag))
           /\ \/ flag = NUL /\ p.fmt = <<LeftBrace, kind, RightBrace>>
              \/ flag \in Char \ Special /\ p.fmt = <<LeftBrace, "?", flag, kind, RightBrace>>
    BY <1>12, NumberPiece
  <2>2. args # <<>> /\ args[1] = p.args[1] /\ Tail(args) = f.args
    BY <1>10, <1>12 DEF IsNumber
  <2>3. CASE flag = NUL /\ p.fmt = <<LeftBrace, kind, RightBrace>>
    <3>1. /\ fmt[i] = LeftBrace /\ fmt[i + 1] = kind /\ fmt[i + 2] = RightBrace /\ From(i + 3) = f.fmt
          /\ i + 2 <= Len(fmt)
      <4>1. Len(p.fmt) = 3 /\ p.fmt[1] = LeftBrace /\ p.fmt[2] = kind /\ p.fmt[3] = RightBrace
        BY <2>3, Tuples
      <4>2. /\ 1 \in 1 .. 3 /\ 2 \in 1 .. 3 /\ 3 \in 1 .. 3
            /\ i + 1 - 1 = i /\ i + 2 - 1 = i + 1 /\ i + 3 - 1 = i + 2
        BY <1>1
      <4> QED  BY <1>1, <1>5, <1>6, <4>1, <4>2, SMTT(60)
    <3>2. parse_mode' = "format" /\ UNCHANGED stream  BY <1>2, <3>1
    <3>3. Told(Sign(kind, args[1].n) \o t, f)' /\ Clean'  BY <1>2, <1>7, <2>1, <2>2, <3>2
    <3>4. (i + 1) + 1 = i + 2 /\ (i + 1) + 2 = i + 3  BY <1>1
    <3>5. NumberAt(i, arg, f)'
      BY <1>2, <1>3, <2>1, <2>2, <2>3, <3>1, <3>3, <3>4 DEF NumberAt
    <3>6. AtNumber(f)'  BY <1>2, <3>2, <3>5 DEF AtNumber
    <3> QED  BY <3>3, <3>6 DEF Place
  <2>4. CASE flag \in Char \ Special /\ p.fmt = <<LeftBrace, "?", flag, kind, RightBrace>>
    <3>1. /\ fmt[i] = LeftBrace /\ fmt[i + 1] = "?" /\ fmt[i + 2] = flag
          /\ fmt[i + 3] = kind /\ fmt[i + 4] = RightBrace /\ From(i + 5) = f.fmt
          /\ i + 4 <= Len(fmt)
      <4>1. /\ Len(p.fmt) = 5 /\ p.fmt[1] = LeftBrace /\ p.fmt[2] = "?" /\ p.fmt[3] = flag
            /\ p.fmt[4] = kind /\ p.fmt[5] = RightBrace
        BY <2>4, Tuples
      <4>2. /\ 1 \in 1 .. 5 /\ 2 \in 1 .. 5 /\ 3 \in 1 .. 5 /\ 4 \in 1 .. 5 /\ 5 \in 1 .. 5
            /\ i + 1 - 1 = i /\ i + 2 - 1 = i + 1 /\ i + 3 - 1 = i + 2
            /\ i + 4 - 1 = i + 3 /\ i + 5 - 1 = i + 4
        BY <1>1
      <4> QED  BY <1>1, <1>5, <1>6, <4>1, <4>2, SMTT(60)
    <3>2. parse_mode' = "format" /\ UNCHANGED stream  BY <1>2, <3>1
    <3>3. Told(Sign(kind, args[1].n) \o t, f)' /\ Clean'  BY <1>2, <1>7, <2>1, <2>2, <3>2
    <3>4. /\ (i + 1) + 1 = i + 2 /\ (i + 1) + 2 = i + 3 /\ (i + 3) + 1 = i + 4
          /\ (i + 3) + 2 = i + 5
      BY <1>1
    <3>5. NumberAt(i + 2, fmt[i + 1], f)'
      BY <1>2, <1>3, <2>1, <2>2, <3>1, <3>3, <3>4 DEF NumberAt
    <3>6. AtAsk(f)'  BY <1>2, <1>3, <2>4, <3>1, <3>2, <3>4, <3>5 DEF AtAsk
    <3> QED  BY <3>3, <3>6 DEF Place
  <2> QED  BY <2>1, <2>3, <2>4
<1> QED  BY <1>5, <1>8, <1>9, <1>11, <1>12 DEF IsPiece

(* A step that reads a character and leaves the call alone.                *)
LEMMA ReadsOn ==
  ASSUME StreamIInv, NEW chars, Meets(chars)
  PROVE  fmt \in Seq(Char) /\ fmt[i] \in Char /\ i \in 1 .. Len(fmt) /\ i \in Nat /\ Len(fmt) \in Nat
<1>1. fmt \in Seq(Char) /\ fmt[i] \in Char /\ i \in 1 .. Len(fmt)
  BY AtCharacter DEF StreamIInv
<1> QED  BY <1>1

LEMMA EscapeBrace ==
  ASSUME StreamIInv, Clean, NEW e \in Regular, AtBrace(e), Escaped
  PROVE  \E f \in Regular : Place(f)'
<1>1. /\ pc' = "parse" /\ pc = "parse" /\ i' = i + 1 /\ call' = call /\ args' = args /\ arg' = arg
      /\ parse_mode' = "normal" /\ push_to_buf(LeftBrace)
  BY DEF Escaped, Onward, Meets
<1>2. fmt' = fmt  BY <1>1 DEF fmt
<1>3. StreamOK /\ LeftBrace \in Char /\ e \in Call
  BY ReadsOn, RegularIsCall DEF StreamIInv, Escaped, AtBrace
<1>4. Told(<<LeftBrace>> \o <<>>, e)
  <2>1. <<LeftBrace>> \in Seq(Char)  BY <1>3
  <2>2. <<LeftBrace>> \o <<>> = <<LeftBrace>>  BY <2>1, ConcatEmptySeq
  <2> QED  BY <2>2 DEF AtBrace
<1>5. Told(<<>>, e)' /\ Clean'
  <2>1. <<>> \in Seq(Char)  BY EmptySeq
  <2> QED  BY <1>1, <1>3, <1>4, <2>1, ToldPush
<1>6. Between(e)'  BY <1>1, <1>2, <1>5 DEF Between, AtBrace, From
<1> QED  BY <1>5, <1>6 DEF Place

LEMMA TakeText ==
  ASSUME StreamIInv, Clean, NEW e \in Regular, AtText(e), String
  PROVE  \E f \in Regular : Place(f)'
<1>1. /\ Meets({"s"}) /\ pc' = "text" /\ i' = i + 1 /\ call' = call /\ args' = Tail(args)
      /\ arg' = NUL /\ parse_mode' = parse_mode /\ UNCHANGED stream /\ todo' = args[1].text
  BY DEF String, Directive, Onward, Take, EndOfSpecifier
<1>2. fmt' = fmt  BY <1>1 DEF fmt
<1>0. PICK t : t = args[1].text  OBVIOUS
<1>3. Told(t, e)' /\ Clean'
  BY <1>0, <1>1, ToldRest DEF StreamIInv, AtText
<1>4. i \in Nat /\ (i + 1) + 1 = i + 2  BY <1>1, ReadsOn
<1>5. Told(todo, e)'  BY <1>0, <1>1, <1>3 DEF Told
<1>6. InText(e)'  BY <1>1, <1>2, <1>4, <1>5 DEF InText, AtText, Behind, From
<1> QED  BY <1>3, <1>6 DEF Place

LEMMA TakeBase ==
  ASSUME StreamIInv, Clean, NEW e \in Regular,
         (AtAsk(e) /\ Ask) \/ (AtFlag(e) /\ SetArg)
  PROVE  \E f \in Regular : Place(f)'
<1>1. PICK chars : Meets(chars)  BY DEF Ask, SetArg
<1>2. i \in Nat /\ (i + 1) + 1 = i + 2 /\ (i + 2) + 1 = i + 3 /\ (i + 1) + 2 = i + 3 /\ (i + 2) + 2 = i + 4
  BY <1>1, ReadsOn
<1>3. /\ pc = "parse" /\ pc' = "parse" /\ i' = i + 1 /\ call' = call /\ args' = args
      /\ UNCHANGED stream
  BY DEF Ask, SetArg, Switch, Onward, Meets
<1>4. fmt' = fmt  BY <1>3 DEF fmt
<1>5. \A t : Told(t, e) => Told(t, e)'
  BY <1>3, ToldRest DEF StreamIInv
<1>7. CASE AtAsk(e) /\ Ask
  <2>1. parse_mode' = "argument"  BY <1>7 DEF Ask, Switch
  <2>2. PICK t \in Seq(Char) :
          /\ Spells(t, args[1].n % Words, int_display_flag_to_base(fmt[i + 1]))
          /\ Told(Sign(fmt[i + 2], args[1].n) \o t, e)
    BY <1>7 DEF AtAsk, NumberAt
  <2>3. PICK s : s = Sign(fmt[i + 2], args[1].n) \o t  OBVIOUS
  <2>6. Told(s, e)'  BY <1>5, <2>2, <2>3
  <2>4. NumberAt(i + 1, fmt[i], e)'
    BY <1>2, <1>3, <1>4, <1>7, <2>2, <2>3, <2>6 DEF AtAsk, NumberAt, From, Told
  <2>5. AtFlag(e)'  BY <1>3, <1>4, <1>7, <2>1, <2>4 DEF AtAsk, AtFlag
  <2> QED  BY <2>5 DEF Place
<1>8. CASE AtFlag(e) /\ SetArg
  <2>1. parse_mode' = "format" /\ arg' = fmt[i]  BY <1>8 DEF SetArg
  <2>2. PICK t \in Seq(Char) :
          /\ Spells(t, args[1].n % Words, int_display_flag_to_base(fmt[i]))
          /\ Told(Sign(fmt[i + 1], args[1].n) \o t, e)
    BY <1>8 DEF AtFlag, NumberAt
  <2>3. PICK s : s = Sign(fmt[i + 1], args[1].n) \o t  OBVIOUS
  <2>6. Told(s, e)'  BY <1>5, <2>2, <2>3
  <2>4. NumberAt(i, arg, e)'
    BY <1>2, <1>3, <1>4, <1>8, <2>1, <2>2, <2>3, <2>6 DEF AtFlag, NumberAt, From, Told
  <2>5. AtNumber(e)'  BY <1>3, <2>1, <2>4 DEF AtNumber
  <2> QED  BY <2>5 DEF Place
<1> QED  BY <1>7, <1>8

(* A number: its sign is pushed, and its digits are to be made.            *)
LEMMA TakeNumber ==
  ASSUME StreamIInv, Clean, todo = <<>>, NEW e \in Regular, AtNumber(e), Number
  PROVE  \E f \in Regular : Place(f)'
<1>1. PICK c \in {"d", "u"} :
        /\ Directive(c)
        /\ c = "d" /\ args[1].n < 0 => push_to_buf("-")
        /\ ~(c = "d" /\ args[1].n < 0) => UNCHANGED stream
  BY DEF Number
<1>2. /\ Meets({c}) /\ fmt[i] = c /\ pc' = "digits" /\ i' = i + 1 /\ call' = call /\ args' = Tail(args)
      /\ arg' = NUL /\ parse_mode' = parse_mode
      /\ val' = args[1].n % Words /\ base' = int_display_flag_to_base(arg) /\ todo' = todo
  BY <1>1 DEF Number, Directive, Onward, Take, EndOfSpecifier, Meets
<1>3. fmt' = fmt  BY <1>2 DEF fmt
<1>4. i \in Nat /\ (i + 1) + 1 = i + 2  BY <1>2, ReadsOn
<1>5. StreamOK /\ e \in Call /\ "-" \in Char /\ <<>> \in Seq(Char)
  BY RegularIsCall, StreamConstants, EmptySeq DEF StreamIInv
<1> DEFINE n == args[1].n
<1>6. PICK t \in Seq(Char) : /\ Spells(t, n % Words, int_display_flag_to_base(arg))
                             /\ Told(Sign(c, n) \o t, e)
  BY <1>2 DEF AtNumber, NumberAt
<1>7. Told(t, e)' /\ Clean'
  <2>1. CASE c = "d" /\ n < 0
    <3>1. Told(<<"-">> \o t, e)  BY <1>6, <2>1 DEF Sign
    <3> QED  BY <1>1, <1>2, <1>5, <2>1, <3>1, ToldPush
  <2>2. CASE ~(c = "d" /\ n < 0)
    <3>1. Sign(c, n) \o t = t  BY <2>2, ConcatEmptySeq DEF Sign
    <3> QED  BY <1>1, <1>2, <1>5, <1>6, <2>2, <3>1, ToldRest
  <2> QED  BY <2>1, <2>2
<1>8. n % Words \in Nat
  <2>1. args[1] \in Argument  BY <1>1, DirectiveTakes
  <2>2. n \in Int /\ Words \in Nat \ {0}  BY <2>1, StreamConstants DEF Argument
  <2> HIDE DEF n
  <2> QED  BY <2>2
<1>9. \E read : Reading(read, t, n % Words, base')
  BY <1>2, <1>6, Zenon DEF Spells, Reading
<1>10. Behind(e)'
  BY <1>2, <1>3, <1>4 DEF AtNumber, NumberAt, Behind, From
<1>11. InDigits(e)'
  <2>1. PICK read : Reading(read, t, n % Words, base')  BY <1>9
  <2>2. Len(t) \in Nat /\ Len(t) \in 0 .. Len(t)  OBVIOUS
  <2>3. SubSeq(t, Len(t) + 1, Len(t)) = <<>>
    <3>1. Len(t) \in Int /\ Len(t) + 1 \in Int /\ Len(t) < Len(t) + 1  BY <2>2
    <3> QED  BY <3>1, SubSeqEmpty
  <2>4. val' = read[Len(t)]  BY <1>2, <2>1 DEF Reading
  <2>5. todo' = SubSeq(t, Len(t) + 1, Len(t))  BY <1>2, <2>3
  <2> HIDE DEF n
  <2> QED  BY <1>2, <1>7, <1>8, <1>10, <2>1, <2>2, <2>4, <2>5 DEF InDigits
<1> QED  BY <1>7, <1>11 DEF Place

(* A digit is what the division leaves.                                    *)
LEMMA DigitOf ==
  ASSUME NEW b \in {8, 10, 16}, NEW q \in Nat, NEW d \in 0 .. b - 1
  PROVE  (b * q + d) % b = d /\ (b * q + d) \div b = q
<1>1. CASE b = 8  BY <1>1
<1>2. CASE b = 10  BY <1>2
<1>3. CASE b = 16  BY <1>3
<1> QED  BY <1>1, <1>2, <1>3

LEMMA MakeDigits ==
  ASSUME StreamIInv, Clean, NEW e \in Regular, InDigits(e), Digit \/ EndOfDigits
  PROVE  \E f \in Regular : Place(f)'
<1>1. UNCHANGED <<stream, call, args, i, parse_mode, arg>>
  BY DEF Digit, EndOfDigits, parser
<1>2. fmt' = fmt  BY <1>1 DEF fmt
<1>3. Behind(e)'  BY <1>1, <1>2 DEF InDigits, Behind, From
<1>4. PICK t \in Seq(Char) : \E v \in Nat : \E read : \E k \in 0 .. Len(t) :
        /\ Reading(read, t, v, base) /\ Told(t, e)
        /\ val = read[k] /\ todo = SubSeq(t, k + 1, Len(t))
  BY DEF InDigits
<1>5. PICK v \in Nat : \E read : \E k \in 0 .. Len(t) :
        /\ Reading(read, t, v, base) /\ Told(t, e)
        /\ val = read[k] /\ todo = SubSeq(t, k + 1, Len(t))
  BY <1>4
<1>6. PICK read : \E k \in 0 .. Len(t) :
        /\ Reading(read, t, v, base) /\ Told(t, e)
        /\ val = read[k] /\ todo = SubSeq(t, k + 1, Len(t))
  BY <1>5
<1>7. PICK k \in 0 .. Len(t) :
        /\ Reading(read, t, v, base) /\ Told(t, e)
        /\ val = read[k] /\ todo = SubSeq(t, k + 1, Len(t))
  BY <1>6
<1>8. Told(t, e)' /\ Clean'  BY <1>1, <1>7, ToldRest DEF StreamIInv
<1>9. Len(t) \in Nat /\ k \in Nat /\ k <= Len(t)  OBVIOUS
<1>10. CASE Digit
  <2>1. /\ val # 0 /\ pc' = "digits" /\ pc = "digits" /\ base' = base
        /\ todo' = <<DigitChar[val % base]>> \o todo /\ val' = val \div base
    BY <1>10 DEF Digit
  <2>2. k # 0  BY <1>7, <2>1 DEF Reading
  <2>3. k \in 1 .. Len(t) /\ k - 1 \in 0 .. Len(t) /\ (k - 1) + 1 = k  BY <1>9, <2>2
  <2>4. PICK d \in 0 .. base - 1 : t[k] = DigitChar[d] /\ read[k] = base * read[k - 1] + d
    BY <1>7, <2>3 DEF Reading
  <2>5. read[k - 1] \in Nat /\ base \in {8, 10, 16}
    <3>1. read[k - 1] \in 0 .. v  BY <1>7, <2>3 DEF Reading
    <3> QED  BY <3>1 DEF StreamIInv, CallOK
  <2>6. val % base = d /\ val \div base = read[k - 1]
    <3>1. (base * read[k - 1] + d) % base = d /\ (base * read[k - 1] + d) \div base = read[k - 1]
      BY <2>4, <2>5, DigitOf, Zenon
    <3>2. val = base * read[k - 1] + d  BY <1>7, <2>4
    <3> QED  BY <3>1, <3>2, Zenon
  <2>7. val' = read[k - 1] /\ todo' = <<t[k]>> \o todo  BY <2>1, <2>4, <2>6
  <2>8. todo' = SubSeq(t, (k - 1) + 1, Len(t))
    <3>1. Len(t) \in k .. Len(t)  BY <1>9
    <3>2. SubSeq(t, k, Len(t)) = <<t[k]>> \o SubSeq(t, k + 1, Len(t))
      BY <2>3, <3>1, SubSeqRecursiveFirst
    <3> QED  BY <1>7, <2>3, <2>7, <3>2
  <2>9. InDigits(e)'
    <3>1. Reading(read, t, v, base')  BY <1>7, <2>1
    <3> HIDE DEF Reading
    <3> QED  BY <1>3, <1>8, <2>1, <2>3, <2>7, <2>8, <3>1 DEF InDigits
  <2> QED  BY <1>8, <2>9 DEF Place
<1>11. CASE EndOfDigits
  <2>1. val = 0 /\ pc' = "text" /\ todo' = todo  BY <1>11 DEF EndOfDigits
  <2>2. k = 0
    <3>1. k # 0 => k \in 1 .. Len(t)  BY <1>9
    <3>2. k # 0 => read[k] > 0  BY <1>7, <3>1 DEF Reading
    <3> QED  BY <1>7, <2>1, <3>2
  <2>3. todo' = t
    <3>1. todo = SubSeq(t, 1, Len(t))  BY <1>7, <2>2
    <3> QED  BY <2>1, <3>1, SubSeqFull
  <2>4. Told(todo, e)'  BY <1>8, <2>3 DEF Told
  <2>5. InText(e)'  BY <1>3, <2>1, <2>4 DEF InText
  <2> QED  BY <1>8, <2>5 DEF Place
<1> QED  BY <1>10, <1>11

LEMMA PushItsText ==
  ASSUME StreamIInv, Clean, NEW e \in Regular, InText(e), PushText \/ EndOfText
  PROVE  \E f \in Regular : Place(f)'
<1>1. UNCHANGED <<call, args, i, parse_mode, arg>>
  BY DEF PushText, EndOfText, parser
<1>2. fmt' = fmt  BY <1>1 DEF fmt
<1>3. Behind(e)'  BY <1>1, <1>2 DEF InText, Behind, From
<1>4. CASE PushText
  <2>1. todo # <<>> /\ pc' = "text" /\ push_to_buf(todo[1]) /\ todo' = IF Refused THEN <<>> ELSE Tail(todo)
    BY <1>4 DEF PushText, AfterPush
  <2>2. PICK c, t : c = todo[1] /\ t = Tail(todo)  OBVIOUS
  <2>3. todo \in Seq(Char) /\ StreamOK /\ e \in Call
    BY RegularIsCall DEF StreamIInv, CallOK
  <2>4. todo = <<c>> \o t /\ c \in Char /\ t \in Seq(Char)
    BY <2>1, <2>2, <2>3, HeadAndRest
  <2>5. Told(<<c>> \o t, e)  BY <2>4 DEF InText
  <2>6. Told(t, e)' /\ Clean' /\ (~spoiled' => ~Refused)
    BY <1>1, <2>1, <2>2, <2>3, <2>4, <2>5, ToldPush
  <2>7. Told(todo, e)'  BY <2>1, <2>2, <2>6 DEF Told
  <2>8. InText(e)'  BY <1>3, <2>1, <2>7 DEF InText
  <2> QED  BY <2>6, <2>8 DEF Place
<1>5. CASE EndOfText
  <2>1. todo = <<>> /\ pc' = "parse" /\ UNCHANGED stream  BY <1>5 DEF EndOfText, InText
  <2>2. Told(<<>>, e)' /\ Clean'
    BY <1>1, <2>1, ToldRest DEF StreamIInv, InText
  <2>3. Closing(e)'  BY <1>3, <2>1, <2>2 DEF Closing
  <2> QED  BY <2>2, <2>3 DEF Place
<1> QED  BY <1>4, <1>5

LEMMA ClosePiece ==
  ASSUME StreamIInv, Clean, NEW e \in Regular, Closing(e), Close
  PROVE  \E f \in Regular : Place(f)'
<1>1. /\ pc = "parse" /\ pc' = "parse" /\ i' = i + 1 /\ call' = call /\ args' = args /\ arg' = arg
      /\ parse_mode' = "normal" /\ UNCHANGED stream
  BY DEF Close, Switch, Onward, Meets
<1>2. fmt' = fmt  BY <1>1 DEF fmt
<1>3. Told(<<>>, e)' /\ Clean'  BY <1>1, ToldRest DEF StreamIInv, Closing
<1>4. Between(e)'  BY <1>1, <1>2, <1>3 DEF Between, Closing, Behind, From
<1> QED  BY <1>3, <1>4 DEF Place

(* What was refused is not forgotten.                                      *)
LEMMA StaysClean ==
  ASSUME StreamIInv, Clean, Run
  PROVE  Clean'
<1>1. StreamOK /\ Holds(buf, strlen(buf)) /\ buf_i \in Nat /\ buf_i <= strlen(buf)
  BY BufferSize DEF StreamIInv, StreamOK
<1>2. ASSUME UNCHANGED stream PROVE Clean'
  <2>1. UNCHANGED stale /\ UNCHANGED spoiled  BY <1>1, <1>2, Resting DEF stream
  <2> QED  BY <2>1 DEF Clean
<1>3. ASSUME NEW c \in Char, push_to_buf(c) PROVE Clean'
  BY <1>1, <1>3, Pushing
<1>4. CASE Return
  <2>1. Taken(queue, stale)  BY <1>1, <1>4, Printing DEF Return, queue, stale
  <2> QED  BY <2>1 DEF Taken, Clean
<1>5. CASE Escaped \/ Plain
  <2>1. fmt[i] \in Char /\ push_to_buf(fmt[i])
    BY <1>5, ReadsOn DEF Escaped, Plain, Meets
  <2> QED  BY <1>3, <2>1
<1>6. CASE Number
  BY <1>2, <1>3, <1>6, StreamConstants DEF Number
<1>7. CASE PushText
  <2>1. todo[1] \in Char
    BY <1>7, HeadAndRest DEF PushText, StreamIInv, CallOK
  <2> QED  BY <1>3, <1>7, <2>1 DEF PushText
<1>8. CASE Open \/ Close \/ Ask \/ SetArg \/ String \/ Digit \/ EndOfDigits \/ EndOfText
  BY <1>2, <1>8 DEF Open, Close, Ask, SetArg, Switch, String, Digit, EndOfDigits, EndOfText
<1> QED  BY <1>4, <1>5, <1>6, <1>7, <1>8 DEF Run

LEMMA BeginCall ==
  ASSUME StreamIInv, ReadOK, NEW c \in Calls, vfprintf(c)
  PROVE  ReadOK'
<1>1. /\ pc = "idle" /\ buf_i = 0 /\ i = 1 /\ parse_mode = "normal" /\ arg = NUL /\ todo = <<>>
      /\ pc' = "parse" /\ buf' = buf /\ buf_i' = buf_i /\ out' = <<>> /\ spoiled' = (buf # Empty)
      /\ call' = c /\ args' = c.args /\ UNCHANGED <<i, parse_mode, arg, todo>>
  BY DEF vfprintf, StreamIInv, CallOK, ReadOK, number
<1>2. queue' = <<>>  BY <1>1, EmptyChunk DEF queue
<1>3. Clean'
  <2>1. SUFFICES ASSUME ~spoiled' PROVE stale' = <<>>  BY DEF Clean
  <2>2. buf' = Empty  BY <1>1, <2>1
  <2>3. strlen(buf') = 0  BY <2>2, EmptyHolds, StrlenOfHolds
  <2>4. stale' = Chunk(buf', 0, 0)  BY <1>1, <2>3 DEF stale
  <2> QED  BY <2>4, EmptyChunk
<1>4. ASSUME c \in Regular PROVE Between(c)'
  <2>1. c.fmt \in Seq(Char) /\ c.means \in Seq(Char)  BY <1>4, RegularIsCall, CallFields
  <2>2. From(1)' = c.fmt
    <3>1. fmt' = c.fmt  BY <1>1 DEF fmt
    <3> QED  BY <2>1, <3>1, SubSeqFull DEF From
  <2>3. Printed' = <<>>
    <3>1. <<>> \in Seq(Char)  BY EmptySeq
    <3> QED  BY <1>1, <1>2, <3>1, ConcatEmptySeq DEF Printed
  <2>4. <<>> \o (<<>> \o c.means) = c.means  BY <2>1, ConcatEmptySeq
  <2>5. Told(<<>>, c)'  BY <1>1, <2>3, <2>4 DEF Told
  <2> QED  BY <1>1, <2>2, <2>5 DEF Between, From
<1> QED  BY <1>1, <1>3, <1>4 DEF ReadOK, Place

(* A text behind another one.                                              *)
LEMMA WithoutPrefix ==
  ASSUME NEW S, NEW a \in Seq(S), NEW t \in Seq(S)
  PROVE  SubSeq(a \o t, Len(a) + 1, Len(a \o t)) = t
<1>1. /\ a \o t \in Seq(S) /\ Len(a \o t) = Len(a) + Len(t) /\ Len(a) \in Nat /\ Len(t) \in Nat
      /\ \A k \in 1 .. Len(a) + Len(t) : (a \o t)[k] = IF k <= Len(a) THEN a[k] ELSE t[k - Len(a)]
  BY ConcatProperties, LenProperties
<1> DEFINE w == a \o t
           u == SubSeq(w, Len(a) + 1, Len(w))
<1>2. \A k \in Len(a) + 1 .. Len(w) : w[k] \in S  BY <1>1, ElementOfSeq
<1> HIDE DEF w
<1>3. /\ u \in Seq(S)
      /\ Len(u) = IF Len(a) + 1 <= Len(w) THEN Len(w) - (Len(a) + 1) + 1 ELSE 0
      /\ \A k \in 1 .. Len(w) - (Len(a) + 1) + 1 : u[k] = w[(Len(a) + 1) + k - 1]
  <2>1. Len(a) + 1 \in Int /\ Len(w) \in Int  BY <1>1 DEF w
  <2> QED  BY <1>2, <2>1, SubSeqProperties
<1> HIDE DEF u
<1>4. Len(u) = Len(t)  BY <1>1, <1>3 DEF w
<1>5. \A k \in 1 .. Len(t) : u[k] = t[k]
  <2> TAKE k \in 1 .. Len(t)
  <2>1. /\ k \in 1 .. Len(w) - (Len(a) + 1) + 1 /\ (Len(a) + 1) + k - 1 = Len(a) + k
        /\ Len(a) + k \in 1 .. Len(a) + Len(t) /\ ~(Len(a) + k <= Len(a)) /\ (Len(a) + k) - Len(a) = k
    BY <1>1 DEF w
  <2>2. u[k] = w[Len(a) + k]  BY <1>3, <2>1
  <2>3. w[Len(a) + k] = t[k]  BY <1>1, <2>1 DEF w
  <2> QED  BY <2>2, <2>3
<1>6. u = t  BY <1>3, <1>4, <1>5, SeqEqual
<1> QED  BY <1>6 DEF u, w

(* A number that is not zero, by its last digit and those before it.       *)
LEMMA Divided ==
  ASSUME NEW b \in {8, 10, 16}, NEW n \in Nat
  PROVE  \E q \in 0 .. n, d \in 0 .. b - 1 : n + 1 = b * q + d
<1> DEFINE q == (n + 1) \div b
           r == (n + 1) % b
<1>1. b \in Nat \ {0, 1} /\ n + 1 \in Nat  OBVIOUS
<1> HIDE DEF q, r
<1>2. q \in Nat /\ r \in 0 .. b - 1  BY <1>1 DEF q, r
<1>3. n + 1 = b * q + r  BY <1>1 DEF q, r
<1>4. q <= n
  <2>1. CASE b = 8  BY <1>2, <1>3, <2>1
  <2>2. CASE b = 10  BY <1>2, <1>3, <2>2
  <2>3. CASE b = 16  BY <1>2, <1>3, <2>3
  <2> QED  BY <2>1, <2>2, <2>3
<1> QED  BY <1>2, <1>3, <1>4

(* Every number is spelled in a base: the set of calls leaves none out.    *)
LEMMA NumbersAreSpelled ==
  ASSUME NEW b \in {8, 10, 16}, NEW v \in Nat
  PROVE  \E t \in Seq(Char) : Spells(t, v, b)
<1> DEFINE T == {n \in Nat : \A w \in 0 .. n : \E t \in Seq(Char) : Spells(t, w, b)}
<1>1. \E t \in Seq(Char) : Spells(t, 0, b)
  <2> DEFINE read == [k \in 0 .. 0 |-> 0]
  <2>1. <<>> \in Seq(Char) /\ Len(<<>>) = 0  BY EmptySeq
  <2>2. read \in [0 .. Len(<<>>) -> 0 .. 0] /\ read[0] = 0 /\ read[Len(<<>>)] = 0
    BY <2>1
  <2>3. 1 .. Len(<<>>) = {}  BY <2>1
  <2> HIDE DEF read
  <2>4. Spells(<<>>, 0, b)  BY <2>2, <2>3 DEF Spells
  <2> QED  BY <2>1, <2>4
<1>2. 0 \in T  BY <1>1
<1>3. ASSUME NEW n \in Nat, n \in T  PROVE \E t \in Seq(Char) : Spells(t, n + 1, b)
  <2>1. PICK q \in 0 .. n, d \in 0 .. b - 1 : n + 1 = b * q + d  BY Divided
  <2>2. PICK t \in Seq(Char) : Spells(t, q, b)  BY <1>3
  <2>3. PICK read \in [0 .. Len(t) -> 0 .. q] :
          /\ read[0] = 0 /\ read[Len(t)] = q
          /\ \A k \in 1 .. Len(t) :
               /\ read[k] > 0
               /\ \E e \in 0 .. b - 1 : t[k] = DigitChar[e] /\ read[k] = b * read[k - 1] + e
    BY <2>2 DEF Spells
  <2>4. DigitChar[d] \in Char
    <3>1. d \in 0 .. 15  BY <2>1
    <3> QED  BY <3>1, StreamConstants
  <2>5. PICK u : u = Append(t, DigitChar[d])  OBVIOUS
  <2>6. /\ u \in Seq(Char) /\ Len(u) = Len(t) + 1 /\ Len(t) \in Nat /\ u[Len(t) + 1] = DigitChar[d]
        /\ \A k \in 1 .. Len(t) : u[k] = t[k]
    BY <2>4, <2>5, AppendProperties
  <2> DEFINE longer == [k \in 0 .. Len(u) |-> IF k = Len(u) THEN n + 1 ELSE read[k]]
  <2>7. longer \in [0 .. Len(u) -> 0 .. n + 1]
    <3>1. ASSUME NEW k \in 0 .. Len(u), k # Len(u) PROVE read[k] \in 0 .. n + 1
      <4>1. k \in 0 .. Len(t)  BY <2>6, <3>1
      <4>2. read[k] \in 0 .. q  BY <2>3, <4>1
      <4> QED  BY <4>2
    <3> QED  BY <3>1
  <2>8. longer[0] = 0 /\ longer[Len(u)] = n + 1
    <3>1. 0 \in 0 .. Len(u) /\ 0 # Len(u) /\ Len(u) \in 0 .. Len(u)  BY <2>6
    <3> QED  BY <2>3, <3>1
  <2>9. ASSUME NEW k \in 1 .. Len(u)
        PROVE  /\ longer[k] > 0
               /\ \E e \in 0 .. b - 1 : u[k] = DigitChar[e] /\ longer[k] = b * longer[k - 1] + e
    <3>1. CASE k = Len(u)
      <4>1. longer[k] = n + 1 /\ k - 1 = Len(t) /\ k - 1 \in 0 .. Len(u) /\ k - 1 # Len(u)
        BY <2>6, <2>8, <3>1
      <4>2. longer[k - 1] = q  BY <2>3, <4>1
      <4>3. u[k] = DigitChar[d]  BY <2>6, <3>1
      <4> HIDE DEF longer
      <4> QED  BY <2>1, <4>1, <4>2, <4>3
    <3>2. CASE k # Len(u)
      <4>1. /\ k \in 1 .. Len(t) /\ k \in 0 .. Len(u) /\ k - 1 \in 0 .. Len(u) /\ k - 1 # Len(u)
        BY <2>6, <3>2
      <4>2. longer[k] = read[k] /\ longer[k - 1] = read[k - 1] /\ u[k] = t[k]
        BY <2>6, <3>2, <4>1
      <4> HIDE DEF longer
      <4> QED  BY <2>3, <4>1, <4>2
    <3> QED  BY <3>1, <3>2
  <2> HIDE DEF longer
  <2>10. Spells(u, n + 1, b)  BY <2>7, <2>8, <2>9 DEF Spells
  <2> QED  BY <2>6, <2>10
<1>4. \A n \in Nat : n \in T => n + 1 \in T
  <2> SUFFICES ASSUME NEW n \in Nat, n \in T PROVE n + 1 \in T  OBVIOUS
  <2>1. ASSUME NEW w \in 0 .. n + 1 PROVE \E t \in Seq(Char) : Spells(t, w, b)
    <3>1. CASE w \in 0 .. n  BY <3>1
    <3>2. CASE w = n + 1  BY <1>3, <3>2
    <3> QED  BY <3>1, <3>2
  <2>2. n + 1 \in Nat  OBVIOUS
  <2> QED  BY <2>1, <2>2
<1>5. v \in T
  <2> HIDE DEF T
  <2> QED  BY <1>2, <1>4, InductionOn
<1> QED  BY <1>5

(* Every number can be asked for in a base, as a signed or unsigned one,   *)
(* and a piece may stand before every regular call: the set of calls of    *)
(* CallsPrintTheirMeaning is closed and misses no number.                  *)
THEOREM RegularCalls ==
  /\ NoCall \in Regular
  /\ \A p \in Call, c \in Regular : IsPiece(p) => Join(p, c) \in Regular
  /\ \A n \in Int, kind \in {"d", "u"}, b \in {8, 10, 16} :
       \E p \in Call : IsNumber(p) /\ p.args[1].n = n /\ InBase(p, kind, b)
<1> DEFINE All == {p \in Call : IsPiece(p)}
<1>1. NoCall \in Regular
  <2>1. NoCall \in Call
    <3>1. <<>> \in Seq(Char) /\ <<>> \in Seq(Argument)  BY EmptySeq
    <3> QED  BY <3>1 DEF NoCall, Call
  <2>2. {NoCall} \in SUBSET Call /\ BuiltOf(All, {NoCall})  BY <2>1 DEF BuiltOf
  <2> QED  BY <2>2 DEF Regular
<1>2. ASSUME NEW p \in Call, NEW c \in Regular, IsPiece(p)  PROVE Join(p, c) \in Regular
  <2>1. PICK calls \in SUBSET Call : BuiltOf(All, calls) /\ c \in calls
    BY <1>2 DEF Regular
  <2> DEFINE more == calls \cup {Join(p, c)}
  <2>2. Join(p, c) \in Call
    <3>1. c \in Call  BY <2>1
    <3>2. /\ p.fmt \o c.fmt \in Seq(Char) /\ p.args \o c.args \in Seq(Argument)
          /\ p.means \o c.means \in Seq(Char)
      BY <3>1, CallFields, ConcatProperties
    <3> QED  BY <3>2 DEF Join, Call
  <2>3. BuiltOf(All, more)
    <3>1. ASSUME NEW e \in more, e # NoCall  PROVE \E q \in All, rest \in more : e = Join(q, rest)
      <4>1. CASE e \in calls  BY <2>1, <3>1, <4>1 DEF BuiltOf
      <4>2. CASE e = Join(p, c)  BY <1>2, <2>1, <4>2
      <4> QED  BY <4>1, <4>2
    <3> HIDE DEF more, All
    <3> QED  BY <3>1 DEF BuiltOf
  <2>4. more \in SUBSET Call /\ Join(p, c) \in more  BY <2>1, <2>2
  <2> HIDE DEF more
  <2> QED  BY <2>3, <2>4 DEF Regular
<1>3. ASSUME NEW n \in Int, NEW kind \in {"d", "u"}, NEW b \in {8, 10, 16}
      PROVE  \E p \in Call : IsNumber(p) /\ p.args[1].n = n /\ InBase(p, kind, b)
  <2>1. n % Words \in Nat  BY StreamConstants
  <2>2. PICK t \in Seq(Char) : Spells(t, n % Words, b)  BY <2>1, NumbersAreSpelled
  <2>3. Sign(kind, n) \in Seq(Char) /\ Sign(kind, n) \o t \in Seq(Char)
    <3>1. "-" \in Char  BY StreamConstants
    <3>2. Sign(kind, n) \in Seq(Char)  BY <3>1 DEF Sign
    <3> QED  BY <3>2, ConcatProperties
  <2>4. SubSeq(Sign(kind, n) \o t, Len(Sign(kind, n)) + 1, Len(Sign(kind, n) \o t)) = t
    BY <2>3, WithoutPrefix
  <2>5. PICK f \in Seq(Char) :
          \/ f = <<LeftBrace, kind, RightBrace>> /\ b = 10
          \/ f = <<LeftBrace, "?", "x", kind, RightBrace>> /\ b = 16
          \/ f = <<LeftBrace, "?", "o", kind, RightBrace>> /\ b = 8
    <3>1. {LeftBrace, RightBrace, "?", "x", "o", kind} \subseteq Char  BY StreamConstants
    <3>2. <<LeftBrace, kind, RightBrace>> \in Seq(Char)  BY <3>1
    <3>3. <<LeftBrace, "?", "x", kind, RightBrace>> \in Seq(Char)  BY <3>1
    <3>4. <<LeftBrace, "?", "o", kind, RightBrace>> \in Seq(Char)  BY <3>1
    <3>5. b = 10 \/ b = 16 \/ b = 8  OBVIOUS
    <3> QED  BY <3>2, <3>3, <3>4, <3>5
  <2> DEFINE p == [fmt |-> f, args |-> <<[n |-> n, text |-> <<>>]>>, means |-> Sign(kind, n) \o t]
  <2>6. p \in Call
    <3>1. <<[n |-> n, text |-> <<>>]>> \in Seq(Argument)
      <4>1. [n |-> n, text |-> <<>>] \in Argument  BY EmptySeq DEF Argument
      <4> QED  BY <4>1
    <3> QED  BY <2>3, <3>1 DEF Call
  <2>7. p.fmt = f /\ Len(p.args) = 1 /\ p.args[1].n = n /\ p.means = Sign(kind, n) \o t
    OBVIOUS
  <2> HIDE DEF p
  <2>8. InBase(p, kind, b)  BY <2>5, <2>7 DEF InBase
  <2>9. IsNumber(p)  BY <2>2, <2>4, <2>7, <2>8, Zenon DEF IsNumber
  <2> QED  BY <2>6, <2>7, <2>8, <2>9
<1> QED  BY <1>1, <1>2, <1>3

(* The parser goes from place to place until it returns.                   *)
LEMMA NextPlace ==
  ASSUME StreamIInv, ReadOK, Run, ~Return, NEW e \in Regular, Place(e)
  PROVE  \E f \in Regular : Place(f)'
<1>1. Clean  BY DEF ReadOK
<1>2. CASE Between(e)
  <2>1. Open \/ Plain  BY <1>2, Possible DEF Between
  <2> QED  BY <1>1, <1>2, <2>1, OpenPiece
<1>3. CASE AtBrace(e)
  <2>1. Escaped  BY <1>3, Possible, Braces DEF AtBrace, Special
  <2> QED  BY <1>1, <1>3, <2>1, EscapeBrace
<1>4. CASE AtText(e)
  <2>1. String  BY <1>4, Possible, Braces DEF AtText, Special
  <2> QED  BY <1>1, <1>4, <2>1, TakeText
<1>5. CASE AtNumber(e)
  <2>1. Number  BY <1>5, Possible, Braces DEF AtNumber, NumberAt, Special
  <2>2. todo = <<>>  BY <1>5 DEF ReadOK, AtNumber
  <2> QED  BY <1>1, <1>5, <2>1, <2>2, TakeNumber
<1>6. CASE AtFlag(e)
  <2>1. ~Escaped /\ ~Plain
    BY <1>6 DEF AtFlag, Special, Escaped, Plain, Meets
  <2>2. SetArg  BY <1>6, <2>1, Possible DEF AtFlag
  <2> QED  BY <1>1, <1>6, <2>2, TakeBase
<1>7. CASE AtAsk(e)
  <2>1. Ask  BY <1>7, Possible, Braces DEF AtAsk, Special
  <2>2. (AtAsk(e) /\ Ask) \/ (AtFlag(e) /\ SetArg)  BY <1>7, <2>1
  <2> QED  BY <1>1, <2>2, TakeBase
<1>8. CASE InDigits(e)
  <2>1. Digit \/ EndOfDigits  BY <1>8, Possible DEF InDigits
  <2> QED  BY <1>1, <1>8, <2>1, MakeDigits
<1>9. CASE InText(e)
  <2>1. PushText \/ EndOfText  BY <1>9, Possible DEF InText
  <2> QED  BY <1>1, <1>9, <2>1, PushItsText
<1>10. CASE Closing(e)
  <2>1. Close  BY <1>10, Possible, Braces DEF Closing, Behind, Special
  <2> QED  BY <1>1, <1>10, <2>1, ClosePiece
<1> QED  BY <1>2, <1>3, <1>4, <1>5, <1>6, <1>7, <1>8, <1>9, <1>10 DEF Place

LEMMA ReadStep == StreamIInv /\ ReadOK /\ [Next]_vars => ReadOK'
<1> SUFFICES ASSUME StreamIInv, ReadOK, [Next]_vars PROVE ReadOK'  OBVIOUS
<1>1. CASE Run
  <2>1. Clean'  BY <1>1, StaysClean DEF ReadOK
  <2>2. pc # "idle"
    BY <1>1 DEF Run, Open, Close, Ask, SetArg, Escaped, Plain, Number, String, Digit,
          EndOfDigits, PushText, EndOfText, Return, Meets, Directive
  <2>3. pc' \in {"idle", "parse"} => todo' = <<>>
    BY <1>1 DEF Run, ReadOK, Open, Close, Ask, SetArg, Escaped, Plain, Number, String, Digit,
          EndOfDigits, PushText, EndOfText, Return, Meets, Directive, Switch, number
  <2>4. pc' = "idle" => Return
    BY <1>1, <2>2 DEF Run, Open, Close, Ask, SetArg, Escaped, Plain, Number, String, Digit,
          EndOfDigits, PushText, EndOfText, Switch, Meets, Directive
  <2>5. Return => pc' = "idle" /\ parse_mode' = "normal" /\ arg' = NUL  BY DEF Return
  <2>6. ASSUME ~Return PROVE call' = call
    BY <1>1, <2>6 DEF Run, Open, Close, Ask, SetArg, Escaped, Plain, Number, String, Digit,
          EndOfDigits, PushText, EndOfText, Switch, Onward, Directive, parser
  <2>7. ASSUME ~Return, call' \in Regular PROVE \E f \in Regular : Place(f)'
    <3>1. call \in Regular  BY <2>6, <2>7
    <3>2. PICK e \in Regular : Place(e)  BY <2>2, <3>1 DEF ReadOK
    <3> QED  BY <1>1, <2>7, <3>2, NextPlace
  <2> QED  BY <2>1, <2>3, <2>4, <2>5, <2>7 DEF ReadOK
<1>2. CASE \E c \in Calls : vfprintf(c)  BY <1>2, BeginCall
<1>3. CASE UNCHANGED vars
  <2>1. UNCHANGED <<pc, stream, call, args, i, parse_mode, arg, val, base, todo>>
    BY <1>3 DEF vars, parser, number
  <2>2. UNCHANGED <<queue, stale, out, spoiled>>
    BY <2>1, Resting DEF StreamIInv, stream
  <2>3. ASSUME NEW e, Place(e) PROVE Place(e)'
    <3>1. CASE Between(e)  BY <2>1, <2>2, <3>1 DEF Place, Between, Told, From, fmt, Printed
    <3>2. CASE AtBrace(e)  BY <2>1, <2>2, <3>2 DEF Place, AtBrace, Told, From, fmt, Printed
    <3>3. CASE AtText(e)  BY <2>1, <2>2, <3>3 DEF Place, AtText, Told, From, fmt, Printed
    <3>4. CASE AtNumber(e)
      BY <2>1, <2>2, <3>4 DEF Place, AtNumber, NumberAt, Told, From, fmt, Printed
    <3>5. CASE AtFlag(e)
      BY <2>1, <2>2, <3>5 DEF Place, AtFlag, NumberAt, Told, From, fmt, Printed
    <3>6. CASE AtAsk(e)
      BY <2>1, <2>2, <3>6 DEF Place, AtAsk, NumberAt, Told, From, fmt, Printed
    <3>7. CASE InDigits(e)
      BY <2>1, <2>2, <3>7 DEF Place, InDigits, Behind, Told, From, fmt, Printed
    <3>8. CASE InText(e)
      BY <2>1, <2>2, <3>8 DEF Place, InText, Behind, Told, From, fmt, Printed
    <3>9. CASE Closing(e)
      BY <2>1, <2>2, <3>9 DEF Place, Closing, Behind, Told, From, fmt, Printed
    <3> QED
      BY <2>3, <3>1, <3>2, <3>3, <3>4, <3>5, <3>6, <3>7, <3>8, <3>9 DEF Place
  <2> QED  BY <2>1, <2>2, <2>3 DEF ReadOK, Clean
<1> QED  BY <1>1, <1>2, <1>3 DEF Next

(* Where the format ends, nothing is left of the call.                     *)
LEMMA NothingLeft ==
  ASSUME StreamIInv, NEW e \in Regular, Place(e), pc = "parse", i = Len(fmt) + 1, ~spoiled
  PROVE  Printed = call.means
<1>1. fmt \in Seq(Char) /\ Len(fmt) \in Nat  BY DEF StreamIInv, CallOK, Call, fmt
<1>2. Between(e)
  BY <1>1 DEF Place, AtBrace, AtText, AtNumber, AtFlag, AtAsk, NumberAt, InDigits, InText,
              Closing, Behind
<1>3. e.fmt = <<>>
  <2>1. Len(fmt) + 1 \in Int /\ Len(fmt) \in Int /\ Len(fmt) < Len(fmt) + 1  BY <1>1
  <2>2. From(i) = <<>>  BY <2>1, SubSeqEmpty DEF From
  <2> QED  BY <1>2, <2>2 DEF Between
<1>4. e = NoCall
  <2>1. SUFFICES ASSUME NEW p \in Call, NEW f \in Regular, IsPiece(p), e = Join(p, f) PROVE FALSE
    BY RegularCases
  <2>2. p.fmt \in Seq(Char) /\ f.fmt \in Seq(Char)  BY RegularIsCall, CallFields
  <2>3. p.fmt = <<>>
    <3>1. p.fmt \o f.fmt = <<>>  BY <1>3, <2>1 DEF Join
    <3> QED  BY <2>2, <3>1, ConcatEqualIffEmpty
  <2>4. Len(p.fmt) # 0
    <3>1. CASE IsPlain(p)
      <4>1. PICK c \in Char : p = [fmt |-> <<c>>, args |-> <<>>, means |-> <<c>>]
        BY <3>1, Zenon DEF IsPlain
      <4>2. p.fmt = <<c>>  BY <4>1, Zenon
      <4> QED  BY <4>2, Tuples
    <3>2. CASE IsBrace(p)
      <4>1. p.fmt = <<LeftBrace, LeftBrace>>  BY <3>2 DEF IsBrace
      <4> QED  BY <4>1, Tuples
    <3>3. CASE IsText(p)
      <4>1. p.fmt = <<LeftBrace, "s", RightBrace>>  BY <3>3 DEF IsText
      <4> QED  BY <4>1, Tuples
    <3>4. CASE IsNumber(p)
      <4>1. PICK kind \in {"d", "u"}, flag \in Char \cup {NUL} :
              p.fmt = <<LeftBrace, kind, RightBrace>> \/ p.fmt = <<LeftBrace, "?", flag, kind, RightBrace>>
        BY <3>4, NumberPiece, Zenon
      <4>2. CASE p.fmt = <<LeftBrace, kind, RightBrace>>  BY <4>2, Tuples
      <4>3. CASE p.fmt = <<LeftBrace, "?", flag, kind, RightBrace>>  BY <4>3, Tuples
      <4> QED  BY <4>1, <4>2, <4>3
    <3> QED  BY <2>1, <3>1, <3>2, <3>3, <3>4 DEF IsPiece
  <2> QED  BY <2>2, <2>3, <2>4, EmptySeq
<1>5. Printed \in Seq(Char) /\ <<>> \in Seq(Char)
  BY Parts, ConcatProperties, EmptySeq DEF StreamIInv, StreamOK, Printed
<1>6. <<>> \o e.means = <<>> /\ Printed \o <<>> = Printed
  <2>1. e.means = <<>>  BY <1>4 DEF NoCall
  <2> QED  BY <1>5, <2>1, ConcatEmptySeq
<1> QED  BY <1>2, <1>6 DEF Between, Told

(* PrintsWhatIsMeant: a call whose format is made of texts, escaped braces *)
(* and the documented directives {s}, {d}, {u}, {?xd}, ... prints, if the  *)
(* writer takes all of it, each piece as it is meant: vfprintf(),          *)
(* push_int_to_buf(), push_all_to_buf() and push_to_buf() together.        *)
THEOREM CallsPrintTheirMeaning == Spec => [](call \in Regular => PrintsWhatIsMeant)
<1>1. Init => StreamIInv /\ ReadOK
  <2> SUFFICES ASSUME Init PROVE StreamIInv /\ ReadOK  OBVIOUS
  <2>1. strlen(buf) = 0  BY EmptyHolds, StrlenOfHolds DEF Init
  <2>2. stale = <<>>  BY <2>1, EmptyChunk DEF Init, stale
  <2> QED  BY <2>2, InitStream DEF Init, ReadOK, Clean
<1>2. StreamIInv /\ ReadOK /\ [Next]_vars => StreamIInv' /\ ReadOK'
  BY StreamStep, ReadStep
<1>3. StreamIInv /\ ReadOK => (call \in Regular => PrintsWhatIsMeant)
  <2> SUFFICES ASSUME StreamIInv, ReadOK, call \in Regular,
                      pc = "parse", i = Len(fmt) + 1, ~spoiled
               PROVE  out \o queue = call.means
    BY DEF PrintsWhatIsMeant
  <2>1. PICK e \in Regular : Place(e)  BY DEF ReadOK
  <2> QED  BY <2>1, NothingLeft DEF Printed
<1> QED  BY <1>1, <1>2, <1>3, PTL DEF Spec
=============================================================================
