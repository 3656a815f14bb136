--------------------------- MODULE DmaCopyProofs ---------------------------
(***************************************************************************)
(* For every page size, address and length, and any number of copies: the  *)
(* loop over the pages stays inside the array of pinned pages, and every   *)
(* piece lies within one page, at the place of its user address; the       *)
(* pieces are the bytes of the copy, each once; a copy that returns has    *)
(* put in place what it says; written pages are dirty before they are      *)
(* released, but by the Cache driver; and the references to the pages      *)
(* balance, but for what stale entries of the array release.               *)
(***************************************************************************)
EXTENDS DmaCopy, FiniteSetTheorems, TLAPS

\* The array of a request whose pages are all pinned.
Pinned(r) == [i \in 1..nr_pages(r) |-> PageOf(r.base) + i - 1]

\* What the proofs need of the types.
Pieces == [copy : Nat, len : Int, at : Int, page : Int, offset : Int, write : BOOLEAN]
TypeInv ==
  /\ req \in Request /\ copies \in Nat
  /\ queue \in Seq(Pieces)
  /\ \A i \in DOMAIN queue : queue[i].copy <= copies

\* The loop is at the user address that is as far from the first as the bytes
\* given to the channel, and there are bytes to go.
LoopInv ==
  /\ req.via # "uaccess" => ~req.kernel_ds
  /\ pc = "channel" => req.len > 0
  /\ pc = "channel" /\ req.via # "uaccess" => pages = Pinned(req)
  /\ pc = "pin" /\ req.via = "uaccess" => req.len > 0
  /\ pc = "submit" => tmp_len \in 1..req.len /\ byte_offset \in 0..(PAGE_SIZE - 1)
  /\ pc = "submit" /\ ~req.kernel_ds =>
       /\ pages = Pinned(req) /\ page_index \in Nat
       /\ page_index * PAGE_SIZE + byte_offset = (req.base % PAGE_SIZE) + Sent

\* A piece lies within its page, at the place of its user address.
Placed(d) ==
  /\ d.offset + d.len <= PAGE_SIZE
  /\ (d.page - 1) * PAGE_SIZE + d.offset = req.base + d.at
PlacedInv ==
  ~req.kernel_ds => \A i \in DOMAIN queue : queue[i].copy = copies => Placed(queue[i])

IInv == TypeInv /\ LoopInv /\ PlacedInv

\* No more is issued than there is.
IssuedInv == issued \in 0..Len(queue)

-----------------------------------------------------------------------------
(* Pages and addresses.                                                    *)

\* An address is the start of its page and an offset below the page size.
LEMMA DivMod ==
  ASSUME NEW a \in Nat
  PROVE  /\ a \div PAGE_SIZE \in Nat /\ a % PAGE_SIZE \in 0..(PAGE_SIZE - 1)
         /\ a = (a \div PAGE_SIZE) * PAGE_SIZE + (a % PAGE_SIZE)
  <1>1. a % PAGE_SIZE \in 0..(PAGE_SIZE - 1)
    BY SizesAssumption
  <1>2. a \div PAGE_SIZE \in Nat
    BY SizesAssumption
  <1>3. a = (a \div PAGE_SIZE) * PAGE_SIZE + (a % PAGE_SIZE)
    BY SizesAssumption
  <1> QED BY <1>1, <1>2, <1>3

\* A multiple of the page size divides by it.
LEMMA DivMultiple ==
  ASSUME NEW n \in Int
  PROVE  (n * PAGE_SIZE) \div PAGE_SIZE = n
  BY SizesAssumption

\* Multiples of the page size compare as their factors do.
LEMMA MultipleLess ==
  ASSUME NEW m \in Int, NEW n \in Int, m * PAGE_SIZE < n * PAGE_SIZE
  PROVE  m < n
  BY SizesAssumption

\* nr_pages counts the pages from the first to the last byte of the request.
LEMMA NrPages ==
  ASSUME NEW r \in Request
  PROVE  /\ nr_pages(r) \in Int
         /\ nr_pages(r) * PAGE_SIZE >= (r.base % PAGE_SIZE) + r.len
  <1> DEFINE q == (r.base + r.len + PAGE_SIZE - 1) \div PAGE_SIZE
             f == r.base \div PAGE_SIZE
  <1>1. r.base \in Nat /\ r.len \in Nat
    BY SizesAssumption DEF Request
  <1>2. /\ f \in Nat /\ r.base % PAGE_SIZE \in Int
        /\ r.base = f * PAGE_SIZE + (r.base % PAGE_SIZE)
    BY <1>1, DivMod
  <1>3. q \in Nat /\ q * PAGE_SIZE >= r.base + r.len
    <2> DEFINE a == r.base + r.len + PAGE_SIZE - 1
    <2>1. a \in Nat
      <3>1. PAGE_SIZE - 1 \in Nat
        BY SizesAssumption
      <3> QED BY <3>1, <1>1
    <2>2. q = a \div PAGE_SIZE
      OBVIOUS
    <2>3. a = r.base + r.len + PAGE_SIZE - 1
      OBVIOUS
    <2> HIDE DEF a, q
    <2>4. /\ q \in Nat /\ a % PAGE_SIZE \in 0..(PAGE_SIZE - 1)
          /\ a = q * PAGE_SIZE + (a % PAGE_SIZE)
      BY <2>1, <2>2, DivMod
    <2>5. q * PAGE_SIZE \in Int
      BY <2>4, SizesAssumption
    <2> QED BY <2>3, <2>4, <2>5, <1>1, SizesAssumption
  <1> HIDE DEF q, f
  <1>4. nr_pages(r) = (q * PAGE_SIZE - f * PAGE_SIZE) \div PAGE_SIZE
    <2>1. f * PAGE_SIZE \in Int
      BY <1>2, SizesAssumption
    <2>2. r.base - (r.base % PAGE_SIZE) = f * PAGE_SIZE
      BY <2>1, <1>1, <1>2
    <2> QED BY <2>2 DEF nr_pages, PAGE_ALIGN, q
  <1>5. q * PAGE_SIZE - f * PAGE_SIZE = (q - f) * PAGE_SIZE
    BY <1>2, <1>3, SizesAssumption
  <1>6. nr_pages(r) = q - f
    BY <1>2, <1>3, <1>4, <1>5, DivMultiple
  <1>7. q * PAGE_SIZE \in Int /\ f * PAGE_SIZE \in Int
    BY <1>2, <1>3, SizesAssumption
  <1>8. q * PAGE_SIZE - f * PAGE_SIZE >= (r.base % PAGE_SIZE) + r.len
    BY <1>1, <1>2, <1>3, <1>7
  <1> QED BY <1>2, <1>3, <1>5, <1>6, <1>8

\* The minimum of two numbers.
LEMMA MinPair ==
  ASSUME NEW a \in Int, NEW b \in Int
  PROVE  Min({a, b}) = IF a <= b THEN a ELSE b
  <1> DEFINE m == IF a <= b THEN a ELSE b
  <1>1. m \in {a, b} /\ \A y \in {a, b} : m <= y
    OBVIOUS
  <1>2. \A x \in {a, b} : (\A y \in {a, b} : x <= y) => x = m
    OBVIOUS
  <1> HIDE DEF m
  <1>3. (CHOOSE x \in {a, b} : \A y \in {a, b} : x <= y) = m
    BY <1>1, <1>2
  <1> QED BY <1>3 DEF Min, m

-----------------------------------------------------------------------------
(* The invariant.                                                          *)

\* The parts of a request.
LEMMA RequestTypes ==
  ASSUME NEW r \in Request
  PROVE  r.base \in Nat /\ r.len \in Nat /\ r.kernel_ds \in BOOLEAN
  BY SizesAssumption DEF Request

\* The pieces in a queue belong to a copy.
LEMMA PieceTypes ==
  ASSUME NEW q \in Seq(Pieces), NEW i \in DOMAIN q
  PROVE  q[i].copy \in Nat
  <1>1. q[i] \in Pieces
    OBVIOUS
  <1> QED BY <1>1 DEF Pieces

\* The loop stays inside the array.
LEMMA InArray ==
  ASSUME IInv, pc = "submit", ~req.kernel_ds
  PROVE  page_index < nr_pages(req) /\ page_index + 1 \in DOMAIN pages
  <1>1. req.base \in Nat /\ req.len \in Nat
    BY RequestTypes DEF IInv, TypeInv
  <1>2. /\ nr_pages(req) \in Int
        /\ nr_pages(req) * PAGE_SIZE >= (req.base % PAGE_SIZE) + req.len
    BY NrPages DEF IInv, TypeInv
  <1>3. /\ pages = Pinned(req) /\ page_index \in Nat /\ byte_offset \in 0..(PAGE_SIZE - 1)
        /\ page_index * PAGE_SIZE + byte_offset = (req.base % PAGE_SIZE) + Sent
        /\ tmp_len \in 1..req.len
    BY DEF IInv, LoopInv
  <1>4. /\ page_index * PAGE_SIZE \in Int /\ nr_pages(req) * PAGE_SIZE \in Int
        /\ req.base % PAGE_SIZE \in Int
    BY <1>1, <1>2, <1>3, SizesAssumption, DivMod
  <1>5. page_index * PAGE_SIZE < nr_pages(req) * PAGE_SIZE
    BY <1>1, <1>2, <1>3, <1>4 DEF Sent
  <1>6. page_index < nr_pages(req)
    BY <1>2, <1>3, <1>5, MultipleLess
  <1> QED BY <1>2, <1>3, <1>6 DEF Pinned

\* Steps that leave the request, the loop and the queue alone.
LEMMA QuietStep ==
  ASSUME IInv, UNCHANGED <<req, copies, queue>>,
         \/ pc' \in {"wait", "poll", "unpin", "return", "idle"}
         \/ pc' = pc /\ UNCHANGED <<pages, loop>>
         \/ pc = "channel" /\ pc' = "pin"
  PROVE  IInv'
  <1>1. TypeInv'
    BY DEF IInv, TypeInv
  <1>2. PlacedInv'
    BY DEF IInv, PlacedInv, Placed
  <1>3. LoopInv'
    BY DEF IInv, LoopInv, loop, Sent
  <1> QED BY <1>1, <1>2, <1>3 DEF IInv

\* Steps that enter the loop.
LEMMA StartStep ==
  ASSUME IInv, UNCHANGED <<req, copies, queue>>, pc' = "submit", StartLoop,
         req.len > 0, ~req.kernel_ds => pages' = Pinned(req)
  PROVE  IInv'
  <1>1. TypeInv'
    BY DEF IInv, TypeInv
  <1>2. PlacedInv'
    BY DEF IInv, PlacedInv, Placed
  <1>3. LoopInv'
    <2>1. req.base \in Nat /\ req.len \in Nat
      BY RequestTypes DEF IInv, TypeInv
    <2>2. req.base % PAGE_SIZE \in 0..(PAGE_SIZE - 1)
      BY <2>1, DivMod
    <2>3. 0 * PAGE_SIZE = 0
      BY SizesAssumption
    <2>4. page_index' * PAGE_SIZE + byte_offset' = (req.base % PAGE_SIZE) + Sent'
      BY <2>1, <2>2, <2>3 DEF StartLoop, Sent
    <2>5. tmp_len' \in 1..req.len /\ page_index' \in Nat /\ byte_offset' \in 0..(PAGE_SIZE - 1)
      BY <2>1, <2>2 DEF StartLoop
    <2>6. req.via # "uaccess" => ~req.kernel_ds
      BY DEF IInv, LoopInv
    <2>7. pages' = Pinned(req) => pages' = Pinned(req')
      OBVIOUS
    <2> QED BY <2>4, <2>5, <2>6, <2>7 DEF LoopInv
  <1> QED BY <1>1, <1>2, <1>3 DEF IInv

\* A new request has no piece in the queue yet.
LEMMA RequestStep ==
  ASSUME IInv, NEW r \in Request, init_req_copy(r)
  PROVE  IInv'
  <1>1. /\ req' = r /\ copies' = copies + 1 /\ queue' = queue
        /\ pc' = IF r.via # "uaccess" THEN "pin" ELSE IF r.len > 0 THEN "channel" ELSE "return"
        /\ r.kernel_ds => r.via = "uaccess"
    BY DEF init_req_copy, chan
  <1>2. TypeInv' /\ \A i \in DOMAIN queue' : queue'[i].copy # copies'
    <2>1. /\ copies \in Nat /\ queue \in Seq(Pieces)
          /\ \A i \in DOMAIN queue : queue[i].copy <= copies
      BY DEF IInv, TypeInv
    <2>2. \A i \in DOMAIN queue : queue[i].copy \in Nat
      BY <2>1, PieceTypes
    <2>3. \A i \in DOMAIN queue : queue[i].copy <= copies + 1 /\ queue[i].copy # copies + 1
      BY <2>1, <2>2
    <2> QED BY <2>1, <2>3, <1>1 DEF TypeInv
  <1>3. PlacedInv'
    BY <1>2 DEF PlacedInv
  <1>4. LoopInv'
    BY <1>1 DEF LoopInv
  <1> QED BY <1>2, <1>3, <1>4 DEF IInv

\* The pages of the request are pinned, or need not be.
LEMMA PinStep ==
  ASSUME IInv, pin_user_pages \/ pin_no_user
  PROVE  IInv'
  <1>1. pc = "pin" /\ UNCHANGED <<req, copies, queue>>
    BY DEF pin_user_pages, pin_no_user, chan
  <1>2. CASE pin_no_user
    BY <1>1, <1>2, StartStep DEF pin_no_user, IInv, LoopInv, TypeInv, Request
  <1>3. CASE pin_user_pages
    <2>1. ~req.kernel_ds /\ pages' = Filled(req, nr_pages(req), [i \in 1..nr_pages(req) |-> 0])
      BY <1>3 DEF pin_user_pages
    <2>2. pages' = Pinned(req)
      BY <2>1, NrPages DEF Filled, Pinned, IInv, TypeInv
    <2>3. CASE req.via # "uaccess"
      <3>1. pc' = IF req.len > 0 THEN "channel" ELSE "unpin"
        BY <1>3, <2>3 DEF pin_user_pages
      <3>2. TypeInv' /\ PlacedInv'
        BY <1>1 DEF IInv, TypeInv, PlacedInv, Placed
      <3>3. LoopInv'
        BY <1>1, <2>1, <2>2, <3>1 DEF LoopInv
      <3> QED BY <3>2, <3>3 DEF IInv
    <2>4. CASE req.via = "uaccess"
      <3>1. pc' = "submit" /\ StartLoop
        BY <1>3, <2>4 DEF pin_user_pages
      <3>2. req.len > 0
        BY <1>1, <2>4 DEF IInv, LoopInv, TypeInv, Request
      <3> QED BY <1>1, <2>2, <3>1, <3>2, StartStep
    <2> QED BY <2>3, <2>4
  <1> QED BY <1>2, <1>3

\* A channel is found.
LEMMA ChannelStep ==
  ASSUME IInv, get_channel
  PROVE  IInv'
  <1>1. pc = "channel" /\ UNCHANGED <<req, copies, queue, pages>>
    BY DEF get_channel, chan
  <1>2. CASE req.via # "uaccess"
    <2>1. pc' = "submit" /\ StartLoop
      BY <1>2 DEF get_channel
    <2>2. req.len > 0 /\ pages' = Pinned(req)
      BY <1>1, <1>2 DEF IInv, LoopInv
    <2> QED BY <1>1, <2>1, <2>2, StartStep
  <1>3. CASE req.via = "uaccess"
    <2>1. pc' = "pin"
      BY <1>3 DEF get_channel
    <2> QED BY <1>1, <2>1, QuietStep
  <1> QED BY <1>2, <1>3

\* The next piece is given to the channel.
LEMMA SubmitStep ==
  ASSUME IInv, submit
  PROVE  IInv'
  <1> DEFINE d == [copy |-> copies, len |-> Piece, at |-> Sent,
                   page |-> IF req.kernel_ds THEN 0 ELSE pages[page_index + 1],
                   offset |-> byte_offset, write |-> req.to_user]
  <1>1. /\ pc = "submit" /\ UNCHANGED <<req, copies, pages>>
        /\ queue' = Append(queue, d) /\ tmp_len' = tmp_len - Piece
        /\ IF tmp_len' = 0 THEN pc' = "wait"
           ELSE page_index' = page_index + 1 /\ byte_offset' = 0 /\ pc' = pc
    BY DEF submit, async_memcpy
  <1>2. /\ req.base \in Nat /\ req.len \in Nat /\ req.to_user \in BOOLEAN
        /\ copies \in Nat /\ tmp_len \in 1..req.len
        /\ byte_offset \in 0..(PAGE_SIZE - 1)
    BY <1>1, RequestTypes DEF IInv, TypeInv, LoopInv, Request
  <1> HIDE DEF d
  <1>3. ASSUME d \in Pieces,
               d.copy = copies, ~req.kernel_ds => Placed(d)
        PROVE  TypeInv' /\ PlacedInv'
    <2>1. queue \in Seq(Pieces)
      BY DEF IInv, TypeInv
    <2>2. /\ DOMAIN queue' = 1..(Len(queue) + 1)
          /\ \A i \in DOMAIN queue : queue'[i] = queue[i]
          /\ DOMAIN queue = 1..Len(queue) /\ Len(queue) \in Nat
          /\ queue'[Len(queue) + 1] = d
          /\ queue' \in Seq(Pieces)
      <3>1. queue' = Append(queue, d) /\ d \in Pieces
        BY <1>1, <1>3
      <3> QED BY <2>1, <3>1
    <2>3. \A i \in DOMAIN queue' : i \in DOMAIN queue \/ i = Len(queue) + 1
      BY <2>2
    <2>4. TypeInv'
      <3>1. \A i \in DOMAIN queue' : queue'[i].copy <= copies
        <4>1. \A i \in DOMAIN queue : queue[i].copy <= copies
          BY DEF IInv, TypeInv
        <4>2. copies <= copies
          BY <1>2
        <4> QED BY <4>1, <4>2, <1>3, <2>2, <2>3
      <3> QED BY <3>1, <2>2, <1>1 DEF IInv, TypeInv
    <2>5. PlacedInv'
      <3>1. ASSUME ~req.kernel_ds, NEW i \in DOMAIN queue', queue'[i].copy = copies
            PROVE  Placed(queue'[i])
        BY <3>1, <1>3, <2>2, <2>3 DEF IInv, PlacedInv
      <3>2. \A e : Placed(e) => Placed(e)'
        BY <1>1 DEF Placed
      <3> QED BY <1>1, <3>1 DEF PlacedInv, Placed
    <2> QED BY <2>4, <2>5
  <1>4. CASE req.kernel_ds
    <2>1. Piece = tmp_len /\ Sent \in Int
      BY <1>2, <1>4 DEF Piece, Sent
    <2>2. pc' = "wait"
      BY <1>1, <1>2, <2>1
    <2>3. d \in Pieces
          /\ d.copy = copies
      BY <1>2, <1>4, <2>1 DEF d, Pieces
    <2>4. LoopInv'
      BY <1>1, <2>2 DEF IInv, LoopInv
    <2> QED BY <1>3, <1>4, <2>3, <2>4 DEF IInv
  <1>5. CASE ~req.kernel_ds
    <2> DEFINE f == req.base \div PAGE_SIZE
               o == req.base % PAGE_SIZE
    <2>1. /\ pages = Pinned(req) /\ page_index \in Nat
          /\ page_index * PAGE_SIZE + byte_offset = o + Sent
      BY <1>1, <1>5 DEF IInv, LoopInv
    <2>2. f \in Nat /\ o \in Int /\ req.base = f * PAGE_SIZE + o
      BY <1>2, DivMod
    <2>3. pages[page_index + 1] = f + page_index + 1
      BY <1>1, <1>5, <2>1, <2>2, InArray DEF Pinned, PageOf
    <2> HIDE DEF f, o
    <2>4. /\ Piece = IF PAGE_SIZE - byte_offset <= tmp_len THEN PAGE_SIZE - byte_offset ELSE tmp_len
          /\ Sent \in Int
      <3>1. PAGE_SIZE - byte_offset \in Int /\ tmp_len \in Int /\ Sent \in Int
        BY <1>2, SizesAssumption DEF Sent
      <3> QED BY <1>5, <3>1, MinPair DEF Piece
    <2>5. Piece \in Int /\ byte_offset + Piece <= PAGE_SIZE
      BY <2>4, <1>2, SizesAssumption
    <2>6. d \in Pieces
          /\ d.copy = copies
      BY <1>2, <1>5, <2>1, <2>2, <2>3, <2>4, <2>5 DEF d, Pieces
    <2>7. /\ page_index * PAGE_SIZE \in Int /\ f * PAGE_SIZE \in Int
          /\ (f + page_index) * PAGE_SIZE = f * PAGE_SIZE + page_index * PAGE_SIZE
          /\ (page_index + 1) * PAGE_SIZE = page_index * PAGE_SIZE + PAGE_SIZE
      BY <2>1, <2>2, SizesAssumption
    <2>8. Placed(d)
      <3>1. (f + page_index) * PAGE_SIZE + byte_offset = req.base + Sent
        BY <1>2, <2>1, <2>2, <2>4, <2>7
      <3>2. d.page - 1 = f + page_index
        BY <1>5, <2>1, <2>2, <2>3 DEF d
      <3> QED BY <3>1, <3>2, <2>5 DEF Placed, d
    <2>9. LoopInv'
      <3>1. CASE tmp_len' = 0
        BY <3>1, <1>1 DEF IInv, LoopInv
      <3>2. CASE tmp_len' # 0
        <4>1. Piece = PAGE_SIZE - byte_offset /\ tmp_len - Piece \in 1..req.len
          BY <3>2, <1>1, <1>2, <2>4, SizesAssumption
        <4>2. page_index' = page_index + 1 /\ byte_offset' = 0 /\ pc' = "submit"
          BY <3>2, <1>1
        <4>3. Sent' = Sent + PAGE_SIZE - byte_offset
          <5>1. tmp_len' = tmp_len - (PAGE_SIZE - byte_offset) /\ req' = req
            BY <1>1, <4>1
          <5>2. req.len \in Int /\ tmp_len \in Int /\ PAGE_SIZE \in Int /\ byte_offset \in Int
            BY <1>2, SizesAssumption
          <5>3. req.len - (tmp_len - (PAGE_SIZE - byte_offset))
                  = (req.len - tmp_len) + PAGE_SIZE - byte_offset
            BY <5>2
          <5> QED BY <5>1, <5>3 DEF Sent
        <4>4. page_index' * PAGE_SIZE + byte_offset' = o + Sent'
          BY <4>2, <4>3, <2>1, <2>2, <2>4, <2>7, <1>2, SizesAssumption
        <4>5. 0 \in 0..(PAGE_SIZE - 1)
          BY SizesAssumption
        <4>6. page_index' * PAGE_SIZE + byte_offset' = (req'.base % PAGE_SIZE) + Sent'
          BY <4>4, <1>1 DEF o
        <4>7. pages' = Pinned(req') /\ page_index' \in Nat
          BY <4>2, <2>1, <1>1
        <4>8. tmp_len' \in 1..req'.len /\ byte_offset' \in 0..(PAGE_SIZE - 1)
          BY <4>1, <4>2, <4>5, <1>1
        <4>9. req'.via # "uaccess" => ~req'.kernel_ds
          BY <1>1 DEF IInv, LoopInv
        <4> QED BY <4>2, <4>6, <4>7, <4>8, <4>9 DEF LoopInv
      <3> QED BY <3>1, <3>2
    <2> QED BY <1>3, <2>6, <2>8, <2>9 DEF IInv
  <1> QED BY <1>4, <1>5

\* The engine takes the first piece of the queue.
LEMMA ExecuteStep ==
  ASSUME IInv, hw_execute, queue # <<>>
  PROVE  IInv'
  <1>1. queue' = Tail(queue) /\ UNCHANGED <<pc, req, copies, pages, loop>>
    BY DEF hw_execute
  <1>2. queue \in Seq(Pieces)
    BY DEF IInv, TypeInv
  <1>3. /\ queue' \in Seq(Pieces)
        /\ \A i \in DOMAIN queue' : i + 1 \in DOMAIN queue /\ queue'[i] = queue[i + 1]
    BY <1>1, <1>2
  <1>4. TypeInv'
    BY <1>1, <1>3 DEF IInv, TypeInv
  <1>5. PlacedInv'
    BY <1>1, <1>3 DEF IInv, PlacedInv, Placed
  <1>6. LoopInv'
    BY <1>1 DEF IInv, LoopInv, loop, Sent
  <1> QED BY <1>4, <1>5, <1>6 DEF IInv

\* The queue keeps what is issued.
LEMMA IssuedStep ==
  ASSUME IInv, IssuedInv, [Next]_vars
  PROVE  IssuedInv'
  <1>1. queue \in Seq(Pieces) /\ Len(queue) \in Nat /\ issued \in 0..Len(queue)
    BY DEF IInv, TypeInv, IssuedInv
  <1>2. CASE submit
    <2>1. PICK d : queue' = Append(queue, d)
      BY <1>2 DEF submit, async_memcpy
    <2>2. Len(queue') = Len(queue) + 1 /\ issued' \in {issued, Len(queue')}
      BY <2>1, <1>1, <1>2 DEF submit, async_memcpy
    <2> QED BY <2>2, <1>1 DEF IssuedInv
  <1>3. CASE hw_execute
    <2>1. queue # <<>>
      BY <1>1, <1>3 DEF hw_execute
    <2>2. Len(queue') = Len(queue) - 1 /\ issued' = issued - 1 /\ issued > 0
      BY <2>1, <1>1, <1>3 DEF hw_execute
    <2> QED BY <2>2, <1>1 DEF IssuedInv
  <1>4. CASE no_descriptor \/ sync_wait
    BY <1>1, <1>4 DEF no_descriptor, sync_wait, IssuedInv
  <1>5. CASE UNCHANGED chan
    BY <1>1, <1>5 DEF chan, IssuedInv
  <1> QED BY <1>2, <1>3, <1>4, <1>5
          DEF Next, Process, vars, init_req_copy, no_channel, get_channel, pin_user_pages,
              pin_failed, pin_no_user, unpin_user_pages, wait_done, wait_timeout, AfterWait,
              cpu_copy, return, Returned

\* Every step keeps the invariant.
LEMMA NextInv ==
  ASSUME IInv, IssuedInv, [Next]_vars
  PROVE  IInv'
  <1>1. CASE \E r \in Request : init_req_copy(r)
    BY <1>1, RequestStep
  <1>2. CASE get_channel
    BY <1>2, ChannelStep
  <1>3. CASE pin_user_pages \/ pin_no_user
    BY <1>3, PinStep
  <1>4. CASE submit
    BY <1>4, SubmitStep
  <1>5. CASE hw_execute
    <2>1. issued > 0
      BY <1>5 DEF hw_execute
    <2>2. queue # <<>>
      BY <2>1 DEF IInv, TypeInv, IssuedInv
    <2> QED BY <2>2, <1>5, ExecuteStep
  <1>6. CASE no_channel \/ pin_failed \/ unpin_user_pages \/ sync_wait \/ wait_done
             \/ wait_timeout \/ (\E left \in 0..MaxLen : cpu_copy(left)) \/ return
    <2>1. UNCHANGED <<req, copies, queue>> /\ pc' \in {"wait", "poll", "unpin", "return", "idle"}
      BY <1>6 DEF no_channel, pin_failed, unpin_user_pages, sync_wait, wait_done,
                  wait_timeout, AfterWait, cpu_copy, return, Returned, chan
    <2> QED BY <2>1, QuietStep
  <1>7. CASE no_descriptor \/ UNCHANGED vars
    <2>1. UNCHANGED <<req, copies, queue, pc, pages, loop>>
      BY <1>7 DEF no_descriptor, vars, chan
    <2> QED BY <2>1, QuietStep
  <1> QED BY <1>1, <1>2, <1>3, <1>4, <1>5, <1>6, <1>7, Zenon DEF Next, Process

\* The invariant holds at first.
LEMMA InitInv ==
  ASSUME Init
  PROVE  IInv /\ IssuedInv
  <1>1. req \in Request /\ copies \in Nat
    BY SizesAssumption DEF Init, Request
  <1>2. queue \in Seq(Pieces) /\ DOMAIN queue = {} /\ Len(queue) = 0
    BY DEF Init
  <1> QED BY <1>1, <1>2 DEF Init, IInv, TypeInv, LoopInv, PlacedInv, IssuedInv

\* The inductive invariant holds in every reachable state.
LEMMA Invariant == Spec => [](IInv /\ IssuedInv)
  <1>1. IInv /\ IssuedInv /\ [Next]_vars => (IInv /\ IssuedInv)'
    BY NextInv, IssuedStep
  <1> QED BY <1>1, InitInv, PTL DEF Spec

-----------------------------------------------------------------------------
\* The loop over the pages takes no page beyond the nr_pages that
\* dma_pin_user_pages has put into the array.
LEMMA ArrayBounds == Spec => []IndexInArray
  <1>1. IInv => IndexInArray
    <2> SUFFICES ASSUME IInv, pc = "submit", ~req.kernel_ds PROVE page_index < Len(pages)
      BY DEF IndexInArray
    <2>1. page_index < nr_pages(req)
      BY InArray
    <2>2. pages = Pinned(req) /\ page_index \in Nat
      BY DEF IInv, LoopInv
    <2>3. nr_pages(req) \in Int
      BY NrPages DEF IInv, TypeInv
    <2>4. nr_pages(req) \in Nat
      BY <2>1, <2>2, <2>3
    <2>5. Len(pages) = nr_pages(req)
      BY <2>2, <2>4 DEF Pinned
    <2> QED BY <2>1, <2>5
  <1> QED BY <1>1, Invariant, PTL

\* For every page size, address and length: the loop takes no page beyond the array,
\* no piece crosses the end of its page, and each is at the place of its user
\* address.
THEOREM Placement == Spec => []PagesMeant
  <1>1. IInv => PiecesPlaced
    BY DEF IInv, PlacedInv, Placed, PiecesPlaced, Mine
  <1>2. IndexInArray /\ PiecesPlaced => PagesMeant
    BY DEF PagesMeant
  <1> QED BY <1>1, <1>2, ArrayBounds, Invariant, PTL

-----------------------------------------------------------------------------
(* What has become of the bytes and the pages.                             *)

Active == pc \in {"submit", "wait", "poll"}

\* A request whose loop has not begun has nothing copied, written or queued.
FreshInv == pc \in {"channel", "pin"} => copied = {} /\ written = {} /\ Mine = {}

\* The array of pages is there from the pinning to the unpinning, and only then.
HasPages ==
  \/ Active /\ ~req.kernel_ds
  \/ pc = "unpin"
  \/ pc = "channel" /\ req.via # "uaccess"
PagesInv == pages = IF HasPages THEN Pinned(req) ELSE <<>>

\* What is copied is what was sent and is not in the queue any more; the pieces in
\* the queue do not overlap.
TileInv ==
  Active =>
    /\ \A b : b \in copied <=> b \in 0..(Sent - 1) /\ \A i \in Mine : b \notin Bytes(queue[i])
    /\ \A i \in Mine : \A b : b \in Bytes(queue[i]) => b \in 0..(Sent - 1)
    /\ \A i, j \in Mine : \A b : b \in Bytes(queue[i]) /\ b \in Bytes(queue[j]) => i = j

\* When the loop is over all is sent, and when the wait has succeeded all is copied.
EndInv ==
  /\ pc \in {"wait", "poll"} => tmp_len = 0
  /\ status = "SUCCESS" => pc \in {"unpin", "return", "idle"}
  /\ pc \in {"unpin", "return"} /\ status = "SUCCESS" =>
       Mine = {} /\ \A b \in 0..(req.len - 1) : b \in copied
  /\ ret \in Int

\* The engine writes pages of the array, and only when the copy is to the user.
Array == {pages[j] : j \in DOMAIN pages}
WriteInv ==
  /\ \A i \in Mine : queue[i].write = req.to_user /\ (req.kernel_ds => queue[i].page = 0)
  /\ Active /\ ~req.kernel_ds => \A i \in Mine : queue[i].page \in Array
  /\ ~req.to_user \/ req.kernel_ds => written = {}
  /\ Active \/ (pc = "unpin" /\ status = "SUCCESS") => \A p \in written : p \in Array
  /\ pc = "return" /\ status = "SUCCESS" /\ req.via # "cache" => \A p \in written : p \in dirty

DataInv == FreshInv /\ PagesInv /\ TileInv /\ EndInv /\ WriteInv

\* The piece that submit gives to the channel.
NextPiece == [copy |-> copies, len |-> Piece, at |-> Sent,
              page |-> IF req.kernel_ds THEN 0 ELSE pages[page_index + 1],
              offset |-> byte_offset, write |-> req.to_user]

\* A piece has bytes, and no more than are left.
LEMMA PieceSize ==
  ASSUME IInv, pc = "submit"
  PROVE  /\ tmp_len \in 1..req.len /\ req.len \in Nat /\ Sent \in Nat
         /\ Piece \in 1..tmp_len
  <1>1. /\ tmp_len \in 1..req.len /\ req.len \in Nat
        /\ byte_offset \in 0..(PAGE_SIZE - 1) /\ PAGE_SIZE \in Nat
    BY RequestTypes, SizesAssumption DEF IInv, LoopInv, TypeInv
  <1>2. Piece \in 1..tmp_len
    <2>1. CASE req.kernel_ds
      BY <1>1, <2>1 DEF Piece
    <2>2. CASE ~req.kernel_ds
      BY <1>1, <2>2, MinPair DEF Piece
    <2> QED BY <2>1, <2>2
  <1> QED BY <1>1, <1>2 DEF Sent

\* The queue of submit.
LEMMA MineAppend ==
  ASSUME IInv, submit
  PROVE  /\ UNCHANGED <<req, copies, pages, copied, status, ret, memory>>
         /\ tmp_len' = tmp_len - Piece
         /\ pc = "submit" /\ pc' = IF tmp_len' = 0 THEN "wait" ELSE "submit"
         /\ Mine' = Mine \union {Len(queue) + 1} /\ Len(queue) + 1 \notin Mine
         /\ \A i \in Mine : queue'[i] = queue[i]
         /\ queue'[Len(queue) + 1] = NextPiece
  <1>1. queue \in Seq(Pieces) /\ queue' = Append(queue, NextPiece) /\ NextPiece.copy = copies
    BY DEF IInv, TypeInv, submit, async_memcpy, NextPiece
  <1> HIDE DEF NextPiece
  <1>2. /\ DOMAIN queue = 1..Len(queue) /\ Len(queue) \in Nat
        /\ DOMAIN queue' = 1..(Len(queue) + 1)
        /\ \A i \in 1..Len(queue) : queue'[i] = queue[i]
        /\ queue'[Len(queue) + 1] = NextPiece
    BY <1>1
  <1>3. copies' = copies
    BY DEF submit
  <1>4. Mine' = Mine \union {Len(queue) + 1} /\ Len(queue) + 1 \notin Mine
    BY <1>1, <1>2, <1>3 DEF Mine
  <1> QED BY <1>2, <1>4 DEF submit, memory, Mine

\* The queue after the engine has taken its head.
LEMMA MineTail ==
  ASSUME IInv, hw_execute, queue # <<>>
  PROVE  /\ UNCHANGED <<pc, req, copies, pages, loop, status, ret, pinned, dirty>>
         /\ \A i \in Mine' : i + 1 \in Mine /\ i + 1 # 1 /\ queue'[i] = queue[i + 1]
         /\ \A i \in Mine : i # 1 => i - 1 \in Mine' /\ queue'[i - 1] = queue[i]
         /\ \A i \in Mine' : i \in Int
         /\ IF 1 \in Mine
            THEN /\ copied' = copied \union Bytes(queue[1])
                 /\ written' = written \union
                      (IF queue[1].write /\ queue[1].page # 0 THEN {queue[1].page} ELSE {})
            ELSE UNCHANGED <<copied, written>>
  <1>1. queue \in Seq(Pieces) /\ queue' = Tail(queue) /\ copies' = copies
    BY DEF IInv, TypeInv, hw_execute
  <1>2. /\ DOMAIN queue = 1..Len(queue) /\ Len(queue) \in Nat /\ Len(queue) > 0
        /\ DOMAIN queue' = 1..(Len(queue) - 1)
        /\ \A i \in 1..(Len(queue) - 1) : queue'[i] = queue[i + 1]
        /\ Head(queue) = queue[1]
    BY <1>1
  <1>3. 1 \in Mine <=> Head(queue).copy = copies
    BY <1>2 DEF Mine
  <1>4. /\ \A i \in Mine' : i + 1 \in Mine /\ i + 1 # 1 /\ queue'[i] = queue[i + 1]
        /\ \A i \in Mine : i # 1 => i - 1 \in Mine' /\ queue'[i - 1] = queue[i]
        /\ \A i \in Mine' : i \in Int
    BY <1>1, <1>2 DEF Mine
  <1>5. UNCHANGED <<pc, req, copies, pages, loop, status, ret, pinned, dirty>>
    BY DEF hw_execute
  <1>6. IF Head(queue).copy = copies
        THEN /\ copied' = copied \union Bytes(Head(queue))
             /\ written' = written \union
                  (IF Head(queue).write /\ Head(queue).page # 0 THEN {Head(queue).page} ELSE {})
        ELSE UNCHANGED <<copied, written>>
    BY DEF hw_execute, Bytes
  <1> QED BY <1>2, <1>3, <1>4, <1>5, <1>6

\* Giving a piece to the channel.
LEMMA SubmitData ==
  ASSUME IInv, DataInv, submit
  PROVE  DataInv'
  <1> DEFINE n == Len(queue) + 1
  <1>1. /\ UNCHANGED <<req, copies, pages, copied, status, ret, memory>>
        /\ tmp_len' = tmp_len - Piece
        /\ pc = "submit" /\ pc' \in {"submit", "wait"} /\ (pc' = "wait" => tmp_len' = 0)
        /\ Mine' = Mine \union {n} /\ n \notin Mine
        /\ \A i \in Mine : queue'[i] = queue[i]
        /\ queue'[n] = NextPiece
    BY MineAppend
  <1> HIDE DEF n
  <1>2. /\ tmp_len \in 1..req.len /\ req.len \in Nat /\ Sent \in Nat
        /\ Piece \in 1..tmp_len
    BY <1>1, PieceSize
  <1>3. Sent' = Sent + Piece
    BY <1>1, <1>2 DEF Sent
  <1>4. \A b : b \in Bytes(NextPiece) <=> b \in Sent..(Sent' - 1)
    BY <1>2, <1>3 DEF Bytes, NextPiece
  <1> HIDE DEF NextPiece
  <1>5. FreshInv' /\ PagesInv' /\ EndInv'
    BY <1>1 DEF DataInv, FreshInv, PagesInv, EndInv, HasPages, Active
  <1>6. TileInv'
    <2>1. /\ \A b : b \in copied <=> b \in 0..(Sent - 1) /\ \A i \in Mine : b \notin Bytes(queue[i])
          /\ \A i \in Mine : \A b : b \in Bytes(queue[i]) => b \in 0..(Sent - 1)
          /\ \A i, j \in Mine : \A b : b \in Bytes(queue[i]) /\ b \in Bytes(queue[j]) => i = j
      BY <1>1 DEF DataInv, TileInv, Active
    <2>2. \A b : b \in 0..(Sent' - 1) <=> b \in 0..(Sent - 1) \/ b \in Bytes(NextPiece)
      BY <1>2, <1>3, <1>4
    <2>3. \A b : ~(b \in 0..(Sent - 1) /\ b \in Bytes(NextPiece))
      BY <1>2, <1>3, <1>4
    <2>4. \A d : Bytes(d)' = Bytes(d)
      BY DEF Bytes
    <2>5. \A b : b \in copied <=> b \in 0..(Sent' - 1) /\ \A i \in Mine' : b \notin Bytes(queue'[i])
      BY <2>1, <2>2, <2>3, <1>1
    <2>6. \A i \in Mine' : \A b : b \in Bytes(queue'[i]) => b \in 0..(Sent' - 1)
      BY <2>1, <2>2, <1>1
    <2>7. \A i, j \in Mine' : \A b : b \in Bytes(queue'[i]) /\ b \in Bytes(queue'[j]) => i = j
      BY <2>1, <2>3, <1>1
    <2> QED BY <1>1, <2>5, <2>6, <2>7 DEF TileInv, Bytes
  <1>7. WriteInv'
    <2>1. NextPiece.write = req.to_user /\ (req.kernel_ds => NextPiece.page = 0)
      BY DEF NextPiece
    <2>2. ~req.kernel_ds => NextPiece.page \in Array
      <3>1. ~req.kernel_ds => page_index + 1 \in DOMAIN pages
        BY <1>1, InArray
      <3> QED BY <3>1 DEF NextPiece, Array
    <2>3. Array' = Array
      BY <1>1 DEF Array
    <2> HIDE DEF Array
    <2> QED BY <1>1, <2>1, <2>2, <2>3 DEF DataInv, WriteInv, Active, memory
  <1> QED BY <1>5, <1>6, <1>7 DEF DataInv

\* The engine makes a piece.
LEMMA ExecuteData ==
  ASSUME IInv, DataInv, hw_execute, queue # <<>>
  PROVE  DataInv'
  <1>1. /\ UNCHANGED <<pc, req, copies, pages, loop, status, ret, pinned, dirty>>
        /\ \A i \in Mine' : i + 1 \in Mine /\ i + 1 # 1 /\ queue'[i] = queue[i + 1]
        /\ \A i \in Mine : i # 1 => i - 1 \in Mine' /\ queue'[i - 1] = queue[i]
        /\ \A i \in Mine' : i \in Int
        /\ IF 1 \in Mine
           THEN /\ copied' = copied \union Bytes(queue[1])
                /\ written' = written \union
                     (IF queue[1].write /\ queue[1].page # 0 THEN {queue[1].page} ELSE {})
           ELSE UNCHANGED <<copied, written>>
    BY MineTail
  <1>2. Mine = {} => Mine' = {} /\ UNCHANGED <<copied, written>>
    BY <1>1
  <1>3. Array' = Array /\ Sent' = Sent /\ tmp_len' = tmp_len
    BY <1>1 DEF Array, Sent, loop
  <1> HIDE DEF Mine, Array, Sent
  <1>4. FreshInv' /\ PagesInv'
    BY <1>1, <1>2 DEF DataInv, FreshInv, PagesInv, HasPages, Active
  <1>5. EndInv'
    BY <1>1, <1>2, <1>3 DEF DataInv, EndInv
  <1>6. TileInv'
    <2> SUFFICES ASSUME Active PROVE TileInv'
      BY <1>1 DEF TileInv, Active
    <2>1. /\ \A b : b \in copied <=> b \in 0..(Sent - 1) /\ \A i \in Mine : b \notin Bytes(queue[i])
          /\ \A i \in Mine : \A b : b \in Bytes(queue[i]) => b \in 0..(Sent - 1)
          /\ \A i, j \in Mine : \A b : b \in Bytes(queue[i]) /\ b \in Bytes(queue[j]) => i = j
      BY DEF DataInv, TileInv
    <2> HIDE DEF Bytes
    <2>2. \A b : (\E i \in Mine : b \in Bytes(queue[i]))
                 <=> (1 \in Mine /\ b \in Bytes(queue[1])) \/ \E i \in Mine' : b \in Bytes(queue'[i])
      BY <1>1
    <2>3. \A i \in Mine' : \A b : b \in Bytes(queue'[i]) => ~(1 \in Mine /\ b \in Bytes(queue[1]))
      BY <1>1, <2>1
    <2>4. \A b : b \in copied' <=> b \in copied \/ (1 \in Mine /\ b \in Bytes(queue[1]))
      BY <1>1
    <2>5. \A b : b \in copied' <=> b \in 0..(Sent - 1) /\ \A i \in Mine' : b \notin Bytes(queue'[i])
      BY <2>1, <2>2, <2>3, <2>4
    <2>6. \A i \in Mine' : \A b : b \in Bytes(queue'[i]) => b \in 0..(Sent - 1)
      BY <1>1, <2>1
    <2>7. \A i, j \in Mine' : \A b : b \in Bytes(queue'[i]) /\ b \in Bytes(queue'[j]) => i = j
      <3> SUFFICES ASSUME NEW i \in Mine', NEW j \in Mine', NEW b,
                          b \in Bytes(queue'[i]), b \in Bytes(queue'[j])
                   PROVE  i = j
        OBVIOUS
      <3>1. i + 1 \in Mine /\ j + 1 \in Mine /\ i \in Int /\ j \in Int
            /\ queue'[i] = queue[i + 1] /\ queue'[j] = queue[j + 1]
        BY <1>1
      <3>2. i + 1 = j + 1
        BY <3>1, <2>1
      <3> QED BY <3>1, <3>2
    <2> QED BY <1>3, <2>5, <2>6, <2>7 DEF TileInv, Bytes
  <1>7. WriteInv'
    <2>1. /\ \A i \in Mine : queue[i].write = req.to_user /\ (req.kernel_ds => queue[i].page = 0)
          /\ Active /\ ~req.kernel_ds => \A i \in Mine : queue[i].page \in Array
          /\ ~req.to_user \/ req.kernel_ds => written = {}
          /\ Active \/ (pc = "unpin" /\ status = "SUCCESS") => \A p \in written : p \in Array
          /\ pc = "return" /\ status = "SUCCESS" /\ req.via # "cache" => \A p \in written : p \in dirty
      BY DEF DataInv, WriteInv
    <2>2. pc \in {"unpin", "return"} /\ status = "SUCCESS" => Mine = {}
      BY DEF DataInv, EndInv
    <2>3. req.to_user \in BOOLEAN /\ req.kernel_ds \in BOOLEAN
      BY DEF IInv, TypeInv, Request
    <2>4. \A i \in Mine' : queue'[i].write = req.to_user /\ (req.kernel_ds => queue'[i].page = 0)
      BY <1>1, <2>1
    <2>5. Active /\ ~req.kernel_ds => \A i \in Mine' : queue'[i].page \in Array
      BY <1>1, <2>1
    <2>6. ~req.to_user \/ req.kernel_ds => written' = {}
      BY <1>1, <2>1, <2>3
    <2>7. Active => \A p \in written' : p \in Array
      <3>1. CASE req.kernel_ds
        BY <2>6, <3>1
      <3>2. CASE ~req.kernel_ds
        BY <1>1, <2>1, <3>2
      <3> QED BY <3>1, <3>2
    <2> QED BY <1>1, <1>2, <1>3, <2>1, <2>2, <2>4, <2>5, <2>6, <2>7 DEF WriteInv, Active
  <1> QED BY <1>4, <1>5, <1>6, <1>7 DEF DataInv

\* A new request starts with nothing.
LEMMA RequestData ==
  ASSUME IInv, DataInv, NEW r \in Request, init_req_copy(r)
  PROVE  DataInv'
  <1>1. /\ pc = "idle" /\ req' = r /\ copies' = copies + 1 /\ queue' = queue /\ pages' = pages
        /\ copied' = {} /\ written' = {} /\ status' = "INIT" /\ ret' = 0
        /\ pc' \in {"pin", "channel", "return"} /\ (pc' = "channel" => r.via = "uaccess")
    BY DEF init_req_copy, chan
  <1>2. Mine' = {}
    <2>1. /\ copies \in Nat /\ queue \in Seq(Pieces)
          /\ \A i \in DOMAIN queue : queue[i].copy <= copies
      BY DEF IInv, TypeInv
    <2>2. \A i \in DOMAIN queue : queue[i].copy \in Nat
      BY <2>1, PieceTypes
    <2>3. \A i \in DOMAIN queue : queue[i].copy # copies + 1
      BY <2>1, <2>2
    <2> QED BY <1>1, <2>3 DEF Mine
  <1>3. pages = <<>> /\ ~HasPages'
    BY <1>1 DEF DataInv, PagesInv, HasPages, Active
  <1> HIDE DEF Mine
  <1>4. FreshInv' /\ TileInv' /\ EndInv'
    BY <1>1, <1>2 DEF FreshInv, TileInv, EndInv, Active
  <1>5. PagesInv'
    BY <1>1, <1>3 DEF PagesInv
  <1>6. WriteInv'
    BY <1>1, <1>2 DEF WriteInv, Active
  <1> QED BY <1>4, <1>5, <1>6 DEF DataInv

\* The loop starts with nothing sent.
LEMMA StartData ==
  ASSUME IInv, DataInv, UNCHANGED <<req, copies, queue, copied, status, ret, written, dirty>>,
         pc \in {"channel", "pin"}, pc' = "submit", StartLoop,
         pages' = IF req.kernel_ds THEN <<>> ELSE Pinned(req)
  PROVE  DataInv'
  <1>1. Mine' = Mine /\ Mine = {} /\ copied = {} /\ written = {}
    BY DEF DataInv, FreshInv, Mine
  <1>2. Sent' = 0
    <2>1. req.len \in Nat
      BY RequestTypes DEF IInv, TypeInv
    <2> QED BY <2>1 DEF StartLoop, Sent
  <1> HIDE DEF Mine, Sent
  <1>3. FreshInv' /\ EndInv'
    BY DEF DataInv, FreshInv, EndInv
  <1>4. PagesInv'
    <2>1. Pinned(req)' = Pinned(req)
      OBVIOUS
    <2>2. HasPages' <=> ~req.kernel_ds
      BY DEF HasPages, Active
    <2> QED BY <2>1, <2>2 DEF PagesInv
  <1>5. TileInv'
    BY <1>1, <1>2 DEF TileInv
  <1>6. WriteInv'
    BY <1>1 DEF WriteInv
  <1> QED BY <1>3, <1>4, <1>5, <1>6 DEF DataInv

\* Looking for a channel and pinning.
LEMMA BeforeData ==
  ASSUME IInv, DataInv, no_channel \/ get_channel \/ pin_user_pages \/ pin_failed \/ pin_no_user
  PROVE  DataInv'
  <1>1. /\ UNCHANGED <<req, copies, queue, copied, status, written, dirty>>
        /\ pc \in {"channel", "pin"} /\ ret' \in Int
    <2>1. req.len \in Int /\ ret \in Int /\ EBUSY \in Int
      BY RequestTypes DEF IInv, TypeInv, DataInv, EndInv, EBUSY
    <2> QED BY <2>1 DEF no_channel, get_channel, pin_user_pages, pin_failed, pin_no_user, chan, memory
  <1>2. /\ Mine' = Mine /\ Mine = {} /\ copied = {} /\ written = {} /\ status # "SUCCESS"
        /\ Pinned(req)' = Pinned(req)
    BY <1>1 DEF DataInv, FreshInv, EndInv, Mine
  <1>3. pages = IF pc = "channel" /\ req.via # "uaccess" THEN Pinned(req) ELSE <<>>
    BY <1>1 DEF DataInv, PagesInv, HasPages, Active
  <1>4. req.via # "uaccess" => ~req.kernel_ds
    BY DEF IInv, LoopInv
  <1> HIDE DEF Mine
  <1>5. ASSUME pc' \in {"channel", "pin", "unpin", "return"}, PagesInv'
        PROVE  DataInv'
    BY <1>1, <1>2, <1>5 DEF DataInv, FreshInv, TileInv, EndInv, WriteInv, Active
  <1>6. CASE no_channel
    <2>1. pages' = pages /\ pc = "channel" /\ pc' = IF req.via # "uaccess" THEN "unpin" ELSE "return"
      BY <1>6 DEF no_channel
    <2>2. PagesInv'
      BY <1>1, <1>2, <1>3, <2>1 DEF PagesInv, HasPages, Active
    <2> QED BY <1>5, <2>1, <2>2
  <1>7. CASE get_channel
    <2>1. pages' = pages /\ pc = "channel" /\ ret' = ret
      BY <1>7 DEF get_channel
    <2>2. CASE req.via # "uaccess"
      BY <1>1, <1>3, <1>4, <1>7, <2>1, <2>2, StartData DEF get_channel
    <2>3. CASE req.via = "uaccess"
      <3>1. pc' = "pin"
        BY <1>7, <2>3 DEF get_channel
      <3>2. PagesInv'
        BY <1>1, <1>3, <2>1, <2>3, <3>1 DEF PagesInv, HasPages, Active
      <3> QED BY <1>5, <3>1, <3>2
    <2> QED BY <2>2, <2>3
  <1>8. CASE pin_user_pages
    <2>1. pc = "pin" /\ ~req.kernel_ds /\ ret' = ret
          /\ pages' = Filled(req, nr_pages(req), [i \in 1..nr_pages(req) |-> 0])
      BY <1>8 DEF pin_user_pages
    <2>2. pages' = Pinned(req)
      BY <2>1, NrPages DEF Filled, Pinned, IInv, TypeInv
    <2>3. CASE req.via # "uaccess"
      <3>1. pc' \in {"channel", "unpin"}
        BY <1>8, <2>3 DEF pin_user_pages
      <3>2. PagesInv'
        BY <1>1, <1>2, <2>2, <2>3, <3>1 DEF PagesInv, HasPages, Active
      <3> QED BY <1>5, <3>1, <3>2
    <2>4. CASE req.via = "uaccess"
      BY <1>1, <1>8, <2>1, <2>2, <2>4, StartData DEF pin_user_pages
    <2> QED BY <2>3, <2>4
  <1>9. CASE pin_failed
    <2>1. pages' = pages /\ pc = "pin" /\ pc' = "return"
      BY <1>9 DEF pin_failed
    <2>2. PagesInv'
      BY <1>1, <1>3, <2>1 DEF PagesInv, HasPages, Active
    <2> QED BY <1>5, <2>1, <2>2
  <1>10. CASE pin_no_user
    <2>1. pages' = pages /\ pc = "pin" /\ ret' = ret /\ req.kernel_ds /\ pc' = "submit" /\ StartLoop
      BY <1>10 DEF pin_no_user
    <2> QED BY <1>1, <1>3, <2>1, StartData
  <1> QED BY <1>6, <1>7, <1>8, <1>9, <1>10

\* Waiting.
LEMMA WaitData ==
  ASSUME IInv, DataInv, sync_wait \/ no_descriptor \/ wait_done \/ wait_timeout
  PROVE  DataInv'
  <1>1. /\ UNCHANGED <<req, copies, queue, copied, pages, loop, written, dirty>>
        /\ Active /\ status # "SUCCESS" /\ ret' \in Int
    BY DEF sync_wait, no_descriptor, wait_done, wait_timeout, AfterWait, chan, memory, Active,
           DataInv, EndInv
  <1>2. Mine' = Mine /\ Sent' = Sent /\ Pinned(req)' = Pinned(req) /\ Array' = Array /\ tmp_len' = tmp_len
    BY <1>1 DEF Mine, Sent, Array, loop
  <1>3. CASE sync_wait \/ no_descriptor
    <2>1. /\ \/ pc' = pc /\ pc = "submit"
             \/ pc' = "poll" /\ pc = "wait"
          /\ status' = status
      BY <1>3 DEF sync_wait, no_descriptor
    <2>2. FreshInv' /\ EndInv'
      BY <1>1, <1>2, <2>1 DEF DataInv, FreshInv, EndInv
    <2>3. PagesInv'
      BY <1>1, <1>2, <2>1 DEF DataInv, PagesInv, HasPages, Active
    <2> HIDE DEF Mine, Sent, Array
    <2>4. TileInv'
      BY <1>1, <1>2, <2>1 DEF DataInv, TileInv, Active
    <2>5. WriteInv'
      BY <1>1, <1>2, <2>1 DEF DataInv, WriteInv, Active
    <2> QED BY <2>2, <2>3, <2>4, <2>5 DEF DataInv
  <1>4. CASE wait_done \/ wait_timeout
    <2>1. /\ pc = "poll" /\ pc' = IF req.kernel_ds THEN "return" ELSE "unpin"
          /\ status' \in {"SUCCESS", "ERROR"}
          /\ status' = "SUCCESS" => Finished
      BY <1>4 DEF wait_done, wait_timeout, AfterWait
    <2>2. Finished => Mine = {}
      BY DEF Finished, Mine
    <2>3. Sent = req.len
      <3>1. tmp_len = 0 /\ req.len \in Nat
        BY <2>1, RequestTypes DEF DataInv, EndInv, IInv, TypeInv
      <3> QED BY <3>1 DEF Sent
    <2>4. Mine = {} => \A b \in 0..(req.len - 1) : b \in copied
      BY <1>1, <2>3 DEF DataInv, TileInv
    <2>5. PagesInv'
      BY <1>1, <1>2, <2>1 DEF DataInv, PagesInv, HasPages, Active
    <2> HIDE DEF Mine, Sent, Array
    <2>6. FreshInv' /\ EndInv' /\ TileInv'
      BY <1>1, <1>2, <2>1, <2>2, <2>4 DEF FreshInv, EndInv, TileInv, Active
    <2>7. WriteInv'
      BY <1>1, <1>2, <2>1 DEF DataInv, WriteInv, Active
    <2> QED BY <2>5, <2>6, <2>7 DEF DataInv
  <1> QED BY <1>3, <1>4

\* A multiple of the page size is not below 0 when it is of a number that is not.
LEMMA NotNegative ==
  ASSUME NEW n \in Int, n * PAGE_SIZE >= 0
  PROVE  n >= 0
  BY SizesAssumption

\* The array of a pinned request has no NULL: all of it is unpinned.
LEMMA AllUnpinned ==
  ASSUME NEW r \in Request
  PROVE  /\ DOMAIN Pinned(r) = 1..nr_pages(r) /\ nr_pages(r) \in Nat
         /\ Unpinned(Pinned(r)) = DOMAIN Pinned(r)
         /\ PageOf(r.base) \in Nat \ {0}
  <1>1. r.base \in Nat /\ r.len \in Nat
    BY RequestTypes
  <1>2. PageOf(r.base) \in Nat \ {0}
    BY <1>1, DivMod DEF PageOf
  <1>3. DOMAIN Pinned(r) = 1..nr_pages(r)
    BY DEF Pinned
  <1>4. nr_pages(r) \in Nat
    <2>1. nr_pages(r) \in Int /\ nr_pages(r) * PAGE_SIZE >= (r.base % PAGE_SIZE) + r.len
      BY NrPages
    <2>2. r.base % PAGE_SIZE \in Nat
      BY <1>1, DivMod, SizesAssumption
    <2>3. nr_pages(r) * PAGE_SIZE >= 0
      BY <2>1, <2>2, <1>1, SizesAssumption
    <2>4. nr_pages(r) >= 0
      BY <2>1, <2>3, NotNegative
    <2> QED BY <2>1, <2>4
  <1>5. \A j \in 1..nr_pages(r) : Pinned(r)[j] # 0
    BY <1>2, <1>4 DEF Pinned
  <1> HIDE DEF Pinned
  <1>6. Unpinned(Pinned(r)) = DOMAIN Pinned(r)
    BY <1>3, <1>4, <1>5 DEF Unpinned
  <1> QED BY <1>2, <1>3, <1>4, <1>6

\* Unpinning and returning.
LEMMA AfterData ==
  ASSUME IInv, DataInv,
         unpin_user_pages \/ (\E left \in 0..MaxLen : cpu_copy(left)) \/ return \/ UNCHANGED vars
  PROVE  DataInv'
  <1>1. /\ UNCHANGED <<req, copies, queue, status, written, tmp_len>> /\ ret' \in Int
        /\ \A b \in copied : b \in copied'
    BY SizesAssumption
       DEF unpin_user_pages, cpu_copy, return, Returned, vars, chan, memory, loop, DataInv, EndInv
  <1>2. Mine' = Mine /\ Sent' = Sent /\ Pinned(req)' = Pinned(req)
    BY <1>1 DEF Mine, Sent
  <1>3. CASE unpin_user_pages
    <2>1. /\ pc = "unpin" /\ pc' = "return" /\ pages' = <<>> /\ UNCHANGED <<copied, ret>>
          /\ dirty' = dirty \union {pages[i] : i \in IF SetDirty(req) THEN Unpinned(pages) ELSE {}}
      BY <1>3 DEF unpin_user_pages
    <2>2. pages = Pinned(req) /\ Unpinned(pages) = DOMAIN pages
      BY <2>1, AllUnpinned DEF DataInv, PagesInv, HasPages, IInv, TypeInv
    <2>3. status = "SUCCESS" /\ req.via # "cache" => \A p \in written : p \in dirty'
      <3>1. status = "SUCCESS" => \A p \in written : p \in Array
        BY <2>1 DEF DataInv, WriteInv
      <3>2. CASE req.to_user /\ req.via # "cache"
        <4>1. SetDirty(req)
          BY <3>2 DEF SetDirty
        <4> QED BY <2>1, <2>2, <3>1, <4>1 DEF Array
      <3>3. CASE ~req.to_user
        BY <3>3 DEF DataInv, WriteInv
      <3> QED BY <3>2, <3>3
    <2> HIDE DEF Mine, Array
    <2>4. PagesInv'
      BY <2>1 DEF PagesInv, HasPages, Active
    <2>5. WriteInv'
      BY <1>1, <1>2, <2>1, <2>3 DEF DataInv, WriteInv, Active
    <2> QED BY <1>1, <1>2, <2>1, <2>4, <2>5 DEF DataInv, FreshInv, TileInv, EndInv, Active
  <1>4. CASE (\E left \in 0..MaxLen : cpu_copy(left)) \/ return
    <2>1. pc = "return" /\ pc' = "idle" /\ pages' = pages
      BY <1>4 DEF cpu_copy, return, Returned
    <2>2. PagesInv'
      BY <1>2, <2>1 DEF DataInv, PagesInv, HasPages, Active
    <2> HIDE DEF Mine, Array
    <2>3. WriteInv'
      BY <1>1, <1>2, <2>1 DEF DataInv, WriteInv, Active
    <2> QED BY <1>1, <1>2, <2>1, <2>2, <2>3 DEF DataInv, FreshInv, TileInv, EndInv, Active
  <1>5. CASE UNCHANGED vars
    <2>1. UNCHANGED <<pc, pages, copied, ret, dirty>>
      BY <1>5 DEF vars, memory
    <2>2. Array' = Array
      BY <2>1 DEF Array
    <2>3. PagesInv'
      BY <1>1, <1>2, <2>1 DEF DataInv, PagesInv, HasPages, Active
    <2> HIDE DEF Mine, Array
    <2>4. WriteInv'
      BY <1>1, <1>2, <2>1, <2>2 DEF DataInv, WriteInv, Active
    <2>5. TileInv'
      BY <1>1, <1>2, <2>1 DEF DataInv, TileInv, Active
    <2> QED BY <1>1, <1>2, <2>1, <2>3, <2>4, <2>5 DEF DataInv, FreshInv, EndInv
  <1> QED BY <1>3, <1>4, <1>5

\* Every step keeps the data invariant.
LEMMA NextData ==
  ASSUME IInv, IssuedInv, DataInv, [Next]_vars
  PROVE  DataInv'
  <1>1. CASE hw_execute
    <2>1. queue # <<>>
      BY <1>1 DEF hw_execute, IInv, TypeInv, IssuedInv
    <2> QED BY <1>1, <2>1, ExecuteData
  <1> QED BY <1>1, RequestData, BeforeData, SubmitData, WaitData, AfterData, Zenon DEF Next, Process

\* The data invariant holds at first.
LEMMA InitData ==
  ASSUME Init
  PROVE  DataInv
  <1>1. Mine = {} /\ ~HasPages
    BY DEF Init, Mine, HasPages, Active
  <1> HIDE DEF Mine
  <1> QED BY <1>1 DEF Init, DataInv, FreshInv, PagesInv, TileInv, EndInv, WriteInv, Active

\* The data invariant holds in every reachable state.
LEMMA DataInvariant == Spec => [](IInv /\ IssuedInv /\ DataInv)
  <1>1. IInv /\ IssuedInv /\ DataInv /\ [Next]_vars => (IInv /\ IssuedInv /\ DataInv)'
    BY NextInv, IssuedStep, NextData
  <1> QED BY <1>1, InitInv, InitData, PTL DEF Spec

\* For every page size, address, length and number of descriptors: the pieces of a
\* copy are its bytes, each once, whatever the engine has made of them so far.
THEOREM Tiles == Spec => []PiecesTile
  <1>1. DataInv => PiecesTile
    <2> SUFFICES ASSUME DataInv, Active PROVE PiecesTile
      BY DEF PiecesTile, Active
    <2> DEFINE Queued == UNION {Bytes(queue[i]) : i \in Mine}
    <2>1. /\ \A b : b \in copied <=> b \in 0..(Sent - 1) /\ \A i \in Mine : b \notin Bytes(queue[i])
          /\ \A i \in Mine : \A b : b \in Bytes(queue[i]) => b \in 0..(Sent - 1)
          /\ \A i, j \in Mine : \A b : b \in Bytes(queue[i]) /\ b \in Bytes(queue[j]) => i = j
      BY DEF DataInv, TileInv
    <2> HIDE DEF Mine, Bytes
    <2>2. \A b : b \in Queued <=> \E i \in Mine : b \in Bytes(queue[i])
      OBVIOUS
    <2> HIDE DEF Queued
    <2>3. \A b : b \in copied \union Queued <=> b \in 0..(Sent - 1)
      BY <2>1, <2>2
    <2>4. copied \union Queued = 0..(Sent - 1)
      BY <2>3
    <2>5. \A i \in Mine : /\ Bytes(queue[i]) \intersect copied = {}
                         /\ \A j \in Mine \ {i} : Bytes(queue[i]) \intersect Bytes(queue[j]) = {}
      BY <2>1
    <2> QED BY <2>4, <2>5 DEF PiecesTile, Queued
  <1> QED BY <1>1, DataInvariant, PTL

\* A page the engine has written for a copy that succeeded is dirty before it is
\* released, by every caller of dma_unpin_user_pages but the Cache driver.
THEOREM Dirty == Spec => []WrittenDirty
  <1>1. DataInv => WrittenDirty
    BY DEF DataInv, WriteInv, WrittenDirty
  <1> QED BY <1>1, DataInvariant, PTL

\* A copy of uaccess_64.h that leaves left bytes has put the others in place,
\* whatever failed on the way.
THEOREM Copies == Spec => []ReturnMeansCopied
  <1>1. Init => ReturnMeansCopied
    BY DEF Init, ReturnMeansCopied
  <1>2. IInv /\ IssuedInv /\ DataInv /\ ReturnMeansCopied /\ [Next]_vars => ReturnMeansCopied'
    <2> SUFFICES ASSUME IInv, IssuedInv, DataInv, ReturnMeansCopied, [Next]_vars,
                        pc' = "idle", copies' > 0, req'.via = "uaccess"
                 PROVE  \A b \in 0..(req'.len - ret' - 1) : b \in copied'
      BY DEF ReturnMeansCopied
    <2>1. req.len \in Nat /\ ret \in Int
      BY RequestTypes DEF IInv, TypeInv, DataInv, EndInv
    <2>2. CASE \E left \in 0..MaxLen : cpu_copy(left)
      BY <2>2, <2>1, SizesAssumption DEF cpu_copy, Returned
    <2>3. CASE return
      <3>1. /\ pc = "return" /\ req' = req /\ ret' = ret /\ copied' = copied
            /\ ret >= 0 /\ status = "SUCCESS"
        BY <2>1, <2>3 DEF return, Returned, NeedsCpu
      <3>2. \A b \in 0..(req.len - 1) : b \in copied
        BY <3>1 DEF DataInv, EndInv
      <3> QED BY <2>1, <3>1, <3>2
    <2>4. CASE hw_execute \/ UNCHANGED vars
      <3>1. /\ UNCHANGED <<pc, copies, req, ret>> /\ \A b \in copied : b \in copied'
        BY <2>4 DEF hw_execute, vars
      <3> QED BY <3>1 DEF ReturnMeansCopied
    <2>5. CASE pc' # "idle"
      BY <2>5
    <2>6. pc' = "idle" => ~(\E r \in Request : init_req_copy(r)) /\ ~no_channel /\ ~get_channel
            /\ ~pin_user_pages /\ ~pin_failed /\ ~pin_no_user /\ ~unpin_user_pages
            /\ ~submit /\ ~no_descriptor /\ ~sync_wait /\ ~wait_done /\ ~wait_timeout
      BY DEF init_req_copy, no_channel, get_channel, pin_user_pages, pin_failed, pin_no_user,
             unpin_user_pages, submit, no_descriptor, sync_wait, wait_done, wait_timeout, AfterWait
    <2> QED BY <2>2, <2>3, <2>4, <2>6 DEF Next, Process
  <1> QED BY <1>1, <1>2, DataInvariant, PTL DEF Spec

-----------------------------------------------------------------------------
(* The references to the pages.                                            *)

\* The entries of an array that hold a page are counted by a number.
LEMMA CountNat ==
  ASSUME NEW array, NEW n \in Int, NEW p
  PROVE  Count(array, 1..n, p) \in Nat
  <1> DEFINE S == {i \in 1..n : array[i] = p}
  <1>1. IsFiniteSet(1..n)
    BY FS_Interval
  <1>2. IsFiniteSet(S)
    <2>1. S \in SUBSET (1..n)
      OBVIOUS
    <2> QED BY <1>1, <2>1, FS_Subset
  <1> HIDE DEF S
  <1>3. Cardinality(S) \in Nat
    BY <1>2, FS_CardinalityType
  <1> QED BY <1>3 DEF S, Count

\* An array that is freed holds no page.
LEMMA CountEmpty ==
  ASSUME NEW p
  PROVE  Count(<<>>, DOMAIN <<>>, p) = 0
  <1>1. {i \in DOMAIN <<>> : <<>>[i] = p} = {}
    OBVIOUS
  <1> QED BY <1>1, FS_EmptySet DEF Count

\* The entries of a set of indices are those of a part and those of the rest.
LEMMA CountSplit ==
  ASSUME NEW array, NEW n \in Int, NEW m \in Int, NEW S, 1..m \subseteq S, S \subseteq 1..n, NEW p
  PROVE  /\ Count(array, S, p) = Count(array, 1..m, p) + Count(array, S \ 1..m, p)
         /\ Count(array, 1..m, p) \in Nat /\ Count(array, S \ 1..m, p) \in Nat
  <1> DEFINE A == {i \in S : array[i] = p}
             B == {i \in 1..m : array[i] = p}
             C == {i \in S \ 1..m : array[i] = p}
  <1>1. IsFiniteSet(1..n)
    BY FS_Interval
  <1>2. B \in SUBSET (1..n) /\ C \in SUBSET (1..n) /\ A = B \union C /\ B \intersect C = {}
    OBVIOUS
  <1> HIDE DEF A, B, C
  <1>3. IsFiniteSet(B) /\ IsFiniteSet(C)
    BY <1>1, <1>2, FS_Subset
  <1>4. Cardinality(B \union C) = Cardinality(B) + Cardinality(C) - Cardinality(B \intersect C)
    BY <1>3, FS_Union
  <1>5. Cardinality(B) \in Nat /\ Cardinality(C) \in Nat
    BY <1>3, FS_CardinalityType
  <1>6. Cardinality({}) = 0
    BY FS_EmptySet
  <1>7. Cardinality(A) = Cardinality(B \union C) /\ Cardinality(B \intersect C) = 0
    BY <1>2, <1>6
  <1>8. Cardinality(A) = Cardinality(B) + Cardinality(C)
    BY ONLY <1>4, <1>5, <1>7
  <1> QED BY <1>5, <1>8 DEF A, B, C, Count

\* What get_user_pages has pinned is released when it pins too few pages, whatever
\* the rest of the array holds.
LEMMA PinnedIsReleased ==
  ASSUME NEW r \in Request, NEW got \in 0..(nr_pages(r) - 1), NEW old
  PROVE  /\ 1..got \subseteq Unpinned(Filled(r, got, old))
         /\ Unpinned(Filled(r, got, old)) \subseteq 1..nr_pages(r)
  <1> DEFINE array == Filled(r, got, old)
  <1>1. nr_pages(r) \in Nat /\ PageOf(r.base) \in Nat \ {0}
    BY AllUnpinned
  <1>2. DOMAIN array = 1..nr_pages(r)
    BY DEF Filled
  <1>3. \A j \in 1..nr_pages(r) : j <= got => array[j] # 0
    BY <1>1 DEF Filled
  <1> HIDE DEF array
  <1>4. \A i \in 1..got : i \in DOMAIN array /\ \A j \in 1..i : array[j] # 0
    BY <1>1, <1>2, <1>3
  <1>5. 1..got \subseteq Unpinned(array) /\ Unpinned(array) \subseteq 1..nr_pages(r)
    BY <1>2, <1>4 DEF Unpinned
  <1> QED BY <1>5 DEF array

\* The balance of the references, with the numbers it speaks of.
PinsInv == PinsAccounted /\ \A p \in Page : pinned[p] \in Int /\ stray[p] \in Int

\* Every page is pinned as often as the array holds it, less the releases by
\* entries that get_user_pages has not written: whatever the uncleared array holds,
\* a pinning that fails half way leaves no page pinned.
THEOREM Pins == Spec => []PinsAccounted
  <1>1. Init => PinsInv
    <2> SUFFICES ASSUME Init, NEW p \in Page
                 PROVE  /\ pinned[p] + stray[p] = Count(pages, DOMAIN pages, p)
                        /\ pinned[p] \in Int /\ stray[p] \in Int
      BY DEF PinsInv, PinsAccounted
    <2> QED BY CountEmpty DEF Init
  <1>2. ASSUME IInv, IssuedInv, DataInv, PinsInv, [Next]_vars
        PROVE  PinsInv'
    <2>1. req \in Request
      BY <1>2 DEF IInv, TypeInv
    <2>2. \A p \in Page : /\ pinned[p] \in Int /\ stray[p] \in Int
                          /\ pinned[p] + stray[p] = Count(pages, DOMAIN pages, p)
      BY <1>2 DEF PinsInv, PinsAccounted
    <2>3. CASE pin_user_pages
      <3> DEFINE n == nr_pages(req)
                 array == Filled(req, n, [i \in 1..n |-> 0])
      <3>1. pages = <<>>
        BY <1>2, <2>3 DEF pin_user_pages, DataInv, PagesInv, HasPages, Active
      <3>2. n \in Nat
        BY <2>1, AllUnpinned
      <3>3. /\ pages' = array /\ pinned' = [p \in Page |-> pinned[p] + Count(array, 1..n, p)]
            /\ stray' = stray
        BY <2>3 DEF pin_user_pages
      <3>4. DOMAIN array = 1..n
        BY DEF Filled
      <3> HIDE DEF n, array
      <3>5. \A p \in Page : pinned[p] + stray[p] = 0
        BY <2>2, <3>1, CountEmpty
      <3>6. \A p \in Page : Count(array, 1..n, p) \in Nat
        BY <3>2, CountNat
      <3>7. \A p \in Page : /\ pinned'[p] \in Int /\ stray'[p] \in Int
                            /\ pinned'[p] + stray'[p] = Count(pages', DOMAIN pages', p)
        BY <2>2, <3>3, <3>4, <3>5, <3>6
      <3> QED BY <3>7 DEF PinsInv, PinsAccounted
    <2>4. CASE pin_failed
      <3>1. pages = <<>> /\ pages' = pages
        BY <1>2, <2>4 DEF pin_failed, DataInv, PagesInv, HasPages, Active
      <3>2. CASE UNCHANGED <<pinned, stray>>
        BY <2>2, <3>1, <3>2 DEF PinsInv, PinsAccounted
      <3>3. ASSUME NEW got \in 0..(nr_pages(req) - 1), NEW old,
                   LET array == Filled(req, got, old)
                       freed == Unpinned(array)
                   IN  /\ pinned' = [p \in Page |-> pinned[p] + Count(array, 1..got, p)
                                                             - Count(array, freed, p)]
                       /\ stray' = [p \in Page |-> stray[p] + Count(array, freed \ 1..got, p)]
            PROVE  PinsInv'
        <4> DEFINE array == Filled(req, got, old)
                   freed == Unpinned(array)
                   x(p) == Count(array, 1..got, p)
                   y(p) == Count(array, freed, p)
                   z(p) == Count(array, freed \ 1..got, p)
        <4>1. 1..got \subseteq freed /\ freed \subseteq 1..nr_pages(req)
          BY <2>1, PinnedIsReleased
        <4>2. nr_pages(req) \in Int /\ got \in Int
          BY <2>1, AllUnpinned
        <4>3. \A p \in Page : pinned'[p] = pinned[p] + x(p) - y(p) /\ stray'[p] = stray[p] + z(p)
          BY <3>3
        <4> HIDE DEF array, freed
        <4>4. \A p \in Page : y(p) = x(p) + z(p) /\ x(p) \in Nat /\ z(p) \in Nat
          <5> TAKE p \in Page
          <5>1. /\ Count(array, freed, p) = Count(array, 1..got, p) + Count(array, freed \ 1..got, p)
                /\ Count(array, 1..got, p) \in Nat /\ Count(array, freed \ 1..got, p) \in Nat
            BY ONLY <4>1, <4>2, CountSplit
          <5> QED BY <5>1
        <4> HIDE DEF x, y, z
        <4>5. \A p \in Page : /\ pinned'[p] \in Int /\ stray'[p] \in Int
                              /\ pinned'[p] + stray'[p] = pinned[p] + stray[p]
          BY <2>2, <4>3, <4>4
        <4>6. \A p \in Page : /\ pinned'[p] \in Int /\ stray'[p] \in Int
                              /\ pinned'[p] + stray'[p] = Count(pages', DOMAIN pages', p)
          BY <2>2, <3>1, <4>5
        <4> QED BY <4>6 DEF PinsInv, PinsAccounted
      <3> QED BY <2>4, <3>2, <3>3 DEF pin_failed
    <2>5. CASE unpin_user_pages
      <3>1. pages = Pinned(req)
        BY <1>2, <2>5 DEF unpin_user_pages, DataInv, PagesInv, HasPages
      <3>2. Unpinned(pages) = DOMAIN pages /\ DOMAIN pages = 1..nr_pages(req) /\ nr_pages(req) \in Int
        BY <2>1, <3>1, AllUnpinned
      <3>3. /\ pages' = <<>> /\ pinned' = [p \in Page |-> pinned[p] - Count(pages, Unpinned(pages), p)]
            /\ stray' = stray
        BY <2>5 DEF unpin_user_pages
      <3>4. \A p \in Page : Count(pages, DOMAIN pages, p) \in Nat
        BY <3>2, CountNat
      <3>5. \A p \in Page : pinned'[p] \in Int /\ stray'[p] \in Int /\ pinned'[p] + stray'[p] = 0
        BY <2>2, <3>2, <3>3, <3>4
      <3>6. \A p \in Page : /\ pinned'[p] \in Int /\ stray'[p] \in Int
                            /\ pinned'[p] + stray'[p] = Count(pages', DOMAIN pages', p)
        BY <3>3, <3>5, CountEmpty
      <3> QED BY <3>6 DEF PinsInv, PinsAccounted
    <2>6. CASE UNCHANGED <<pages, pinned, stray>>
      BY <2>2, <2>6 DEF PinsInv, PinsAccounted
    <2>7. pin_user_pages \/ pin_failed \/ unpin_user_pages \/ UNCHANGED <<pages, pinned, stray>>
      BY <1>2 DEF Next, Process, vars, memory, init_req_copy, no_channel, get_channel, pin_no_user,
                  submit, no_descriptor, sync_wait, wait_done, wait_timeout, AfterWait,
                  cpu_copy, return, Returned, hw_execute
    <2> QED BY <2>3, <2>4, <2>5, <2>6, <2>7
  <1>3. PinsInv => PinsAccounted
    BY DEF PinsInv
  <1> QED BY <1>1, <1>2, <1>3, DataInvariant, PTL DEF Spec
=============================================================================
