------------------------------ MODULE DmaCopy ------------------------------
(***************************************************************************)
(* A copy between user and kernel memory that the DMA engine makes, as in  *)
(* source/drivers/dma/dma_policy_ex_sh.c: the user pages are pinned, the   *)
(* copy is cut at their boundaries, each piece is given to the channel,    *)
(* the last one is waited for, and the pages are released.  The copies of  *)
(* source/arch/x86/include/asm/uaccess_64.h ("uaccess") do all of that in  *)
(* one call and fall back on the cpu; the drivers of micro-benchmark_Msg    *)
(* ("msg"), _Band ("band") and _Cache_2CPU ("cache") pin, copy and unpin   *)
(* with calls of their own.                                                *)
(*                                                                         *)
(* A process makes one copy after another on a channel that executes what  *)
(* is issued to it in order, as IoatChannel promises of an engine that     *)
(* does not fail.  User memory is a sequence of pages of PAGE_SIZE bytes,  *)
(* numbered from 1; page 0 is NULL.                                        *)
(***************************************************************************)
EXTENDS Integers, Sequences, FiniteSets, FiniteSetsExt

CONSTANTS
  PAGE_SIZE,
  MaxBase, MaxLen,        \* bounds of the user addresses and lengths
  MaxCopies,              \* copies the process makes
  Slots,                  \* descriptors of the channel
  Stale                   \* old pointers that memory from kmalloc may hold; 0 is NULL

ASSUME SizesAssumption ==
  /\ PAGE_SIZE \in Nat \ {0} /\ MaxBase \in Nat /\ MaxLen \in Nat
  /\ MaxCopies \in Nat /\ Slots \in Nat \ {0} /\ Stale \subseteq Nat

VARIABLES
  pc, req, copies,        \* the process, its request, and how many it has made
  pages,                  \* req->pages: the array of pages, empty when freed
  tmp_len, page_index, byte_offset,      \* of the loop over the pages
  status, ret,            \* req->status, and the value to return
  queue, issued,          \* what the channel has to do, and how much is issued
  copied,                 \* the bytes of the request that are in place
  pinned, dirty, written, \* references to each page; pages marked dirty and
                          \* pages the engine has written for this request
  stray                   \* (history) releases of a page by a stale entry

loop   == <<tmp_len, page_index, byte_offset>>
chan   == <<queue, issued>>
memory == <<pinned, dirty, written, stray>>
vars   == <<pc, req, copies, pages, loop, status, ret, chan, copied, memory>>

PageOf(a)  == a \div PAGE_SIZE + 1
LastPage   == PageOf(MaxBase + MaxLen)
Page       == 1..LastPage
Request    == [via : {"uaccess", "msg", "band", "cache"}, to_user : BOOLEAN, kernel_ds : BOOLEAN,
               base : 0..MaxBase, len : 0..MaxLen]
EBUSY      == -16

Init ==
  /\ pc = "idle" /\ copies = 0
  /\ req = [via |-> "msg", to_user |-> FALSE, kernel_ds |-> FALSE, base |-> 0, len |-> 0]
  /\ pages = <<>> /\ tmp_len = 0 /\ page_index = 0 /\ byte_offset = 0
  /\ status = "INIT" /\ ret = 0
  /\ queue = <<>> /\ issued = 0 /\ copied = {}
  /\ pinned = [p \in Page |-> 0] /\ dirty = {} /\ written = {}
  /\ stray = [p \in Page |-> 0]

-----------------------------------------------------------------------------
\* init_req_copy.  The uaccess functions then look for a channel; a driver pins
\* the pages first.
init_req_copy(r) ==
  /\ pc = "idle" /\ copies < MaxCopies
  /\ r.kernel_ds => r.via = "uaccess"
  /\ req' = r /\ copies' = copies + 1
  /\ status' = "INIT" /\ ret' = 0
  /\ copied' = {} /\ dirty' = {} /\ written' = {}
  /\ pc' = IF r.via # "uaccess" THEN "pin" ELSE IF r.len > 0 THEN "channel" ELSE "return"
  /\ UNCHANGED <<pages, loop, chan, pinned, stray>>

\* Without a channel the copy is given up.
no_channel ==
  /\ pc = "channel"
  /\ ret' = EBUSY
  /\ pc' = IF req.via # "uaccess" THEN "unpin" ELSE "return"
  /\ UNCHANGED <<req, copies, pages, loop, status, chan, copied, memory>>

\* The start of the loop over the pages.
StartLoop ==
  /\ tmp_len' = req.len /\ page_index' = 0 /\ byte_offset' = req.base % PAGE_SIZE

get_channel ==
  /\ pc = "channel"
  /\ IF req.via # "uaccess" THEN pc' = "submit" /\ StartLoop
     ELSE pc' = "pin" /\ UNCHANGED loop
  /\ UNCHANGED <<req, copies, pages, status, ret, chan, copied, memory>>

-----------------------------------------------------------------------------
(* Pinning.                                                                *)

PAGE_ALIGN(a) == ((a + PAGE_SIZE - 1) \div PAGE_SIZE) * PAGE_SIZE

nr_pages(r) == (PAGE_ALIGN(r.base + r.len) - (r.base - (r.base % PAGE_SIZE))) \div PAGE_SIZE

\* The array after get_user_pages has pinned the first got pages.
Filled(r, got, old) ==
  [i \in 1..nr_pages(r) |-> IF i <= got THEN PageOf(r.base) + i - 1 ELSE old[i]]

\* The entries dma_unpin_user_pages releases: those before the first NULL.
Unpinned_ButLast(array) == {i \in 1..(Len(array) - 1) : \A j \in 1..i : array[j] # 0}
Unpinned(array) == {i \in DOMAIN array : \A j \in 1..i : array[j] # 0}

Count(array, indices, p) == Cardinality({i \in indices : array[i] = p})

\* dma_pin_user_pages, when it succeeds.
pin_user_pages ==
  /\ pc = "pin" /\ ~req.kernel_ds
  /\ LET n == nr_pages(req)
         array == Filled(req, n, [i \in 1..n |-> 0])
     IN  /\ pages' = array
         /\ pinned' = [p \in Page |-> pinned[p] + Count(array, 1..n, p)]
  /\ IF req.via # "uaccess"
     THEN /\ pc' = IF req.len > 0 THEN "channel" ELSE "unpin"
          /\ UNCHANGED loop
     ELSE pc' = "submit" /\ StartLoop
  /\ UNCHANGED <<req, copies, status, ret, chan, copied, dirty, written, stray>>

\* dma_pin_user_pages, when the array cannot be allocated, and when access_ok
\* denies the access or get_user_pages pins too few pages: then what comes before
\* the first NULL is released, stale entries of the uncleared array too.
pin_failed ==
  /\ pc = "pin" /\ ~req.kernel_ds
  /\ \/ UNCHANGED <<pinned, stray>>
     \/ \E got \in 0..(nr_pages(req) - 1) : \E old \in [1..nr_pages(req) -> Stale] :
          LET array == Filled(req, got, old)
              freed == Unpinned(array)
          IN  /\ pinned' = [p \in Page |-> pinned[p] + Count(array, 1..got, p)
                                                      - Count(array, freed, p)]
              /\ stray' = [p \in Page |-> stray[p] + Count(array, freed \ 1..got, p)]
  /\ ret' = req.len
  /\ pc' = "return"
  /\ UNCHANGED <<req, copies, pages, loop, status, chan, copied, dirty, written>>

\* PIN_NO_USER: the user address is one of the kernel, and needs no pinning.
pin_no_user ==
  /\ pc = "pin" /\ req.kernel_ds
  /\ pc' = "submit" /\ StartLoop
  /\ UNCHANGED <<req, copies, pages, status, ret, chan, copied, memory>>

\* The callers' flag of dma_unpin_user_pages: SET_DIRTY_ON after a copy to the
\* user, but for Band, whose daemon sends q.write = 1 with every MB_UNLOAD, and
\* for Cache, whose read() passes SET_DIRTY_OFF and whose write() SET_DIRTY_ON.
SetDirty_Swapped(r) == ~r.to_user
SetDirty(r) ==
  CASE r.via = "band"  -> TRUE
    [] r.via = "cache" -> ~r.to_user
    [] OTHER           -> r.to_user

unpin_user_pages ==
  /\ pc = "unpin"
  /\ pinned' = [p \in Page |-> pinned[p] - Count(pages, Unpinned(pages), p)]
  /\ dirty' = dirty \union {pages[i] : i \in IF SetDirty(req) THEN Unpinned(pages) ELSE {}}
  /\ pages' = <<>>
  /\ pc' = "return"
  /\ UNCHANGED <<req, copies, loop, status, ret, chan, copied, written, stray>>

-----------------------------------------------------------------------------
(* The loop over the pages.                                                *)

\* The length of the next piece.
Piece_Unaligned == Min({PAGE_SIZE, tmp_len})
Piece == IF req.kernel_ds THEN tmp_len ELSE Min({PAGE_SIZE - byte_offset, tmp_len})

\* How far tmp_addr_kernel has come.
Sent_Stays == 0
Sent == req.len - tmp_len

\* dma_async_memcpy_pg_to_buf, _buf_to_pg or _buf_to_buf has a descriptor for the
\* next piece; its tx_submit may issue it, with those before it.
async_memcpy ==
  /\ Len(queue) < Slots
  /\ queue' = Append(queue, [copy |-> copies, len |-> Piece, at |-> Sent,
                              page |-> IF req.kernel_ds THEN 0 ELSE pages[page_index + 1],
                              offset |-> byte_offset, write |-> req.to_user])
  /\ issued' \in {issued, Len(queue')}

\* One turn of the loop.
submit ==
  /\ pc = "submit" /\ async_memcpy
  /\ tmp_len' = tmp_len - Piece
  /\ IF tmp_len' = 0 THEN pc' = "wait" /\ UNCHANGED <<page_index, byte_offset>>
     ELSE page_index' = page_index + 1 /\ byte_offset' = 0 /\ UNCHANGED pc
  /\ UNCHANGED <<req, copies, pages, status, ret, copied, memory>>

no_descriptor_NoIssue ==
  /\ pc = "submit" /\ (Len(queue) = Slots \/ ~(req.to_user \/ req.kernel_ds))
  /\ UNCHANGED vars
\* There is no descriptor, or dma_async_memcpy_pg_to_buf cannot map the piece:
\* what is there is issued, and the loop tries again.
no_descriptor ==
  /\ pc = "submit" /\ (Len(queue) = Slots \/ ~(req.to_user \/ req.kernel_ds))
  /\ issued' = Len(queue)
  /\ UNCHANGED <<pc, req, copies, pages, loop, status, ret, queue, copied, memory>>

\* dma_sync_wait issues what is pending ...
sync_wait ==
  /\ pc = "wait" /\ pc' = "poll"
  /\ issued' = Len(queue)
  /\ UNCHANGED <<req, copies, pages, loop, status, ret, queue, copied, memory>>

Finished == \A i \in DOMAIN queue : queue[i].copy # copies

\* ... and polls for the last piece, for no more than five seconds.
AfterWait(s) ==
  /\ pc = "poll"
  /\ status' = s /\ ret' = 0
  /\ pc' = IF req.kernel_ds THEN "return" ELSE "unpin"
  /\ UNCHANGED <<req, copies, pages, loop, chan, copied, memory>>
wait_done    == Finished /\ AfterWait("SUCCESS")
wait_timeout == AfterWait("ERROR")

-----------------------------------------------------------------------------
\* The uaccess functions let the cpu copy when the engine did not; the cpu stops
\* at a page it may not access, with left bytes to go.
Returned == pc' = "idle" /\ UNCHANGED <<req, copies, pages, loop, status, chan, memory>>

NeedsCpu_ErrorsOnly == ret < 0
NeedsCpu == ret < 0 \/ status # "SUCCESS"

cpu_copy(left) ==
  /\ pc = "return" /\ req.via = "uaccess" /\ NeedsCpu
  /\ left <= req.len
  /\ ret' = left /\ copied' = copied \union 0..(req.len - left - 1)
  /\ Returned

return ==
  /\ pc = "return" /\ (req.via = "uaccess" => ~NeedsCpu)
  /\ UNCHANGED <<ret, copied>>
  /\ Returned

-----------------------------------------------------------------------------
\* The engine makes the next piece of the copy that is issued.
hw_execute ==
  /\ issued > 0
  /\ queue' = Tail(queue) /\ issued' = issued - 1
  /\ LET d == Head(queue)
     IN  IF d.copy = copies
         THEN /\ copied' = copied \union d.at..(d.at + d.len - 1)
              /\ written' = written \union IF d.write /\ d.page # 0 THEN {d.page} ELSE {}
         ELSE UNCHANGED <<copied, written>>
  /\ UNCHANGED <<pc, req, copies, pages, loop, status, ret, pinned, dirty, stray>>

Process ==
  \/ no_channel \/ get_channel
  \/ pin_user_pages \/ pin_failed \/ pin_no_user \/ unpin_user_pages
  \/ submit \/ no_descriptor \/ sync_wait \/ wait_done \/ wait_timeout
  \/ (\E left \in 0..MaxLen : cpu_copy(left)) \/ return

Next == (\E r \in Request : init_req_copy(r)) \/ Process \/ hw_execute

Spec == Init /\ [][Next]_vars

\* The process runs, the engine executes what is issued to it, and a mapping
\* does not fail for ever while there are descriptors.
Fairness == WF_vars(Process) /\ WF_vars(hw_execute) /\ SF_vars(submit)

FairSpec == Spec /\ Fairness

-----------------------------------------------------------------------------
\* Every variable has its type.
Descriptor == [copy : 1..MaxCopies, len : 1..MaxLen, at : 0..(MaxLen - 1),
               page : 0..LastPage, offset : 0..(PAGE_SIZE - 1), write : BOOLEAN]
TypeOK ==
  /\ pc \in {"idle", "channel", "pin", "submit", "wait", "poll", "unpin", "return"}
  /\ req \in Request /\ copies \in 0..MaxCopies
  /\ pages \in Seq(Page) /\ tmp_len \in 0..MaxLen
  /\ page_index \in Nat /\ byte_offset \in 0..(PAGE_SIZE - 1)
  /\ status \in {"INIT", "SUCCESS", "ERROR"} /\ ret \in {EBUSY} \union 0..MaxLen
  /\ queue \in Seq(Descriptor) /\ Len(queue) <= Slots /\ issued \in 0..Len(queue)
  /\ copied \subseteq 0..MaxLen
  /\ pinned \in [Page -> Int] /\ stray \in [Page -> Nat]
  /\ dirty \subseteq Page /\ written \subseteq Page

Bytes(d) == d.at..(d.at + d.len - 1)
Mine     == {i \in DOMAIN queue : queue[i].copy = copies}
\* The pieces of a copy are its bytes: each byte is given to the channel once and
\* none is left out, while the engine works through them and descriptors run out.
PiecesTile ==
  pc \in {"submit", "wait", "poll"} =>
    /\ copied \union UNION {Bytes(queue[i]) : i \in Mine} = 0..(Sent - 1)
    /\ \A i \in Mine :
         /\ Bytes(queue[i]) \intersect copied = {}
         /\ \A j \in Mine \ {i} : Bytes(queue[i]) \intersect Bytes(queue[j]) = {}

\* No piece crosses the end of its page, and each is at the place of its user
\* address.
PiecesPlaced ==
  pc \in {"submit", "wait", "poll"} /\ ~req.kernel_ds =>
    \A i \in Mine :
      /\ queue[i].offset + queue[i].len <= PAGE_SIZE
      /\ (queue[i].page - 1) * PAGE_SIZE + queue[i].offset = req.base + queue[i].at

\* The loop never takes a page beyond the nr_pages of the array.
IndexInArray == pc = "submit" /\ ~req.kernel_ds => page_index < Len(pages)

\* The pieces are copied from and to the pages of the copy, and to no others.
PagesMeant == IndexInArray /\ PiecesPlaced

\* A page is pinned as often as the array holds it, less the times a stale entry
\* released it: pinning that fails half way, and unpinning, leave no page pinned,
\* and release a page that was not pinned only by way of an entry of the array
\* that get_user_pages has not written.
PinsAccounted ==
  \A p \in Page : pinned[p] + stray[p] = Count(pages, DOMAIN pages, p)

\* A page the engine has written is dirty before it is released, by the functions
\* of uaccess_64.h and by the drivers of Msg and Band.  Nothing is claimed of the
\* Cache driver, which releases what it has written unmarked.
WrittenDirty ==
  pc = "return" /\ status = "SUCCESS" /\ req.via # "cache" => written \subseteq dirty

\* A copy of uaccess_64.h that leaves left bytes has put the others in place,
\* however the engine, the pinning and the wait went.
ReturnMeansCopied ==
  pc = "idle" /\ copies > 0 /\ req.via = "uaccess" => 0..(req.len - ret - 1) \subseteq copied

\* The pages of a piece stay pinned while the channel has the piece.
PagesResident ==
  \A i \in DOMAIN queue : queue[i].page # 0 => pinned[queue[i].page] > 0

\* Every copy returns.
CopyReturns == pc # "idle" ~> pc = "idle"
=============================================================================
