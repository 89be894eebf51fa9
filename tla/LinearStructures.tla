-------------------------- MODULE LinearStructures --------------------------
(***************************************************************************)
(* Sequences in memory: ring_buffer.cpp, dynamic_array.cpp, deques.cpp,    *)
(* stacks_and_queues.cpp, doubly_linked_list.cpp, skip_list.cpp, the       *)
(* allocators of memory_allocation_and_fragmentation.cpp, the gap          *)
(* buffer and the piece table of ropes_gap_buffers_piece_tables.cpp, and   *)
(* the functions of monotonic_stack_and_queue.cpp.  rep is what is in      *)
(* memory, slots and cells that are not in use included; content is the    *)
(* sequence that the calls have built.  Calls that throw change nothing    *)
(* and are left out.                                                       *)
(***************************************************************************)
EXTENDS Integers, SequencesExt, FiniteSetsExt, TLC

CONSTANTS Item,
          Requested,   \* the capacities asked for
          W,           \* positions are counted modulo W (2^64 in the code)
          MaxLength,   \* bound: items of a sequence; cells of the linked lists
          Slack        \* what the gap buffer grows by at least (16 in the code)

VARIABLES rep,      \* what is in memory, or the input of a function
          content   \* the sequence it stands for

linVars == <<rep, content>>

AnItem == CHOOSE x \in Item : TRUE
Room == Len(content) < MaxLength
RemovedAt(s, i) == SubSeq(s, 1, i - 1) \o SubSeq(s, i + 1, Len(s))
-----------------------------------------------------------------------------
(* RingBuffer: two positions that only grow, until they wrap around, are    *)
(* masked to find a slot                                                    *)

\* The least power of two that is at least n, and at least 1
RECURSIVE NextPowerOfTwo(_, _)
NextPowerOfTwo(n, c) == IF n <= c THEN c ELSE NextPowerOfTwo(n, 2 * c)

RBInit ==
    /\ \E n \in Requested :
        LET cap == NextPowerOfTwo(n, 1)
        IN  rep = [cap |-> cap, buffer |-> [i \in 0 .. cap - 1 |-> CHOOSE x \in Item : TRUE],
                   head |-> 0, tail |-> 0]
    /\ content = << >>

Count(R) == (R.tail - R.head) % W
Full(R) == Count(R) = R.cap
At(R, position) == R.buffer[position % R.cap]

Written(R, x) == [R EXCEPT !.buffer[R.tail % R.cap] = x, !.tail = (@ + 1) % W]

\* push() of either kind
Push(x) ==
    /\ rep' = IF Full(rep) THEN rep ELSE Written(rep, x)
    /\ content' = IF Full(rep) THEN content ELSE Append(content, x)

PushOverwrite(x) ==
    /\ rep' = Written(IF Full(rep) THEN [rep EXCEPT !.head = (@ + 1) % W] ELSE rep, x)
    /\ content' = Append(IF Full(rep) THEN Tail(content) ELSE content, x)

Pop ==
    /\ rep.head # rep.tail
    /\ rep' = [rep EXCEPT !.head = (@ + 1) % W]
    /\ content' = Tail(content)

Clear ==
    /\ rep' = [rep EXCEPT !.head = 0, !.tail = 0]
    /\ content' = << >>

RBNext == Pop \/ Clear \/ \E x \in Item : Push(x) \/ PushOverwrite(x)

\* The slots from head_ to tail_ hold the items that were pushed and neither
\* popped nor overwritten, in order, also after the positions have wrapped.
RingExact ==
    /\ Count(rep) = Len(content) /\ Len(content) <= rep.cap
    /\ \A i \in 1 .. Len(content) : At(rep, (rep.head + i - 1) % W) = content[i]
-----------------------------------------------------------------------------
(* DynamicArray: data_ counts from 1; slots past size_ keep what they had   *)

DAInit ==
    /\ \E n \in Requested : rep = [data |-> [i \in 1 .. n |-> AnItem], size |-> 0]
    /\ content = << >>

Capacity == Len(rep.data)

\* new[] of a larger array: what is not moved is a default item.
Reallocated(R, capacity) ==
    [R EXCEPT !.data = [i \in 1 .. capacity |-> IF i <= R.size THEN R.data[i] ELSE AnItem]]

WithRoom(R) ==
    LET capacity == Len(R.data)
    IN  IF R.size < capacity THEN R
        ELSE Reallocated(R, IF capacity = 0 THEN 1 ELSE 2 * capacity)

\* push_back() is an insertion at the end.
InsertedIn(R, at, x) ==
    [R EXCEPT !.data = [i \in DOMAIN R.data |->
                            CASE i = at -> x
                              [] i \in at + 1 .. R.size + 1 -> R.data[i - 1]
                              [] OTHER -> R.data[i]],
              !.size = @ + 1]

DAInsert(at, x) ==
    /\ Room
    /\ rep' = InsertedIn(WithRoom(rep), at, x)
    /\ content' = InsertAt(content, at, x)

DAErase(at) ==
    /\ rep' = [rep EXCEPT !.data = [i \in DOMAIN @ |-> IF i \in at .. rep.size - 1
                                                       THEN @[i + 1] ELSE @[i]],
                          !.size = @ - 1]
    /\ content' = RemovedAt(content, at)

DAPopBack ==
    /\ rep.size > 0
    /\ rep' = [rep EXCEPT !.size = @ - 1]
    /\ content' = Front(content)

DAClear == rep' = [rep EXCEPT !.size = 0] /\ content' = << >>

Reserve(n) ==
    /\ rep' = IF n > Capacity THEN Reallocated(rep, n) ELSE rep
    /\ UNCHANGED content

ShrinkToFit ==
    /\ rep' = IF Capacity > rep.size THEN Reallocated(rep, rep.size) ELSE rep
    /\ UNCHANGED content

DANext ==
    \/ \E x \in Item : \E at \in 1 .. rep.size + 1 : DAInsert(at, x)
    \/ \E at \in 1 .. rep.size : DAErase(at)
    \/ DAPopBack \/ DAClear \/ ShrinkToFit
    \/ \E n \in Requested : Reserve(n)

\* The array is what was pushed, inserted and erased, whatever capacity it has.
DAExact == rep.size <= Capacity /\ SubSeq(rep.data, 1, rep.size) = content
-----------------------------------------------------------------------------
(* CircularDeque, and CircularQueue, which keeps both ends and a size       *)

CDInit ==
    /\ \E n \in Requested \ {0} :
           rep = [data |-> [i \in 0 .. n - 1 |-> AnItem], front |-> 0, tail |-> 0, size |-> 0]
    /\ content = << >>

Slots == Cardinality(DOMAIN rep.data)

CDPushFront(x) ==
    /\ rep.size < Slots
    /\ LET front == (rep.front - 1 + Slots) % Slots
       IN  rep' = [rep EXCEPT !.front = front, !.data[front] = x, !.size = @ + 1]
    /\ content' = <<x>> \o content

CDPushBack(x) ==
    /\ rep.size < Slots
    /\ rep' = [rep EXCEPT !.data[(rep.front + rep.size) % Slots] = x, !.size = @ + 1]
    /\ content' = Append(content, x)

CDPopFront ==
    /\ rep.size > 0
    /\ rep' = [rep EXCEPT !.front = (@ + 1) % Slots, !.size = @ - 1]
    /\ content' = Tail(content)

CDPopBack ==
    /\ rep.size > 0
    /\ rep' = [rep EXCEPT !.size = @ - 1]
    /\ content' = Front(content)

CDNext == CDPopFront \/ CDPopBack \/ \E x \in Item : CDPushFront(x) \/ CDPushBack(x)

CQPush(x) ==
    /\ rep.size < Slots
    /\ rep' = [rep EXCEPT !.data[rep.tail] = x, !.tail = (@ + 1) % Slots, !.size = @ + 1]
    /\ content' = Append(content, x)

CQNext == CDPopFront \/ \E x \in Item : CQPush(x)

\* front() and back(), and what lies between.
CircularExact ==
    /\ rep.size = Len(content)
    /\ \A i \in 1 .. rep.size : rep.data[(rep.front + i - 1) % Slots] = content[i]
-----------------------------------------------------------------------------
(* LinkedDeque, LinkedQueue and LinkedStack: cells are numbered, 0 is       *)
(* nullptr; a sequence of the cells stands for one of values                *)

Cell == 1 .. MaxLength

LDInit ==
    /\ rep = [next |-> [c \in Cell |-> 0], prev |-> [c \in Cell |-> 0], head |-> 0, tail |-> 0]
    /\ content = << >>

Unused(c) == \A i \in DOMAIN content : content[i] # c

LDPushFront(c) ==
    /\ Unused(c)
    /\ LET fresh == [rep EXCEPT !.next[c] = rep.head, !.prev[c] = 0, !.head = c]
       IN  rep' = IF rep.head # 0 THEN [fresh EXCEPT !.prev[rep.head] = c]
                  ELSE [fresh EXCEPT !.tail = c]
    /\ content' = <<c>> \o content

LDPushBack(c) ==
    /\ Unused(c)
    /\ LET fresh == [rep EXCEPT !.next[c] = 0, !.prev[c] = rep.tail, !.tail = c]
       IN  rep' = IF rep.tail # 0 THEN [fresh EXCEPT !.next[rep.tail] = c]
                  ELSE [fresh EXCEPT !.head = c]
    /\ content' = Append(content, c)

LDPopFront ==
    /\ rep.head # 0
    /\ LET second == rep.next[rep.head]
       IN  rep' = IF second # 0 THEN [rep EXCEPT !.head = second, !.prev[second] = 0]
                  ELSE [rep EXCEPT !.head = 0, !.tail = 0]
    /\ content' = Tail(content)

LDPopBack ==
    /\ rep.tail # 0
    /\ LET second == rep.prev[rep.tail]
       IN  rep' = IF second # 0 THEN [rep EXCEPT !.tail = second, !.next[second] = 0]
                  ELSE [rep EXCEPT !.head = 0, !.tail = 0]
    /\ content' = Front(content)

LDClear == rep' = [rep EXCEPT !.head = 0, !.tail = 0] /\ content' = << >>

LDNext ==
    \/ LDPopFront \/ LDPopBack \/ LDClear
    \/ \E c \in Cell : LDPushFront(c) \/ LDPushBack(c)

\* The queue and the stack have no prev.
LQPush(c) ==
    /\ Unused(c)
    /\ rep' = [rep EXCEPT !.next = IF rep.tail # 0 THEN [@ EXCEPT ![rep.tail] = c, ![c] = 0]
                                   ELSE [@ EXCEPT ![c] = 0],
                          !.head = IF rep.tail = 0 THEN c ELSE @,
                          !.tail = c]
    /\ content' = Append(content, c)

LQPop ==
    /\ rep.head # 0
    /\ LET second == rep.next[rep.head]
       IN  rep' = [rep EXCEPT !.head = second, !.tail = IF second = 0 THEN 0 ELSE @]
    /\ content' = Tail(content)

LQNext == LQPop \/ LDClear \/ \E c \in Cell : LQPush(c)

LSPush(c) ==
    /\ Unused(c)
    /\ rep' = [rep EXCEPT !.next[c] = rep.head, !.head = c]
    /\ content' = <<c>> \o content

LSPop ==
    /\ rep.head # 0
    /\ rep' = [rep EXCEPT !.head = rep.next[rep.head]]
    /\ content' = Tail(content)

LSNext == LSPop \/ \E c \in Cell : LSPush(c)

\* The cells from head_ on are the sequence, and tail_ is the last of them.
Linked(R, s) ==
    LET at(i) == IF i \in DOMAIN s THEN s[i] ELSE 0
    IN  R.head = at(1) /\ \A i \in DOMAIN s : R.next[s[i]] = at(i + 1)
LQExact == Linked(rep, content) /\ rep.tail = (IF content = << >> THEN 0 ELSE Last(content))
LDExact ==
    LET at(i) == IF i \in DOMAIN content THEN content[i] ELSE 0
    IN  LQExact /\ \A i \in DOMAIN content : rep.prev[content[i]] = at(i - 1)
LSExact == Linked(rep, content)
-----------------------------------------------------------------------------
(* DoublyLinkedList: two lists, each between two sentinels.  content is the *)
(* pair of their cells.                                                     *)

List == {1, 2}
HeadOf(l) == -l
TailOf(l) == MaxLength + l
Place == Cell \union {HeadOf(l) : l \in List} \union {TailOf(l) : l \in List}

DLInit ==
    /\ rep = [next |-> [p \in Place |-> IF p < 0 THEN TailOf(-p) ELSE 0],
              prev |-> [p \in Place |-> IF p > MaxLength THEN HeadOf(p - MaxLength) ELSE 0],
              size |-> [l \in List |-> 0]]
    /\ content = [l \in List |-> << >>]

LinkedBefore(R, at, c) ==
    LET before == R.prev[at]
    IN  [R EXCEPT !.prev = [@ EXCEPT ![c] = before, ![at] = c],
                  !.next = [@ EXCEPT ![c] = at, ![before] = c]]
UnlinkedCell(R, c) ==
    [R EXCEPT !.next[R.prev[c]] = R.next[c], !.prev[R.next[c]] = R.prev[c]]

InList(c, l) == c \in ToSet(content[l])
\* A position of list l: one of its cells, or its end.
Position(at, l) == IF at = TailOf(l) THEN Len(content[l]) + 1
                   ELSE CHOOSE i \in DOMAIN content[l] : content[l][i] = at
Positions(l) == ToSet(content[l]) \union {TailOf(l)}

InsertBefore(l, at, c) ==
    /\ \A k \in List : ~InList(c, k)
    /\ rep' = [LinkedBefore(rep, at, c) EXCEPT !.size[l] = @ + 1]
    /\ content' = [content EXCEPT ![l] = InsertAt(@, Position(at, l), c)]

DLErase(l, c) ==
    /\ rep' = [UnlinkedCell(rep, c) EXCEPT !.size[l] = @ - 1]
    /\ content' = [content EXCEPT ![l] = RemovedAt(@, Position(c, l))]

\* splice(): within a list too, but never a node before itself.
Spliced(R, at, c) == LinkedBefore(UnlinkedCell(R, c), at, c)

Splice(l, at, other, c) ==
    /\ at # c
    /\ rep' = LET R == Spliced(rep, at, c)
                  left == [R EXCEPT !.size[other] = @ - 1]
              IN  [left EXCEPT !.size[l] = @ + 1]
    /\ LET left == [content EXCEPT ![other] = RemovedAt(@, Position(c, other))]
           to == IF at = TailOf(l) THEN Len(left[l]) + 1
                 ELSE CHOOSE i \in DOMAIN left[l] : left[l][i] = at
       IN  content' = [left EXCEPT ![l] = InsertAt(@, to, c)]

\* The move constructor and assignment: new sentinels, then swap().
DLSwap ==
    LET other(l) == 3 - l
        swapped(p) == CASE p < 0         -> HeadOf(other(-p))
                        [] p > MaxLength -> TailOf(other(p - MaxLength))
                        [] OTHER         -> p
    IN  /\ rep' = [next |-> [p \in Place |-> swapped(rep.next[swapped(p)])],
                   prev |-> [p \in Place |-> swapped(rep.prev[swapped(p)])],
                   size |-> [l \in List |-> rep.size[other(l)]]]
        /\ content' = [l \in List |-> content[other(l)]]

DLNext ==
    \/ DLSwap
    \/ \E l \in List :
          \/ \E at \in Positions(l), c \in Cell : InsertBefore(l, at, c)
          \/ \E c \in ToSet(content[l]) : DLErase(l, c)
          \/ \E at \in Positions(l), other \in List : \E c \in ToSet(content[other]) :
                Splice(l, at, other, c)

\* From sentinel to sentinel, forwards and backwards, each list passes its cells.
DLExact ==
    \A l \in List :
        LET path == <<HeadOf(l)>> \o content[l] \o <<TailOf(l)>>
        IN  /\ rep.size[l] = Len(content[l])
            /\ \A i \in 2 .. Len(path) :
                  rep.next[path[i - 1]] = path[i] /\ rep.prev[path[i]] = path[i - 1]
-----------------------------------------------------------------------------
(* memory_allocation_and_fragmentation.cpp                                  *)
(* ArenaAllocator: content are the pieces <<first byte, bytes>> handed out   *)

AlignUp(n, alignment) == ((n + alignment - 1) \div alignment) * alignment

ArenaInit ==
    /\ \E n \in Requested : rep = [capacity |-> 5 * n, offset |-> 0]
    /\ content = << >>

\* nullptr if what is left after the padding is too small
ArenaAllocate(bytes, alignment) ==
    LET start == AlignUp(rep.offset, alignment)
    IN  /\ start + bytes <= rep.capacity
        /\ rep' = [rep EXCEPT !.offset = start + bytes]
        /\ content' = Append(content, <<start, bytes, alignment>>)

Reset == rep' = [rep EXCEPT !.offset = 0] /\ content' = << >>

ArenaNext ==
    \/ \E bytes \in {1, 3, 8}, alignment \in {1, 2, 8} : Room /\ ArenaAllocate(bytes, alignment)
    \/ Reset

\* The pieces are aligned, lie in the buffer and do not overlap; what was used is
\* up to the end of the last one, and less than an alignment is lost before each.
ArenaExact ==
    LET end(i) == IF i = 0 THEN 0 ELSE content[i][1] + content[i][2]
    IN  /\ rep.offset = end(Len(content)) /\ rep.offset <= rep.capacity
        /\ \A i \in DOMAIN content :
              /\ content[i][1] % content[i][3] = 0
              /\ content[i][1] - end(i - 1) \in 0 .. content[i][3] - 1
-----------------------------------------------------------------------------
(* PoolAllocator: a free slot holds the next one, a slot in use what its    *)
(* user writes into it, which may look like any slot.  content are the free *)
(* slots, the one that goes next first.                                     *)

NoSlot == 0

PoolInit ==
    \E capacity \in Requested :
        /\ rep = [next |-> [i \in 1 .. capacity |-> i - 1], free |-> capacity, allocated |-> 0]
        /\ content = [i \in 1 .. capacity |-> capacity + 1 - i]

\* nullptr if the pool is exhausted; the caller writes into the slot.
PoolAllocate ==
    /\ rep.free # NoSlot
    /\ \E written \in DOMAIN rep.next \union {NoSlot} :
          rep' = [rep EXCEPT !.free = rep.next[rep.free], !.next[rep.free] = written,
                             !.allocated = @ + 1]
    /\ content' = Tail(content)

\* A slot is given back once, by who has it.
PoolDeallocate(slot) ==
    /\ slot \notin ToSet(content)
    /\ rep' = [rep EXCEPT !.next[slot] = rep.free, !.free = slot, !.allocated = @ - 1]
    /\ content' = <<slot>> \o content

PoolNext == PoolAllocate \/ \E slot \in DOMAIN rep.next : PoolDeallocate(slot)

RECURSIVE FreeList(_, _)
FreeList(slot, n) ==
    IF slot = NoSlot \/ n = 0 THEN << >> ELSE <<slot>> \o FreeList(rep.next[slot], n - 1)

\* The list leads through all free slots and no others, the last one given back
\* first, whatever is written into the slots in use.
PoolExact ==
    /\ FreeList(rep.free, Cardinality(DOMAIN rep.next) + 1) = content
    /\ rep.allocated + Len(content) = Cardinality(DOMAIN rep.next)
-----------------------------------------------------------------------------
(* GapBuffer: buffer_ counts from 1; content is the text and the cursor     *)

GBInit ==
    /\ \E n \in Requested : rep = [buffer |-> [i \in 1 .. n |-> AnItem], start |-> 0, end |-> n]
    /\ content = [text |-> << >>, cursor |-> 0]

Grown(R, needed) ==
    LET capacity == Len(R.buffer)
        newCapacity == Max({2 * capacity, capacity + needed + Slack})
        shift == newCapacity - capacity
    IN  [R EXCEPT !.buffer = [i \in 1 .. newCapacity |->
                                 CASE i <= R.start -> R.buffer[i]
                                   [] i > R.end + shift -> R.buffer[i - shift]
                                   [] OTHER -> AnItem],
                  !.end = @ + shift]

\* What the cursor passes moves to the other side of the gap, one by one.
RECURSIVE CursorMoved(_, _)
CursorMoved(R, pos) ==
    CASE pos < R.start -> CursorMoved([R EXCEPT !.buffer[R.end] = R.buffer[R.start],
                                                !.start = @ - 1, !.end = @ - 1], pos)
      [] pos > R.start -> CursorMoved([R EXCEPT !.buffer[R.start + 1] = R.buffer[R.end + 1],
                                                !.start = @ + 1, !.end = @ + 1], pos)
      [] OTHER -> R

GBMove(pos) ==
    /\ rep' = CursorMoved(rep, pos)
    /\ content' = [content EXCEPT !.cursor = pos]

GBInsert(s) ==
    LET R == IF rep.end - rep.start < Len(s) THEN Grown(rep, Len(s)) ELSE rep
    IN  /\ Len(content.text) + Len(s) <= MaxLength
        /\ rep' = [R EXCEPT !.buffer = [i \in DOMAIN @ |->
                                            IF i \in R.start + 1 .. R.start + Len(s)
                                            THEN s[i - R.start] ELSE @[i]],
                            !.start = @ + Len(s)]
        /\ content' = [text |-> SubSeq(content.text, 1, content.cursor) \o s
                                    \o SubSeq(content.text, content.cursor + 1, Len(content.text)),
                       cursor |-> content.cursor + Len(s)]

EraseBack ==
    /\ rep.start > 0
    /\ rep' = [rep EXCEPT !.start = @ - 1]
    /\ content' = [text |-> RemovedAt(content.text, content.cursor), cursor |-> content.cursor - 1]

GBNext ==
    \/ EraseBack
    \/ \E pos \in 0 .. Len(content.text) : GBMove(pos)
    \/ \E s \in BoundedSeq(Item, 2) : GBInsert(s)

\* to_string(), size() and cursor() around the gap.
GapExact ==
    /\ rep.start <= rep.end /\ rep.start = content.cursor
    /\ SubSeq(rep.buffer, 1, rep.start) \o SubSeq(rep.buffer, rep.end + 1, Len(rep.buffer))
           = content.text
-----------------------------------------------------------------------------
(* PieceTable: pieces are <<buffer, start, length>>, and buffers only grow  *)

PTInit ==
    \E text \in BoundedSeq(Item, 2) :
        /\ rep = [original |-> text, add |-> << >>,
                  pieces |-> IF text = << >> THEN << >> ELSE <<<<"original", 0, Len(text)>>>>]
        /\ content = text

Before(pieces, i) == FoldLeft(LAMBDA n, p : n + p[3], 0, SubSeq(pieces, 1, i - 1))

\* At the end what was added last is made longer; elsewhere the first piece that
\* starts at pos or contains it decides.
PiecesWith(pieces, pos, added) ==
    LET whole == Before(pieces, Len(pieces) + 1)
        last == Last(pieces)
        i == Min({k \in DOMAIN pieces : pos < Before(pieces, k + 1)})
        left == pos - Before(pieces, i)
        p == pieces[i]
    IN  CASE pieces = << >> -> <<added>>
          [] pieces # << >> /\ pos = whole ->
                 IF last[1] = "add" /\ last[2] + last[3] = added[2]
                 THEN [pieces EXCEPT ![Len(pieces)][3] = @ + added[3]]
                 ELSE Append(pieces, added)
          [] OTHER -> SubSeq(pieces, 1, i - 1)
                          \o (IF left = 0 THEN <<added, p>>
                              ELSE <<<<p[1], p[2], left>>, added,
                                     <<p[1], p[2] + left, p[3] - left>>>>)
                          \o SubSeq(pieces, i + 1, Len(pieces))

PTInsert(pos, s) ==
    /\ Len(rep.add) + Len(s) <= MaxLength
    /\ rep' = [rep EXCEPT !.add = @ \o s,
                          !.pieces = PiecesWith(@, pos, <<"add", Len(rep.add), Len(s)>>)]
    /\ content' = SubSeq(content, 1, pos) \o s \o SubSeq(content, pos + 1, Len(content))

\* Of every piece remain the parts before pos and from pos + length on.
PTErase(pos, length) ==
    LET remains(i) ==
            LET p == rep.pieces[i]
                start == Before(rep.pieces, i)
                end == start + p[3]
                skipped == pos + length - start
            IN  IF end <= pos \/ start >= pos + length THEN <<p>>
                ELSE (IF pos > start THEN <<<<p[1], p[2], pos - start>>>> ELSE << >>)
                     \o (IF pos + length < end
                         THEN <<<<p[1], p[2] + skipped, p[3] - skipped>>>> ELSE << >>)
    IN  /\ rep' = [rep EXCEPT !.pieces = FlattenSeq([i \in DOMAIN rep.pieces |-> remains(i)])]
        /\ content' = SubSeq(content, 1, pos) \o SubSeq(content, pos + length + 1, Len(content))

PTNext ==
    \/ \E pos \in 0 .. Len(content), s \in BoundedSeq(Item, 2) \ {<< >>} : PTInsert(pos, s)
    \/ \E pos \in 0 .. Len(content) : \E length \in 1 .. Len(content) - pos : PTErase(pos, length)

\* The pieces in order are the text, and no piece is empty.
PiecesExact ==
    LET part(p) == SubSeq(IF p[1] = "original" THEN rep.original ELSE rep.add, p[2] + 1, p[2] + p[3])
    IN  /\ FlattenSeq([i \in DOMAIN rep.pieces |-> part(rep.pieces[i])]) = content
        /\ \A i \in DOMAIN rep.pieces : rep.pieces[i][3] > 0
-----------------------------------------------------------------------------
(* SkipList: a node is its key, 0 is head_ and Nil nullptr; forward has one *)
(* entry per level of the node's tower, whose height is a throw of coins.   *)
(* content maps the keys to their values.                                   *)

SkipKey == 1 .. MaxLength
Nil == MaxLength + 1
Level == 1 .. W      \* bound: MAX_LEVEL is 16 in the code

SKInit ==
    /\ rep = [forward |-> 0 :> [i \in Level |-> Nil], level |-> 1]
    /\ content = [k \in {} |-> AnItem]

\* From curr along a level as long as the keys are less.
RECURSIVE Along(_, _, _)
Along(i, curr, key) ==
    IF rep.forward[curr][i] < key THEN Along(i, rep.forward[curr][i], key) ELSE curr

\* update[i]: where the search leaves level i; above current_level_ it is head_.
SearchPath(key) ==
    LET update[i \in 1 .. W + 1] ==
            IF i > rep.level THEN 0 ELSE Along(i, update[i + 1], key)
    IN  update

SKFound(key) == rep.forward[SearchPath(key)[1]][1]

SKFind(key) == SKFound(key) = key /\ key \in DOMAIN content

SKInsert(key, val, height) ==
    LET update == SearchPath(key)
        node == [i \in 1 .. height |-> rep.forward[update[i]][i]]
        behind(n, f) == [i \in DOMAIN f |-> IF i <= height /\ update[i] = n THEN key ELSE f[i]]
    IN  /\ SKFound(key) # key
        /\ rep' = [forward |-> [n \in DOMAIN rep.forward \union {key} |->
                                    IF n = key THEN node ELSE behind(n, rep.forward[n])],
                   level |-> Max({rep.level, height})]
        /\ content' = [k \in DOMAIN content \union {key} |->
                            IF k = key THEN val ELSE content[k]]

SKReplace(key, val) ==
    /\ SKFound(key) = key
    /\ content' = [content EXCEPT ![key] = val]
    /\ UNCHANGED rep

\* From the bottom, up to the first level whose path does not lead to the node.
SKErase(key) ==
    LET update == SearchPath(key)
        leads == {i \in 1 .. rep.level : \A j \in 1 .. i : rep.forward[update[j]][j] = key}
        skip(n, f) == [i \in DOMAIN f |-> IF i \in leads /\ update[i] = n
                                          THEN rep.forward[key][i] ELSE f[i]]
        forward == [n \in DOMAIN rep.forward \ {key} |-> skip(n, rep.forward[n])]
    IN  /\ SKFound(key) = key
        /\ rep' = [forward |-> forward,
                   level |-> Max({1} \union {i \in 1 .. rep.level : forward[0][i] # Nil})]
        /\ content' = [k \in DOMAIN content \ {key} |-> content[k]]

SKNext ==
    \E key \in SkipKey :
        \/ SKErase(key)
        \/ \E val \in Item : SKReplace(key, val) \/ \E height \in Level : SKInsert(key, val, height)

\* On every level the nodes that are high enough, in order: the list on the bottom
\* holds all of them, and the search finds exactly what is there.
SkipExact ==
    LET high(i) == {n \in DOMAIN rep.forward : i \in DOMAIN rep.forward[n]}
        next(n, i) == Min({m \in high(i) : m > n} \union {Nil})
    IN  /\ DOMAIN rep.forward = DOMAIN content \union {0}
        /\ \A i \in Level : \A n \in high(i) : rep.forward[n][i] = next(n, i)
        /\ \A i \in Level : (i > 1 /\ high(i) # {0}) => i <= rep.level
        /\ \A key \in SkipKey : SKFind(key) <=> key \in DOMAIN content
-----------------------------------------------------------------------------
(* The functions of monotonic_stack_and_queue.cpp.  Positions count from 1; *)
(* 0, or one behind the array, says that there is none.                     *)

\* The elements that are popped while P holds of the top are the end of the stack.
Kept(st, P(_)) == Max({0} \union {i \in DOMAIN st : ~P(st[i])})
Positive(s) == [i \in DOMAIN s |-> i]

NextGreaterIndices(a) ==
    LET step(at, i) ==
            LET k == Kept(at.st, LAMBDA j : a[i] > a[j])
                popped == ToSet(SubSeq(at.st, k + 1, Len(at.st)))
            IN  [st |-> Append(SubSeq(at.st, 1, k), i),
                 ans |-> [j \in DOMAIN a |-> IF j \in popped THEN i ELSE at.ans[j]]]
    IN  FoldLeft(step, [st |-> << >>, ans |-> [j \in DOMAIN a |-> 0]], Positive(a)).ans

DailyTemperatures(a) ==
    LET next == NextGreaterIndices(a)
    IN  [i \in DOMAIN a |-> IF next[i] = 0 THEN 0 ELSE next[i] - i]

\* 2n positions, of which only the first n are pushed.
NextGreaterCircular(a) ==
    LET step(at, v) ==
            LET i == ((v - 1) % Len(a)) + 1
                k == Kept(at.st, LAMBDA j : a[i] > a[j])
                popped == ToSet(SubSeq(at.st, k + 1, Len(at.st)))
                rest == SubSeq(at.st, 1, k)
            IN  [st |-> IF v <= Len(a) THEN Append(rest, i) ELSE rest,
                 ans |-> [j \in DOMAIN a |-> IF j \in popped THEN a[i] ELSE at.ans[j]]]
    IN  FoldLeft(step, [st |-> << >>, ans |-> [j \in DOMAIN a |-> 0]], Positive(a \o a)).ans

\* The last position before i that stays on the stack: left of stock_span(), and
\* of largest_rectangle_histogram().
Barriers(a, Pops(_, _)) ==
    LET step(at, i) ==
            LET k == Kept(at.st, LAMBDA j : Pops(a[j], a[i]))
            IN  [st |-> Append(SubSeq(at.st, 1, k), i),
                 ans |-> Append(at.ans, IF k = 0 THEN 0 ELSE at.st[k])]
    IN  FoldLeft(step, [st |-> << >>, ans |-> << >>], Positive(a)).ans

StockSpan(price) ==
    LET barrier == Barriers(price, LAMBDA x, y : x <= y)
    IN  [i \in DOMAIN price |-> i - barrier[i]]

LargestRectangleHistogram(h) ==
    LET n == Len(h)
        left == Barriers(h, LAMBDA x, y : x >= y)
        right == LET mirrored == Barriers(Reverse(h), LAMBDA x, y : x >= y)
                 IN  [i \in DOMAIN h |-> n + 1 - mirrored[n + 1 - i]]
    IN  Max({0} \union {h[i] * (right[i] - left[i] - 1) : i \in DOMAIN h})

\* A basin ends at i: what is popped is its floor, what is then on top its wall.
TrapRainWaterStack(h) ==
    LET step(at, i) ==
            LET k == Kept(at.st, LAMBDA j : h[i] > h[j])
                level(p) == Min({h[at.st[p - 1]], h[i]}) - h[at.st[p]]
                width(p) == i - at.st[p - 1] - 1
            IN  [st |-> Append(SubSeq(at.st, 1, k), i),
                 water |-> at.water + MapThenSumSet(LAMBDA p : width(p) * level(p),
                                                    Max({2, k + 1}) .. Len(at.st))]
    IN  FoldLeft(step, [st |-> << >>, water |-> 0], Positive(h)).water

\* sliding_window_max(), which wants k <= n, and the two of this file, which use
\* a window of at most n.
SlidingWindow(a, k, Pops(_, _)) ==
    LET step(at, i) ==
            LET live == SelectSeq(at.dq, LAMBDA j : j > i - k)
                dq == Append(SubSeq(live, 1, Kept(live, LAMBDA j : Pops(a[j], a[i]))), i)
            IN  [dq |-> dq, ans |-> IF i >= k THEN Append(at.ans, a[dq[1]]) ELSE at.ans]
    IN  FoldLeft(step, [dq |-> << >>, ans |-> << >>], Positive(a)).ans

SlidingWindowMax(a, k) ==
    IF k <= 0 \/ k > Len(a) THEN << >> ELSE SlidingWindow(a, k, LAMBDA x, y : x <= y)
SlidingWindowMaximum(a, k) ==
    IF k <= 0 THEN << >> ELSE SlidingWindow(a, Min({k, Len(a)}), LAMBDA x, y : x <= y)
SlidingWindowMinimum(a, k) ==
    IF k <= 0 THEN << >> ELSE SlidingWindow(a, Min({k, Len(a)}), LAMBDA x, y : x >= y)

\* Each function by its definition: the next greater element, around the end too,
\* the days since a greater price, the largest rectangle below the bars, the water
\* that stands between the highest walls on both sides, the windows.
MonotonicExact ==
    LET a == rep
        n == Len(a)
        greater(i) == {j \in i + 1 .. n : a[j] > a[i]}
        next(i) == IF greater(i) = {} THEN 0 ELSE Min(greater(i))
        around(i) == {d \in 1 .. n - 1 : a[((i + d - 1) % n) + 1] > a[i]}
        highest(l, r) == Max({a[k] : k \in l .. r})
        lowest(l, r) == Min({a[k] : k \in l .. r})
        best(k) == [i \in 1 .. n - k + 1 |-> highest(i, i + k - 1)]
    IN  /\ NextGreaterIndices(a) = [i \in DOMAIN a |-> next(i)]
        /\ DailyTemperatures(a) = [i \in DOMAIN a |-> IF next(i) = 0 THEN 0 ELSE next(i) - i]
        /\ NextGreaterCircular(a) =
               [i \in DOMAIN a |-> IF around(i) = {} THEN 0
                                   ELSE a[((i + Min(around(i)) - 1) % n) + 1]]
        /\ \A i \in DOMAIN a :
              StockSpan(a)[i] = Max({d \in 1 .. i : highest(i - d + 1, i) = a[i]})
        /\ LargestRectangleHistogram(a) =
               Max(UNION {{(r - l + 1) * lowest(l, r) : r \in l .. n} : l \in 1 .. n})
        /\ TrapRainWaterStack(a) =
               MapThenSumSet(LAMBDA i : Min({highest(1, i), highest(i, n)}) - a[i], DOMAIN a)
        /\ \A k \in 1 .. n :
              /\ SlidingWindowMaximum(a, k) = best(k) /\ SlidingWindowMax(a, k) = best(k)
              /\ SlidingWindowMinimum(a, k) = [i \in 1 .. n - k + 1 |-> lowest(i, i + k - 1)]
        /\ SlidingWindowMaximum(a, n + 1) = best(n) /\ SlidingWindowMax(a, n + 1) = << >>
=============================================================================
