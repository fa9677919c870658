------------------------------ MODULE SlottedPages ------------------------------
(***************************************************************************)
(* The slotted page of slotted_page.rs (directory src/src): a directory of *)
(* slots that grows upwards, and the bytes of the rows, which grow         *)
(* downwards from the end of the payload.  A page is its slots and         *)
(* tuple_data_start; a slot is the offset and the row it points at, or a   *)
(* tombstone.  Bytes that no slot points at are dead until compact.        *)
(***************************************************************************)
EXTENDS Integers, FiniteSets, SequencesExt

CONSTANTS
    PayloadSize,  \* PAGE_PAYLOAD_SIZE
    HeaderSize,   \* SLOTTED_HEADER_SIZE
    EntrySize     \* SLOT_ENTRY_SIZE

ASSUME LayoutAssumption ==
    /\ {PayloadSize, HeaderSize, EntrySize} \subseteq Nat \ {0}
    /\ PayloadSize > HeaderSize + EntrySize

NoSlot    == 0
Tombstone == [offset |-> 0, row |-> [key |-> 0, len |-> 0]]

EmptyPage == [slots |-> <<>>, start |-> PayloadSize]

DirectoryEnd(n) == HeaderSize + n * EntrySize

MaxLenForFreshPage == PayloadSize - DirectoryEnd(1)

Tombstones(page) == {i \in DOMAIN page.slots : page.slots[i] = Tombstone}
Occupied(page)   == DOMAIN page.slots \ Tombstones(page)

\* SlottedPage::free_space: the gap; what tombstones left behind is no part of it.
FreeSpace(page) == page.start - DirectoryEnd(Len(page.slots))

RowAt(page, i) == page.slots[i].row

\* validate_header: what every open of a page insists on.
WellFormed(page) ==
    LET end(i) == page.slots[i].offset + RowAt(page, i).len
    IN  /\ page.start <= PayloadSize
        /\ DirectoryEnd(Len(page.slots)) <= page.start
        /\ \A i \in Occupied(page) :
              page.slots[i].offset >= page.start /\ end(i) <= PayloadSize
        /\ \A i, j \in Occupied(page) :
              i # j => \/ end(i) <= page.slots[j].offset
                       \/ end(j) <= page.slots[i].offset

\* compact packs the rows from the end of the payload, in the order of their
\* slots, and leaves the directory as it is.
Packed(acc, slot) ==
    IF slot = Tombstone
    THEN [slots |-> Append(acc.slots, slot), start |-> acc.start]
    ELSE [slots |-> Append(acc.slots, [slot EXCEPT !.offset = acc.start - slot.row.len]),
          start |-> acc.start - slot.row.len]

Compact(page) ==
    LET packed[k \in 0..Len(page.slots)] ==
            IF k = 0 THEN EmptyPage ELSE Packed(packed[k - 1], page.slots[k])
    IN  packed[Len(page.slots)]

\* The first tombstone, or else a new slot at the end of the directory.
SlotToFill(page) ==
    Min(Tombstones(page) \cup {Len(page.slots) + 1})

Fits(page, i, len) ==
    DirectoryEnd(IF i > Len(page.slots) THEN i ELSE Len(page.slots)) + len <= page.start

\* The row's bytes go right below the others.
Write(page, i, row) ==
    LET slot == [offset |-> page.start - row.len, row |-> row]
    IN  [slots |-> IF i > Len(page.slots) THEN Append(page.slots, slot)
                   ELSE [page.slots EXCEPT ![i] = slot],
         start |-> page.start - row.len]

\* try_insert and try_relocate, on the page as it is, then on the page compacted.
\* The compacted page stays when the row does not fit either way.
WriteOrCompact(page, compacted, i, row) ==
    CASE Fits(page, i, row.len)      -> [page |-> Write(page, i, row), slot |-> i]
      [] /\ ~ Fits(page, i, row.len)
         /\ Fits(compacted, i, row.len) -> [page |-> Write(compacted, i, row), slot |-> i]
      [] OTHER                       -> [page |-> compacted, slot |-> NoSlot]

\* SlottedPage::insert
InsertInto(page, row) == WriteOrCompact(page, Compact(page), SlotToFill(page), row)

\* SlottedPage::delete
DeleteFrom(page, i) == [page EXCEPT !.slots[i] = Tombstone]

\* SlottedPage::update: a row of the same length takes the same bytes; the
\* bytes of the old row are still in use while room for another length is found.
UpdateIn(page, i, row) ==
    IF RowAt(page, i).len = row.len
    THEN [page |-> [page EXCEPT !.slots[i].row = row], slot |-> i]
    ELSE WriteOrCompact(page, Compact(page), i, row)
=============================================================================
