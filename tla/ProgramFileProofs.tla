-------------------------- MODULE ProgramFileProofs --------------------------
(***************************************************************************)
(* Proofs about the load of a program, for every size of a page and of the *)
(* pool and every set of programs that are laid out as lib/sel4cp.ld does, *)
(* and for every access right table that the patcher can write into them.  *)
(***************************************************************************)
EXTENDS ProgramFile, FiniteSetTheorems, SequenceTheorems,
        NaturalsInduction, WellFoundedInduction, TLAPS

-----------------------------------------------------------------------------
(* Induction with a set in place of a predicate: the library's induction     *)
(* theorems have an operator as a parameter, this consequence of WFMin has   *)
(* not.                                                                      *)

\* A set of naturals with 0 that is closed under successor is all of Nat.
LEMMA NatSetInduction ==
    ASSUME NEW T \in SUBSET Nat, 0 \in T, \A n \in T : n + 1 \in T
    PROVE  T = Nat
<1> DEFINE Rest == Nat \ T
<1> SUFFICES ASSUME Rest # {} PROVE FALSE
  OBVIOUS
<1>1. IsWellFoundedOn(OpToRel(<, Nat), Nat)
  BY NatLessThanWellFounded
<1>2. PICK x \in Rest : \A y \in Rest : ~ (<<y, x>> \in OpToRel(<, Nat))
  BY <1>1, WFMin
<1>3. x # 0 /\ x - 1 \in Nat /\ x - 1 < x
  OBVIOUS
<1>4. x - 1 \in T
  BY <1>2, <1>3 DEF OpToRel
<1> QED
  BY <1>3, <1>4

-----------------------------------------------------------------------------
(* Pages and places in them *)

\* What a division by a positive number leaves.
LEMMA Division ==
    ASSUME NEW P \in Nat \ {0}, NEW a \in Nat
    PROVE  /\ a \div P \in Nat /\ a % P \in Nat /\ a % P < P
           /\ a = P * (a \div P) + (a % P)
  OBVIOUS

\* A number is divided in one way only.
LEMMA DivisionUnique ==
    ASSUME NEW P \in Nat \ {0}, NEW q \in Nat, NEW r \in Nat, r < P
    PROVE  (P * q + r) \div P = q /\ (P * q + r) % P = r
<1> DEFINE a == P * q + r
           x == a \div P
           y == a % P
<1>1. a \in Nat /\ x \in Nat /\ y \in Nat /\ y < P /\ a = P * x + y
  OBVIOUS
<1> HIDE DEF x, y
<1>2. ~(x < q)
  <2> SUFFICES ASSUME x < q PROVE FALSE
    OBVIOUS
  <2>1. P * (x + 1) <= P * q
    BY <1>1
  <2> QED
    BY <1>1, <2>1
<1>3. ~(q < x)
  <2> SUFFICES ASSUME q < x PROVE FALSE
    OBVIOUS
  <2>1. P * (q + 1) <= P * x
    BY <1>1
  <2> QED
    BY <1>1, <2>1
<1>4. x = q
  BY <1>1, <1>2, <1>3
<1>5. y = r
  BY <1>1, <1>4
<1> QED
  BY <1>4, <1>5 DEF x, y

\* To go on by w bytes stays on the page, or reaches the first byte of the next.
LEMMA GoOn ==
    ASSUME NEW a \in Nat, NEW w \in Nat, (a % PageSize) + w <= PageSize
    PROVE  /\ (a % PageSize) + w < PageSize =>
                 (a + w) \div PageSize = a \div PageSize /\ (a + w) % PageSize = (a % PageSize) + w
           /\ (a % PageSize) + w = PageSize =>
                 (a + w) \div PageSize = a \div PageSize + 1 /\ (a + w) % PageSize = 0
<1> DEFINE q == a \div PageSize
           r == a % PageSize
<1>1. q \in Nat /\ r \in Nat /\ a = PageSize * q + r /\ PageSize \in Nat \ {0}
  BY Division, ElfSegmentsAssumption
<1> HIDE DEF q, r
<1>2. CASE r + w < PageSize
  <2> DEFINE t == r + w
  <2>1. a + w = PageSize * q + t /\ t \in Nat /\ t < PageSize
    BY <1>1, <1>2
  <2> HIDE DEF t
  <2>2. (a + w) \div PageSize = q /\ (a + w) % PageSize = t
    BY <1>1, <2>1, DivisionUnique
  <2> QED
    BY <1>1, <1>2, <2>2 DEF q, r, t
<1>3. CASE r + w = PageSize
  <2> DEFINE p == q + 1
  <2>1. a + w = PageSize * p + 0 /\ p \in Nat
    BY <1>1, <1>3
  <2> HIDE DEF p
  <2>2. (a + w) \div PageSize = p /\ (a + w) % PageSize = 0
    BY <1>1, <2>1, DivisionUnique
  <2> QED
    BY <1>1, <1>3, <2>2 DEF q, r, p
<1> QED
  BY <1>2, <1>3 DEF q, r

\* Higher addresses lie on no lower page.
LEMMA PagesOrdered ==
    ASSUME NEW a \in Nat, NEW b \in Nat, a <= b
    PROVE  a \div PageSize <= b \div PageSize
<1> DEFINE q == a \div PageSize
           p == b \div PageSize
<1>1. /\ q \in Nat /\ p \in Nat /\ PageSize \in Nat \ {0}
      /\ PageSize * q <= b /\ b < PageSize * p + PageSize
  BY Division, ElfSegmentsAssumption
<1> HIDE DEF q, p
<1>2. ~(p < q)
  <2> SUFFICES ASSUME p < q PROVE FALSE
    OBVIOUS
  <2>1. PageSize * (p + 1) <= PageSize * q
    BY <1>1
  <2> QED
    BY <1>1, <2>1
<1> QED
  BY <1>1, <1>2 DEF q, p

\* An aligned id does not cross the end of a page.
LEMMA AlignedFits ==
    ASSUME NEW a \in Nat, a % IdBytes = 0
    PROVE  (a % PageSize) + IdBytes <= PageSize
<1> DEFINE q == a \div PageSize
           r == a % PageSize
           u == PageSize \div IdBytes
           x == a \div IdBytes
           y == x - u * q
<1>1. /\ q \in Nat /\ r \in Nat /\ r < PageSize /\ a = PageSize * q + r
      /\ IdBytes \in Nat \ {0} /\ PageSize \in Nat \ {0}
      /\ u \in Nat /\ PageSize = IdBytes * u /\ x \in Nat /\ a = IdBytes * x
  <2>1. q \in Nat /\ r \in Nat /\ r < PageSize /\ a = PageSize * q + r
    BY Division, ElfSegmentsAssumption
  <2>2. IdBytes \in Nat \ {0} /\ PageSize \in Nat \ {0} /\ PageSize % IdBytes = 0
    BY ElfSegmentsAssumption
  <2>3. u \in Nat /\ PageSize = IdBytes * u + (PageSize % IdBytes)
    BY <2>2, Division
  <2>4. x \in Nat /\ a = IdBytes * x + (a % IdBytes)
    BY <2>2, Division
  <2> QED
    BY <2>1, <2>2, <2>3, <2>4
<1> HIDE DEF q, r, u, x
<1>2. y \in Int /\ r = IdBytes * y
  BY <1>1
<1> HIDE DEF y
<1>3. y < u
  <2> SUFFICES ASSUME y >= u PROVE FALSE
    BY <1>1, <1>2
  <2>1. IdBytes * y >= IdBytes * u
    BY <1>1, <1>2
  <2> QED
    BY <1>1, <1>2, <2>1
<1>4. IdBytes * (y + 1) <= IdBytes * u
  BY <1>1, <1>2, <1>3
<1>5. r + IdBytes <= PageSize
  BY <1>1, <1>2, <1>4
<1> QED
  BY <1>5 DEF r

-----------------------------------------------------------------------------
(* The inductive invariant *)

\* sel4cp_internal_allocate_page maps the page with this number.
PageOf(a) == a \div PageSize

\* The byte at address a of segment n is where the new PD will read it.
Placed(n, a) ==
    /\ PageOf(a) \in DOMAIN mapped
    /\ mapped[PageOf(a)].flags = elf.segments[n].flags
    /\ memory[mapped[PageOf(a)].n][a % PageSize] = Linked(n, a)

\* No two pages of the PD are the same page of the pool, and none is one that the
\* counter of the pool has not passed.
PagesOK ==
    /\ page_idx \in 0 .. PoolPages /\ DOMAIN memory = Pool
    /\ \A p \in DOMAIN mapped : mapped[p].n \in 0 .. page_idx - 1
    /\ \A p, q \in DOMAIN mapped : mapped[p].n = mapped[q].n => p = q

\* A write that began here would tear the id.
InId(a) == pd_id_vaddr < a /\ a < pd_id_vaddr + IdBytes

\* The loops write where the next byte belongs.
Cursor ==
    LET s == prog_hdr
        page == PageOf(current_vaddr)
    IN  /\ i \in Loadable
        /\ current_vaddr \in s.vaddr .. s.vaddr + s.memsz /\ ~InId(current_vaddr)
        /\ page \in DOMAIN mapped /\ mapped[page].flags = s.flags
        /\ dst_write \in [n : Nat, at : Nat]
        /\ dst_write.n = mapped[page].n /\ dst_write.at = current_vaddr % PageSize
        /\ pc = "copy" => /\ j = current_vaddr - s.vaddr /\ j <= s.filesz
                          /\ src_read = j
        /\ pc = "zero" => j = current_vaddr - s.vaddr - s.filesz /\ j >= 0
        /\ \A a \in s.vaddr .. current_vaddr - 1 : Placed(i, a)

\* The invariant behind LoadedAsLinked: what is written stays in place, and the write
\* handle, which the code only advances, agrees with the page table of the new PD.
Loading ==
    /\ elf \in Programs /\ i \in Nat \ {0}
    /\ pc \in {"symbol", "segment", "copy", "zero", "done", "failed"}
    /\ ~outside /\ PagesOK
    /\ pc = "symbol" => i = 1
    /\ pc \notin {"symbol", "failed"} =>
          /\ pd_id_vaddr \in Nat
          /\ \A n \in Loadable : n < i \/ pc = "done" =>
                \A a \in Addresses(elf.segments[n]) : Placed(n, a)
    /\ pc \in {"copy", "zero"} => Cursor

\* What lib/sel4cp.ld grants of the segments and of the id.
LEMMA SegmentFacts ==
    ASSUME elf \in Programs, NEW n \in Loadable
    PROVE  LET s == elf.segments[n] IN
           /\ s.vaddr \in Nat /\ s.filesz \in Nat /\ s.memsz \in Nat /\ s.filesz <= s.memsz
           /\ n \in 1 .. Len(elf.segments) /\ Len(elf.segments) \in Nat
           /\ pd_id_vaddr # None =>
                 \/ pd_id_vaddr + IdBytes <= s.vaddr
                 \/ s.vaddr <= pd_id_vaddr /\ pd_id_vaddr + IdBytes <= s.vaddr + s.filesz
                 \/ s.vaddr + s.filesz <= pd_id_vaddr /\ pd_id_vaddr + IdBytes <= s.vaddr + s.memsz
                 \/ s.vaddr + s.memsz <= pd_id_vaddr
           /\ \A a \in Addresses(s) : a \in Nat
           /\ \A a \in Addresses(s), m \in Loadable :
                 m > n => PageOf(a) \notin Pages(elf.segments[m])
           /\ ipc_buffer_vaddr # None =>
                 \A a \in Addresses(s) : PageOf(a) # PageOf(ipc_buffer_vaddr)
<1>1. WellLinked(elf)
  BY ProgramsAssumption
<1>2. n \in LoadsOf(elf) /\ n \in DOMAIN elf.segments
  BY DEF Loadable, LoadsOf
<1> QED
  BY <1>1, <1>2 DEF WellLinked, Loadable, Addresses, PageOf, pd_id_vaddr, ipc_buffer_vaddr

\* The id is an aligned variable.
LEMMA IdFacts ==
    ASSUME elf \in Programs, pd_id_vaddr # None
    PROVE  pd_id_vaddr \in Nat /\ pd_id_vaddr % IdBytes = 0
<1>1. WellLinked(elf)
  BY ProgramsAssumption
<1> QED
  BY <1>1 DEF WellLinked, pd_id_vaddr

\* A page that is taken is mapped to no other page.
LEMMA TakeKeeps ==
    ASSUME PagesOK, NEW v \in Nat, NEW flags, ~NoPages, take_page(v, flags),
           DOMAIN memory' = Pool
    PROVE  /\ PagesOK' /\ page_idx' = page_idx + 1
           /\ PageOf(v) \in DOMAIN mapped'
           /\ mapped'[PageOf(v)].n = page_idx /\ mapped'[PageOf(v)].flags = flags
           /\ \A p \in DOMAIN mapped :
                 p # PageOf(v) => p \in DOMAIN mapped' /\ mapped'[p] = mapped[p]
<1> DEFINE q == PageOf(v)
           new == [n |-> page_idx, flags |-> flags]
<1>1. /\ mapped' = [p \in DOMAIN mapped \cup {q} |-> IF p = q THEN new ELSE mapped[p]]
      /\ page_idx' = page_idx + 1
  BY DEF take_page, PageOf
<1>2. new.n = page_idx /\ new.flags = flags
  OBVIOUS
<1>3. page_idx \in Nat /\ page_idx < PoolPages /\ PoolPages \in Nat
  BY ElfSegmentsAssumption DEF PagesOK, NoPages
<1> HIDE DEF new, q
<1>4. /\ DOMAIN mapped' = DOMAIN mapped \cup {q} /\ mapped'[q] = new
      /\ \A p \in DOMAIN mapped : p # q => mapped'[p] = mapped[p]
  BY <1>1
<1>5. \A p \in DOMAIN mapped : mapped[p].n \in Nat /\ mapped[p].n < page_idx
  BY <1>3 DEF PagesOK
<1>6. \A p \in DOMAIN mapped' : mapped'[p].n \in 0 .. page_idx' - 1
  BY <1>1, <1>2, <1>3, <1>4, <1>5
<1>7. \A p, r \in DOMAIN mapped' : mapped'[p].n = mapped'[r].n => p = r
  BY <1>2, <1>3, <1>4, <1>5 DEF PagesOK
<1>8. PagesOK'
  <2>1. page_idx' \in 0 .. PoolPages
    BY <1>1, <1>3
  <2> QED
    BY <2>1, <1>6, <1>7, Zenon DEF PagesOK, Pool
<1> QED
  BY <1>1, <1>2, <1>4, <1>8 DEF q

\* A byte stays in place when its page and its place on that page do.
LEMMA PlacedStays ==
    ASSUME NEW n, NEW a, Placed(n, a), elf' = elf, PageOf(a) \in DOMAIN mapped',
           mapped'[PageOf(a)] = mapped[PageOf(a)],
           memory'[mapped[PageOf(a)].n][a % PageSize] = memory[mapped[PageOf(a)].n][a % PageSize]
    PROVE  Placed(n, a)'
  BY DEF Placed, Linked, pd_id_vaddr, PageOf

-----------------------------------------------------------------------------
(* One write *)

\* Where the cursor is: on a page of its segment, with a handle to a page of the pool.
LEMMA CursorFacts ==
    ASSUME Loading, pc \in {"copy", "zero"}
    PROVE  /\ current_vaddr \in Nat /\ PageOf(current_vaddr) \in Nat
           /\ current_vaddr % PageSize \in Nat /\ current_vaddr % PageSize < PageSize
           /\ prog_hdr.vaddr \in Nat /\ prog_hdr.filesz \in Nat /\ prog_hdr.memsz \in Nat
           /\ prog_hdr.filesz <= prog_hdr.memsz
           /\ current_vaddr >= prog_hdr.vaddr /\ current_vaddr <= prog_hdr.vaddr + prog_hdr.memsz
           /\ dst_write.n \in Pool /\ dst_write.at = current_vaddr % PageSize
           /\ pd_id_vaddr \in Nat /\ PageSize \in Nat \ {0} /\ IdBytes \in Nat \ {0}
           /\ i \in Loadable /\ elf \in Programs /\ pd_id_vaddr # None
<1>1. Cursor /\ elf \in Programs /\ i \in Loadable /\ PagesOK /\ pd_id_vaddr \in Nat
  BY DEF Loading, Cursor
<1>2. pd_id_vaddr # None
  BY <1>1, ElfSegmentsAssumption
<1>3. /\ prog_hdr.vaddr \in Nat /\ prog_hdr.filesz \in Nat /\ prog_hdr.memsz \in Nat
      /\ prog_hdr.filesz <= prog_hdr.memsz
  BY <1>1, SegmentFacts DEF prog_hdr
<1>4. current_vaddr \in prog_hdr.vaddr .. prog_hdr.vaddr + prog_hdr.memsz
  BY <1>1 DEF Cursor
<1>5. current_vaddr \in Nat /\ PageSize \in Nat \ {0} /\ IdBytes \in Nat \ {0}
  BY <1>3, <1>4, ElfSegmentsAssumption
<1>6. /\ PageOf(current_vaddr) \in Nat /\ current_vaddr % PageSize \in Nat
      /\ current_vaddr % PageSize < PageSize
  BY <1>5, Division DEF PageOf
<1>7. dst_write.n \in Pool /\ dst_write.at = current_vaddr % PageSize
  <2>1. /\ PageOf(current_vaddr) \in DOMAIN mapped /\ dst_write.n = mapped[PageOf(current_vaddr)].n
        /\ dst_write.at = current_vaddr % PageSize
    BY <1>1 DEF Cursor
  <2>2. dst_write.n \in 0 .. page_idx - 1 /\ page_idx \in 0 .. PoolPages
    BY <1>1, <2>1 DEF PagesOK
  <2> QED
    BY <2>1, <2>2, ElfSegmentsAssumption DEF Pool
<1> QED
  BY <1>1, <1>2, <1>3, <1>4, <1>5, <1>6, <1>7

\* A write that begins before E ends there at the latest, on the page of the handle, and
\* not inside the id.
LEMMA WriteFits ==
    ASSUME Loading, pc \in {"copy", "zero"}, NEW E \in Nat, current_vaddr < E,
           current_vaddr = pd_id_vaddr => current_vaddr + IdBytes <= E
    PROVE  /\ Written \in Nat \ {0} /\ current_vaddr + Written <= E
           /\ (current_vaddr % PageSize) + Written <= PageSize
           /\ ~InId(current_vaddr + Written)
<1>1. /\ current_vaddr \in Nat
      /\ current_vaddr % PageSize \in Nat /\ current_vaddr % PageSize < PageSize
      /\ pd_id_vaddr \in Nat /\ PageSize \in Nat \ {0} /\ IdBytes \in Nat \ {0}
      /\ elf \in Programs /\ pd_id_vaddr # None
  BY CursorFacts
<1>2. ~InId(current_vaddr)
  BY DEF Loading, Cursor
<1>3. CASE current_vaddr = pd_id_vaddr
  <2>1. Written = IdBytes
    BY <1>3 DEF Written
  <2>2. (current_vaddr % PageSize) + IdBytes <= PageSize
    BY <1>1, <1>3, IdFacts, AlignedFits
  <2> QED
    BY <1>1, <1>3, <2>1, <2>2 DEF InId
<1>4. CASE current_vaddr # pd_id_vaddr
  <2>1. Written = 1
    BY <1>4 DEF Written
  <2>2. ~InId(current_vaddr + 1)
    BY <1>1, <1>2, <1>4 DEF InId
  <2>3. (current_vaddr % PageSize) + 1 <= PageSize
    BY <1>1
  <2> QED
    BY <1>1, <2>1, <2>2, <2>3
<1> QED
  BY <1>3, <1>4

\* What write_elf_data changes: the bytes from the handle on, as many as it reports.
LEMMA WriteMemory ==
    ASSUME Loading, pc \in {"copy", "zero"}, Written \in Nat \ {0},
           (current_vaddr % PageSize) + Written <= PageSize,
           NEW data, write_elf_data(data)
    PROVE  /\ DOMAIN memory' = Pool /\ ~outside'
           /\ \A n \in Pool : n # dst_write.n => memory'[n] = memory[n]
           /\ \A o \in Offsets :
                 o < dst_write.at => memory'[dst_write.n][o] = memory[dst_write.n][o]
           /\ \A k \in 0 .. Written - 1 : memory'[dst_write.n][dst_write.at + k] =
                 IF current_vaddr = pd_id_vaddr THEN IdByte(k) ELSE data
<1> DEFINE n == dst_write.n
           o == dst_write.at
           id == current_vaddr = pd_id_vaddr
           byte(p) == IF id /\ p \in o .. o + IdBytes - 1 THEN IdByte(p - o)
                      ELSE IF ~ id /\ p = o THEN data ELSE memory[n][p]
           page == [p \in Offsets |-> byte(p)]
<1>1. /\ memory' = [memory EXCEPT ![n] = page]
      /\ outside' = (outside \/ o + (IF id THEN IdBytes ELSE 1) > PageSize)
  BY DEF write_elf_data
<1>2. n \in Pool /\ DOMAIN memory = Pool /\ ~outside /\ o \in Nat /\ o < PageSize
      /\ PageSize \in Nat \ {0} /\ IdBytes \in Nat \ {0} /\ o = current_vaddr % PageSize
  BY CursorFacts DEF Loading, PagesOK
<1>3. Written = IF id THEN IdBytes ELSE 1
  BY DEF Written
<1>4. \A p \in Offsets : page[p] = byte(p)
  OBVIOUS
<1> HIDE DEF page
<1>5. DOMAIN memory' = Pool /\ memory'[n] = page /\ \A m \in Pool : m # n => memory'[m] = memory[m]
  BY <1>1, <1>2
<1>6. ~outside'
  <2>1. ~(o + (IF id THEN IdBytes ELSE 1) > PageSize)
    BY <1>2, <1>3
  <2> QED
    BY <1>1, <1>2, <2>1, Zenon
<1>7. \A p \in Offsets : p < o => page[p] = memory[n][p]
  <2> SUFFICES ASSUME NEW p \in Offsets, p < o PROVE byte(p) = memory[n][p]
    BY <1>4
  <2>1. p \notin o .. o + IdBytes - 1 /\ p # o
    BY <1>2 DEF Offsets
  <2> QED
    BY <2>1
<1>8. \A k \in 0 .. Written - 1 : page[o + k] = IF id THEN IdByte(k) ELSE data
  <2> SUFFICES ASSUME NEW k \in 0 .. Written - 1 PROVE page[o + k] = IF id THEN IdByte(k) ELSE data
    OBVIOUS
  <2>1. o + k \in Offsets
    BY <1>2 DEF Offsets
  <2>2. page[o + k] = byte(o + k)
    BY <1>4, <2>1
  <2>3. CASE id
    <3>1. o + k \in o .. o + IdBytes - 1 /\ (o + k) - o = k
      BY <1>2, <1>3, <2>3
    <3> QED
      BY <2>2, <2>3, <3>1
  <2>4. CASE ~id
    <3>1. k = 0 /\ o + k = o
      BY <1>2, <1>3, <2>4
    <3> QED
      BY <2>2, <2>4, <3>1
  <2> QED
    BY <2>3, <2>4
<1> QED
  BY <1>5, <1>6, <1>7, <1>8

\* The bytes that a write leaves are those of the program.
LEMMA WriteLinked ==
    ASSUME Loading, pc \in {"copy", "zero"}, Written \in Nat \ {0}, elf' = elf,
           (current_vaddr % PageSize) + Written <= PageSize,
           NEW data, write_elf_data(data),
           current_vaddr # pd_id_vaddr => data = Linked(i, current_vaddr)
    PROVE  \A a \in current_vaddr .. current_vaddr + Written - 1 :
              /\ PageOf(a) = PageOf(current_vaddr)
              /\ memory'[dst_write.n][a % PageSize] = Linked(i, a)
<1> SUFFICES ASSUME NEW a \in current_vaddr .. current_vaddr + Written - 1
             PROVE  /\ PageOf(a) = PageOf(current_vaddr)
                    /\ memory'[dst_write.n][a % PageSize] = Linked(i, a)
  OBVIOUS
<1> DEFINE k == a - current_vaddr
<1>1. /\ current_vaddr \in Nat /\ current_vaddr % PageSize \in Nat
      /\ dst_write.at = current_vaddr % PageSize
      /\ pd_id_vaddr \in Nat /\ PageSize \in Nat \ {0} /\ IdBytes \in Nat \ {0}
  BY CursorFacts
<1>2. k \in 0 .. Written - 1 /\ k \in Nat /\ a = current_vaddr + k
      /\ (current_vaddr % PageSize) + k < PageSize
  BY <1>1
<1>3. /\ (current_vaddr + k) \div PageSize = current_vaddr \div PageSize
      /\ (current_vaddr + k) % PageSize = (current_vaddr % PageSize) + k
  <2> HIDE DEF k
  <2>1. current_vaddr \in Nat /\ k \in Nat
    BY <1>1, <1>2
  <2>2. (current_vaddr % PageSize) + k <= PageSize /\ (current_vaddr % PageSize) + k < PageSize
    BY <1>1, <1>2
  <2>3. (current_vaddr % PageSize) + k < PageSize =>
            /\ (current_vaddr + k) \div PageSize = current_vaddr \div PageSize
            /\ (current_vaddr + k) % PageSize = (current_vaddr % PageSize) + k
    BY <2>1, <2>2, GoOn, Zenon
  <2> QED
    BY <2>2, <2>3
<1>4. memory'[dst_write.n][dst_write.at + k] =
         IF current_vaddr = pd_id_vaddr THEN IdByte(k) ELSE data
  BY <1>2, WriteMemory
<1>5. CASE current_vaddr = pd_id_vaddr
  <2>1. Written = IdBytes
    BY <1>5 DEF Written
  <2>2. a \in pd_id_vaddr .. pd_id_vaddr + IdBytes - 1 /\ k = a - pd_id_vaddr
    BY <1>1, <1>2, <1>5, <2>1
  <2>3. Linked(i, a) = IdByte(k)
    BY <2>2 DEF Linked
  <2> QED
    BY <1>1, <1>2, <1>3, <1>4, <1>5, <2>3 DEF PageOf
<1>6. CASE current_vaddr # pd_id_vaddr
  <2>1. k = 0 /\ a = current_vaddr
    BY <1>1, <1>2, <1>6 DEF Written
  <2> QED
    BY <1>1, <1>2, <1>3, <1>4, <1>6, <2>1 DEF PageOf
<1> QED
  BY <1>5, <1>6

\* What was in place before stays in place, on its page of the pool.
LEMMA WriteKeeps ==
    ASSUME Loading, pc \in {"copy", "zero"}, Written \in Nat \ {0},
           (current_vaddr % PageSize) + Written <= PageSize,
           NEW data, write_elf_data(data),
           NEW n, NEW a \in Nat, Placed(n, a),
           PageOf(a) # PageOf(current_vaddr) \/ a < current_vaddr
    PROVE  memory'[mapped[PageOf(a)].n][a % PageSize] = memory[mapped[PageOf(a)].n][a % PageSize]
<1>1. /\ current_vaddr \in Nat /\ current_vaddr % PageSize \in Nat
      /\ dst_write.at = current_vaddr % PageSize /\ PageSize \in Nat \ {0}
  BY CursorFacts
<1>2. PagesOK /\ Cursor
  BY DEF Loading
<1>3. /\ PageOf(current_vaddr) \in DOMAIN mapped /\ PageOf(a) \in DOMAIN mapped
      /\ dst_write.n = mapped[PageOf(current_vaddr)].n
  BY <1>2 DEF Cursor, Placed
<1>4. mapped[PageOf(a)].n \in Pool
  BY <1>2, <1>3, ElfSegmentsAssumption DEF PagesOK, Pool
<1>5. CASE PageOf(a) # PageOf(current_vaddr)
  <2>1. mapped[PageOf(a)].n # dst_write.n
    BY <1>2, <1>3, <1>5 DEF PagesOK
  <2>2. memory'[mapped[PageOf(a)].n] = memory[mapped[PageOf(a)].n]
    BY <1>4, <2>1, WriteMemory
  <2> QED
    BY <2>2
<1>6. CASE PageOf(a) = PageOf(current_vaddr)
  <2> DEFINE q == PageOf(a)
             r == a % PageSize
             s == current_vaddr % PageSize
  <2>1. /\ q \in Nat /\ r \in Nat /\ s \in Nat /\ r < PageSize
        /\ a = PageSize * q + r
    BY <1>1, Division DEF PageOf
  <2>2. current_vaddr = PageSize * q + s
    BY <1>1, <1>6, Division DEF PageOf
  <2>3. a < current_vaddr
    BY <1>6
  <2> HIDE DEF q, r, s
  <2>4. r < s /\ r \in Offsets
    BY <1>1, <2>1, <2>2, <2>3 DEF Offsets
  <2>5. memory'[dst_write.n][r] = memory[dst_write.n][r]
    BY <1>1, <2>4, WriteMemory DEF s
  <2> QED
    BY <1>3, <1>6, <2>5 DEF r, q
<1> QED
  BY <1>5, <1>6

-----------------------------------------------------------------------------
(* The loops go on *)

\* Bytes of the segments before lie on no page that the present segment takes.
LEMMA EarlierApart ==
    ASSUME Loading, pc \in {"copy", "zero"}, NEW n \in Loadable, n < i,
           NEW a \in Addresses(elf.segments[n]),
           NEW b \in prog_hdr.vaddr .. prog_hdr.vaddr + prog_hdr.memsz
    PROVE  a \in Nat /\ PageOf(a) # PageOf(b)
<1>1. /\ prog_hdr.vaddr \in Nat /\ prog_hdr.memsz \in Nat /\ i \in Loadable /\ elf \in Programs
      /\ i \in Nat
  BY CursorFacts DEF Loading
<1>2. n \in Nat
  BY <1>1, SegmentFacts
<1>3. a \in Nat /\ PageOf(a) \notin Pages(elf.segments[i])
  BY <1>1, <1>2, SegmentFacts
<1>4. PageOf(b) \in Pages(elf.segments[i])
  <2> DEFINE lo == prog_hdr.vaddr
             hi == prog_hdr.vaddr + prog_hdr.memsz
  <2>1. lo \in Nat /\ hi \in Nat /\ b \in Nat /\ lo <= b /\ b <= hi
    BY <1>1
  <2> HIDE DEF lo, hi
  <2>2. lo \div PageSize <= b \div PageSize /\ b \div PageSize <= hi \div PageSize
    BY <2>1, PagesOrdered
  <2>3. lo \div PageSize \in Nat /\ b \div PageSize \in Nat /\ hi \div PageSize \in Nat
    BY <2>1, Division, ElfSegmentsAssumption
  <2>4. b \div PageSize \in lo \div PageSize .. hi \div PageSize
    BY <2>2, <2>3
  <2> QED
    BY <2>4 DEF Pages, PageOf, prog_hdr, lo, hi
<1> QED
  BY <1>3, <1>4

\* The state that a write leaves behind when it goes on: the handle is where the next byte
\* belongs, on the page of the last write or on a new one.
Moved ==
    /\ elf' = elf /\ pc' = pc /\ i' = i /\ j' = j + Written /\ src_read' = src_read + Written
    /\ current_vaddr' = current_vaddr + Written
    /\ PagesOK'
    /\ PageOf(current_vaddr') \in {PageOf(current_vaddr), PageOf(current_vaddr) + 1}
    /\ PageOf(current_vaddr') \in DOMAIN mapped'
    /\ mapped'[PageOf(current_vaddr')].flags = prog_hdr.flags
    /\ dst_write' \in [n : Nat, at : Nat]
    /\ dst_write'.n = mapped'[PageOf(current_vaddr')].n
    /\ dst_write'.at = current_vaddr' % PageSize
    /\ \A p \in DOMAIN mapped :
          p # PageOf(current_vaddr') \/ PageOf(current_vaddr') = PageOf(current_vaddr) =>
             p \in DOMAIN mapped' /\ mapped'[p] = mapped[p]
    /\ denied' = denied

\* The byte that the present loop owes, before its end.
Due(data) ==
    LET end == prog_hdr.vaddr + IF pc = "copy" THEN prog_hdr.filesz ELSE prog_hdr.memsz
    IN  /\ current_vaddr # pd_id_vaddr => data = Linked(i, current_vaddr)
        /\ current_vaddr < end
        /\ current_vaddr = pd_id_vaddr => current_vaddr + IdBytes <= end

\* Such a write leaves the invariant true.
LEMMA MovedLoads ==
    ASSUME Loading, pc \in {"copy", "zero"},
           NEW data, write_elf_data(data), Moved, Due(data)
    PROVE  Loading'
<1> DEFINE E == prog_hdr.vaddr + IF pc = "copy" THEN prog_hdr.filesz ELSE prog_hdr.memsz
           b == current_vaddr + Written
<1>1. /\ current_vaddr \in Nat /\ PageOf(current_vaddr) \in Nat
      /\ prog_hdr.vaddr \in Nat /\ prog_hdr.filesz \in Nat /\ prog_hdr.memsz \in Nat
      /\ prog_hdr.filesz <= prog_hdr.memsz
      /\ current_vaddr >= prog_hdr.vaddr /\ current_vaddr <= prog_hdr.vaddr + prog_hdr.memsz
      /\ pd_id_vaddr \in Nat /\ i \in Loadable /\ elf \in Programs
  BY CursorFacts
<1>2. E \in Nat /\ E <= prog_hdr.vaddr + prog_hdr.memsz
  BY <1>1
<1>3. /\ Written \in Nat \ {0} /\ b <= E /\ b \in Nat
      /\ (current_vaddr % PageSize) + Written <= PageSize /\ ~InId(b)
  <2>1. current_vaddr < E /\ (current_vaddr = pd_id_vaddr => current_vaddr + IdBytes <= E)
    BY DEF Due
  <2> HIDE DEF E
  <2>2. /\ Written \in Nat \ {0} /\ current_vaddr + Written <= E
        /\ (current_vaddr % PageSize) + Written <= PageSize
        /\ ~InId(current_vaddr + Written)
    BY <1>2, <2>1, WriteFits
  <2> QED
    BY <1>1, <2>2
<1>4. b \in prog_hdr.vaddr .. prog_hdr.vaddr + prog_hdr.memsz
  BY <1>1, <1>2, <1>3
<1>5. /\ elf' = elf /\ pc' = pc /\ i' = i /\ current_vaddr' = b /\ prog_hdr' = prog_hdr
      /\ Loadable' = Loadable /\ pd_id_vaddr' = pd_id_vaddr
  BY DEF Moved, prog_hdr, Loadable, pd_id_vaddr
<1>6. ~outside'
  BY <1>3, WriteMemory
\* The bytes of the earlier segments, and those of this one so far.
<1>7. ASSUME NEW n \in Loadable, n < i, NEW a \in Addresses(elf.segments[n]) PROVE Placed(n, a)'
  <2>1. current_vaddr \in prog_hdr.vaddr .. prog_hdr.vaddr + prog_hdr.memsz
    BY <1>1, <1>2
  <2>2. a \in Nat /\ PageOf(a) # PageOf(current_vaddr) /\ PageOf(a) # PageOf(b)
    BY <1>4, <1>7, <2>1, EarlierApart
  <2>3. Placed(n, a)
    BY <1>7 DEF Loading
  <2>4. memory'[mapped[PageOf(a)].n][a % PageSize] = memory[mapped[PageOf(a)].n][a % PageSize]
    BY <1>3, <2>2, <2>3, WriteKeeps
  <2>5. PageOf(a) \in DOMAIN mapped
    BY <2>3 DEF Placed
  <2>6. PageOf(a) \in DOMAIN mapped' /\ mapped'[PageOf(a)] = mapped[PageOf(a)]
    BY <1>5, <2>2, <2>5 DEF Moved
  <2> QED
    BY <1>5, <2>3, <2>4, <2>6, PlacedStays
<1>8. ASSUME NEW a \in prog_hdr.vaddr .. b - 1 PROVE Placed(i, a)'
  <2>1. a \in Nat
    BY <1>1, <1>3
  <2>2. CASE a < current_vaddr
    <3>1. Placed(i, a)
      BY <1>1, <1>8, <2>1, <2>2 DEF Loading, Cursor
    <3>2. memory'[mapped[PageOf(a)].n][a % PageSize] = memory[mapped[PageOf(a)].n][a % PageSize]
      BY <1>3, <2>1, <2>2, <3>1, WriteKeeps
    <3>3. PageOf(a) <= PageOf(current_vaddr) /\ PageOf(a) \in Nat
      <4>1. PageSize \in Nat \ {0} /\ a <= current_vaddr /\ current_vaddr \in Nat
        BY <1>1, <2>1, <2>2, ElfSegmentsAssumption
      <4>2. a \div PageSize \in Nat
        BY <2>1, <4>1, Division
      <4> QED
        BY <2>1, <4>1, <4>2, PagesOrdered DEF PageOf
    <3>4. PageOf(a) # PageOf(b) \/ PageOf(b) = PageOf(current_vaddr)
      BY <1>1, <1>5, <3>3 DEF Moved
    <3>5. PageOf(a) \in DOMAIN mapped
      BY <3>1 DEF Placed
    <3>6. PageOf(a) \in DOMAIN mapped' /\ mapped'[PageOf(a)] = mapped[PageOf(a)]
      BY <1>5, <3>4, <3>5 DEF Moved
    <3> QED
      BY <1>5, <3>1, <3>2, <3>6, PlacedStays
  <2>3. CASE a >= current_vaddr
    <3>1. a \in current_vaddr .. current_vaddr + Written - 1
      BY <1>1, <1>3, <2>1, <2>3
    <3>2. PageOf(a) = PageOf(current_vaddr) /\ memory'[dst_write.n][a % PageSize] = Linked(i, a)
      BY <1>3, <1>5, <3>1, WriteLinked DEF Due
    <3>3. /\ PageOf(current_vaddr) \in DOMAIN mapped
          /\ mapped[PageOf(current_vaddr)].flags = prog_hdr.flags
          /\ dst_write.n = mapped[PageOf(current_vaddr)].n
      BY DEF Loading, Cursor
    <3>4. PageOf(current_vaddr) # PageOf(b) \/ PageOf(b) = PageOf(current_vaddr)
      OBVIOUS
    <3>5. /\ PageOf(current_vaddr) \in DOMAIN mapped'
          /\ mapped'[PageOf(current_vaddr)] = mapped[PageOf(current_vaddr)]
      BY <1>5, <3>3 DEF Moved
    <3>6. Linked(i, a)' = Linked(i, a)
      BY <1>5 DEF Linked
    <3> QED
      BY <1>5, <3>2, <3>3, <3>5, <3>6 DEF Placed, prog_hdr, PageOf
  <2> QED
    BY <1>1, <2>1, <2>2, <2>3
<1>9. Cursor'
  <2>1. b \in prog_hdr.vaddr .. prog_hdr.vaddr + prog_hdr.memsz /\ ~InId(b)
    BY <1>3, <1>4
  <2>2. InId(current_vaddr)' <=> InId(b)
    BY <1>5 DEF InId
  <2>3. pc = "copy" => /\ j' = b - prog_hdr.vaddr /\ j' <= prog_hdr.filesz
                       /\ src_read' = j'
    BY <1>1, <1>3 DEF Loading, Cursor, Moved
  <2>4. pc = "zero" => j' = b - prog_hdr.vaddr - prog_hdr.filesz /\ j' >= 0
    BY <1>1, <1>3 DEF Loading, Cursor, Moved
  <2>5. /\ PageOf(b) \in DOMAIN mapped' /\ mapped'[PageOf(b)].flags = prog_hdr.flags
        /\ dst_write' \in [n : Nat, at : Nat]
        /\ dst_write'.n = mapped'[PageOf(b)].n /\ dst_write'.at = b % PageSize
    BY <1>5 DEF Moved
  <2> HIDE DEF b
  <2> QED
    BY <1>1, <1>5, <1>8, <2>1, <2>2, <2>3, <2>4, <2>5 DEF Cursor, PageOf
<1> QED
  <2>1. pc \in {"copy", "zero"} /\ PagesOK' /\ i \in Nat \ {0}
    BY DEF Moved, Loading
  <2> QED
    BY <1>1, <1>5, <1>6, <1>7, <1>9, <2>1 DEF Loading

\* A load that has failed leaves its pages apart.
LEMMA FailedLoads ==
    ASSUME Loading, elf' = elf, Fail, ~outside', PagesOK'
    PROVE  Loading'
<1>1. pc' = "failed" /\ i' = i
  BY DEF Fail
<1> QED
  BY <1>1 DEF Loading

\* Whether or not it takes a page, an allocation maps none twice.
LEMMA AllocateKeeps ==
    ASSUME PagesOK, NEW v \in Nat, NEW flags, DOMAIN memory' = Pool,
           \/ ~NoPages /\ take_page(v, flags)
           \/ page_idx' = page_idx /\ mapped' = mapped
    PROVE  PagesOK' /\ page_idx' \in {page_idx, page_idx + 1}
<1>1. CASE ~NoPages /\ take_page(v, flags)
  BY <1>1, TakeKeeps
<1>2. CASE page_idx' = page_idx /\ mapped' = mapped
  BY <1>2 DEF PagesOK, Pool
<1> QED
  BY <1>1, <1>2

\* How a write goes on: on the next page, on the same one, or not at all.
LEMMA WriteCases ==
    ASSUME Loading, pc \in {"copy", "zero"}, NEW data, Write(data), Due(data)
    PROVE  \/ /\ Moved /\ page_idx' = page_idx + 1 /\ ~NoPages
              /\ PageOf(current_vaddr') = PageOf(current_vaddr) + 1
           \/ /\ Moved /\ page_idx' = page_idx
              /\ PageOf(current_vaddr') = PageOf(current_vaddr)
           \/ /\ Fail /\ elf' = elf /\ PagesOK' /\ ~outside'
              /\ PageOf(current_vaddr + Written) = PageOf(current_vaddr) + 1
              /\ \/ NoPages /\ page_idx' = page_idx
                 \/ denied' = TRUE /\ page_idx' \in {page_idx, page_idx + 1}
<1> DEFINE E == prog_hdr.vaddr + IF pc = "copy" THEN prog_hdr.filesz ELSE prog_hdr.memsz
           b == current_vaddr + Written
           handle == [dst_write EXCEPT !.at = @ + Written]
           flags == prog_hdr.flags
           rest == /\ j' = j + Written
                   /\ src_read' = src_read + Written
                   /\ current_vaddr' = current_vaddr + Written
                   /\ UNCHANGED <<pc, i>>
           next == dst_write' = [n |-> page_idx, at |-> b % PageSize] /\ rest
<1>1. /\ current_vaddr \in Nat /\ PageOf(current_vaddr) \in Nat
      /\ current_vaddr % PageSize \in Nat
      /\ prog_hdr.vaddr \in Nat /\ prog_hdr.filesz \in Nat /\ prog_hdr.memsz \in Nat
      /\ dst_write.n \in Pool /\ dst_write.at = current_vaddr % PageSize
  BY CursorFacts
<1>2. E \in Nat
  BY <1>1
<1>3. /\ Written \in Nat \ {0}
      /\ (current_vaddr % PageSize) + Written <= PageSize
  <2>1. current_vaddr < E /\ (current_vaddr = pd_id_vaddr => current_vaddr + IdBytes <= E)
    BY DEF Due
  <2> HIDE DEF E
  <2> QED
    BY <1>2, <2>1, WriteFits
<1>4. /\ write_elf_data(data) /\ elf' = elf
      /\ ensure_page_is_allocated(handle, b, flags, rest)
  BY DEF Write
<1>5. DOMAIN memory' = Pool /\ ~outside'
  BY <1>3, <1>4, WriteMemory
<1>6. handle \in [n : Nat, at : Nat] /\ handle.n = dst_write.n
      /\ handle.at = (current_vaddr % PageSize) + Written /\ handle # None
  <2>1. dst_write \in [n : Nat, at : Nat]
    BY DEF Loading, Cursor
  <2>2. dst_write.at + Written \in Nat
    BY <1>1, <1>3
  <2> QED
    BY <1>1, <2>1, <2>2, ElfSegmentsAssumption
<1>7. /\ (current_vaddr % PageSize) + Written < PageSize =>
            PageOf(b) = PageOf(current_vaddr) /\ b % PageSize = (current_vaddr % PageSize) + Written
      /\ (current_vaddr % PageSize) + Written = PageSize =>
            PageOf(b) = PageOf(current_vaddr) + 1 /\ b % PageSize = 0
  BY <1>1, <1>3, GoOn DEF PageOf
<1>8. PagesOK /\ Cursor
  BY DEF Loading
<1>9. b \in Nat /\ b % PageSize \in Nat
  BY <1>1, <1>3, Division, ElfSegmentsAssumption
<1> HIDE DEF handle, rest, b
<1>10. NeedsPage(handle, b) => PageOf(b) = PageOf(current_vaddr) + 1
  <2> SUFFICES ASSUME NeedsPage(handle, b) PROVE PageOf(b) = PageOf(current_vaddr) + 1
    OBVIOUS
  <2>1. b % PageSize = 0
    BY <1>6 DEF NeedsPage
  <2>2. ~((current_vaddr % PageSize) + Written < PageSize)
    BY <1>1, <1>3, <1>7, <2>1
  <2> QED
    BY <1>1, <1>3, <1>7, <2>2, ElfSegmentsAssumption
<1>11. CASE NeedsPage(handle, b) /\ ~NoPages /\ take_page(b, flags)
            /\ dst_write' = [n |-> page_idx, at |-> b % PageSize] /\ rest
            /\ denied' = denied
  <2>1. PageOf(b) = PageOf(current_vaddr) + 1
    BY <1>11, <1>10
  <2>2. /\ PagesOK' /\ PageOf(b) \in DOMAIN mapped'
        /\ mapped'[PageOf(b)].n = page_idx /\ mapped'[PageOf(b)].flags = flags
        /\ \A p \in DOMAIN mapped : p # PageOf(b) => p \in DOMAIN mapped' /\ mapped'[p] = mapped[p]
    BY <1>5, <1>8, <1>9, <1>11, TakeKeeps
  <2>3. /\ dst_write' \in [n : Nat, at : Nat] /\ dst_write'.n = page_idx
        /\ dst_write'.at = b % PageSize
    BY <1>8, <1>9, <1>11, ElfSegmentsAssumption DEF PagesOK
  <2>4. current_vaddr' = b /\ j' = j + Written /\ src_read' = src_read + Written
        /\ pc' = pc /\ i' = i /\ denied' = denied
    BY <1>11 DEF rest, b
  <2>5. PageOf(b) # PageOf(current_vaddr)
    BY <1>1, <2>1
  <2>6. current_vaddr' = current_vaddr + Written
    BY <2>4 DEF b
  <2>7. Moved
    BY <1>4, <2>1, <2>2, <2>3, <2>4, <2>5, <2>6 DEF Moved
  <2> QED
    BY <1>11, <2>1, <2>2, <2>4, <2>7 DEF take_page
<1>12. CASE ~NeedsPage(handle, b) /\ dst_write' = handle /\ rest
            /\ page_idx' = page_idx /\ mapped' = mapped /\ denied' = denied
  <2>1. (current_vaddr % PageSize) + Written < PageSize
    BY <1>1, <1>3, <1>7, <1>12, ElfSegmentsAssumption DEF NeedsPage
  <2>2. PageOf(b) = PageOf(current_vaddr) /\ dst_write'.at = b % PageSize
        /\ dst_write'.n = dst_write.n /\ dst_write' \in [n : Nat, at : Nat]
    BY <1>6, <1>7, <1>12, <2>1
  <2>3. current_vaddr' = b /\ j' = j + Written /\ src_read' = src_read + Written
        /\ pc' = pc /\ i' = i
    BY <1>12 DEF rest, b
  <2>4. current_vaddr' = current_vaddr + Written
    BY <2>3 DEF b
  <2>5. PagesOK'
    BY <1>5, <1>8, <1>12 DEF PagesOK, Pool
  <2>6. /\ PageOf(b) \in DOMAIN mapped' /\ mapped'[PageOf(b)].flags = flags
        /\ dst_write'.n = mapped'[PageOf(b)].n
    BY <1>8, <1>12, <2>2 DEF Cursor
  <2>7. Moved
    BY <1>4, <1>12, <2>2, <2>3, <2>4, <2>5, <2>6 DEF Moved
  <2> QED
    BY <1>12, <2>2, <2>3, <2>7
<1>13. CASE NeedsPage(handle, b) /\ allocate_page(b, flags, next)
  <2>1. \/ next /\ denied' = denied /\ ~NoPages /\ take_page(b, flags)
        \/ Fail /\ denied' = TRUE /\ ~NoPages /\ take_page(b, flags)
        \/ Fail /\ denied' = TRUE /\ page_idx' = page_idx /\ mapped' = mapped
        \/ Fail /\ NoPages /\ page_idx' = page_idx /\ mapped' = mapped
    <3> HIDE DEF next
    <3> QED
      BY <1>13, Zenon DEF allocate_page, Denied
  <2>2. CASE next /\ denied' = denied /\ ~NoPages /\ take_page(b, flags)
    BY <1>11, <1>13, <2>2
  <2>3. CASE Fail /\ (\/ NoPages /\ page_idx' = page_idx /\ mapped' = mapped
                      \/ denied' = TRUE /\ ~NoPages /\ take_page(b, flags)
                      \/ denied' = TRUE /\ page_idx' = page_idx /\ mapped' = mapped)
    <3>1. PagesOK' /\ page_idx' \in {page_idx, page_idx + 1}
      BY <1>5, <1>8, <1>9, <2>3, AllocateKeeps
    <3>2. PageOf(current_vaddr + Written) = PageOf(current_vaddr) + 1
      BY <1>10, <1>13 DEF b
    <3> QED
      BY <1>4, <1>5, <2>3, <3>1, <3>2
  <2> QED
    BY <2>1, <2>2, <2>3
<1> QED
  BY <1>4, <1>12, <1>13, Zenon DEF ensure_page_is_allocated

\* The body of both loops keeps the invariant, whether or not there is a page left.
LEMMA WriteLoads ==
    ASSUME Loading, pc \in {"copy", "zero"}, NEW data, Write(data), Due(data)
    PROVE  Loading'
<1>1. write_elf_data(data)
  BY DEF Write
<1>2. CASE Moved
  BY <1>1, <1>2, MovedLoads
<1>3. CASE Fail /\ elf' = elf /\ PagesOK' /\ ~outside'
  BY <1>3, FailedLoads
<1> QED
  BY <1>2, <1>3, WriteCases

-----------------------------------------------------------------------------
(* Each action keeps the invariant *)

\* Nothing is loaded at first.
LEMMA InitLoads == Init => Loading
<1> SUFFICES ASSUME Init PROVE Loading
  OBVIOUS
<1>1. PagesOK
  BY ElfSegmentsAssumption DEF Init, PagesOK, Pool
<1> QED
  BY <1>1 DEF Init, Loading

\* Bytes that are in place stay there in a step that leaves the pages alone.
LEMMA PlacedRests ==
    ASSUME NEW n, NEW a, elf' = elf, mapped' = mapped, memory' = memory
    PROVE  Placed(n, a)' <=> Placed(n, a)
  BY DEF Placed, Linked, pd_id_vaddr, PageOf

\* A step that leaves the pages alone leaves them apart.
LEMMA RestFacts ==
    ASSUME Loading, elf' = elf, mapped' = mapped, memory' = memory, page_idx' = page_idx
    PROVE  PagesOK' /\ Loadable' = Loadable /\ pd_id_vaddr' = pd_id_vaddr /\ elf' \in Programs
  BY DEF Loading, PagesOK, Pool, Loadable, pd_id_vaddr

\* Without the symbol of the id the load ends.
LEMMA FindPdIdLoads == Loading /\ FindPdId => Loading'
<1> SUFFICES ASSUME Loading, FindPdId PROVE Loading'
  OBVIOUS
<1>1. /\ elf' = elf /\ i' = i /\ outside' = outside /\ pc' \in {"failed", "segment"}
      /\ pc' = "segment" => pd_id_vaddr # None
      /\ mapped' = mapped /\ memory' = memory /\ page_idx' = page_idx /\ i = 1
  BY DEF FindPdId, Loading
<1>2. PagesOK' /\ Loadable' = Loadable /\ pd_id_vaddr' = pd_id_vaddr /\ elf' \in Programs
  BY <1>1, RestFacts
<1>3. pc' = "segment" => pd_id_vaddr \in Nat
  BY <1>1, IdFacts DEF Loading
<1>4. \A n \in Loadable : n \in Nat /\ ~(n < 1)
  BY SegmentFacts DEF Loading
<1>5. ~outside'
  BY <1>1 DEF Loading
<1> QED
  BY <1>1, <1>2, <1>3, <1>4, <1>5 DEF Loading

\* A header that is not loaded leaves nothing to place.
LEMMA SkipSegmentLoads == Loading /\ SkipSegment => Loading'
<1> SUFFICES ASSUME Loading, SkipSegment PROVE Loading'
  OBVIOUS
<1>1. /\ elf' = elf /\ i' = i + 1 /\ outside' = outside /\ pc = "segment" /\ pc' = pc
      /\ mapped' = mapped /\ memory' = memory /\ page_idx' = page_idx
  BY DEF SkipSegment
<1>2. PagesOK' /\ Loadable' = Loadable /\ pd_id_vaddr' = pd_id_vaddr /\ elf' \in Programs
  BY <1>1, RestFacts
<1>3. i \notin Loadable /\ i \in Nat \ {0}
  BY DEF SkipSegment, Loadable, LoadsOf, prog_hdr, Loading
<1>4. ASSUME NEW n \in Loadable, n < i + 1, NEW a \in Addresses(elf.segments[n]) PROVE Placed(n, a)'
  <2>1. n \in Nat /\ n < i
    BY <1>3, <1>4, SegmentFacts DEF Loading
  <2>2. Placed(n, a)
    BY <1>1, <1>4, <2>1 DEF Loading
  <2> QED
    BY <1>1, <2>2, PlacedRests
<1>5. ~outside' /\ pd_id_vaddr \in Nat
  BY <1>1 DEF Loading
<1> QED
  BY <1>1, <1>2, <1>3, <1>4, <1>5 DEF Loading

\* The first page of a segment: with none of its bytes in place yet.
LEMMA BeginSegmentLoads == Loading /\ BeginSegment => Loading'
<1> SUFFICES ASSUME Loading, BeginSegment PROVE Loading'
  OBVIOUS
<1> DEFINE v == prog_hdr.vaddr
           flags == prog_hdr.flags
           rest == /\ pc' = "copy" /\ j' = 0 /\ src_read' = 0
                   /\ current_vaddr' = prog_hdr.vaddr
                   /\ UNCHANGED i
           next == dst_write' = [n |-> page_idx, at |-> v % PageSize] /\ rest
<1>1. /\ pc = "segment" /\ elf' = elf /\ memory' = memory /\ outside' = outside
      /\ ensure_page_is_allocated(None, v, flags, rest)
  BY DEF BeginSegment
<1>2. i \in Loadable /\ i \in Nat \ {0} /\ elf \in Programs /\ pd_id_vaddr \in Nat
  <2>1. i \in Nat \ {0} /\ elf \in Programs /\ pd_id_vaddr \in Nat
    BY <1>1 DEF Loading
  <2>2. Len(elf.segments) \in Nat /\ DOMAIN elf.segments = 1 .. Len(elf.segments)
    BY <2>1, ProgramsAssumption DEF WellLinked
  <2> QED
    BY <2>1, <2>2 DEF BeginSegment, Loadable, LoadsOf, prog_hdr
<1>3. /\ v \in Nat /\ prog_hdr.filesz \in Nat /\ prog_hdr.memsz \in Nat
      /\ \/ pd_id_vaddr + IdBytes <= v
         \/ v <= pd_id_vaddr
         \/ v + prog_hdr.filesz <= pd_id_vaddr
         \/ v + prog_hdr.memsz <= pd_id_vaddr
  <2>1. pd_id_vaddr # None
    BY <1>2, ElfSegmentsAssumption
  <2> QED
    BY <1>2, <2>1, SegmentFacts DEF prog_hdr
<1>4. ~InId(v)
  BY <1>2, <1>3, ElfSegmentsAssumption DEF InId
<1>5. PagesOK /\ DOMAIN memory' = Pool /\ ~outside'
  BY <1>1 DEF Loading, PagesOK
<1>6. v % PageSize \in Nat
  BY <1>3, Division, ElfSegmentsAssumption
<1> HIDE DEF rest
<1>7. CASE ~NoPages /\ take_page(v, flags)
            /\ dst_write' = [n |-> page_idx, at |-> v % PageSize] /\ rest
  <2>1. /\ PagesOK' /\ PageOf(v) \in DOMAIN mapped'
        /\ mapped'[PageOf(v)].n = page_idx /\ mapped'[PageOf(v)].flags = flags
        /\ \A p \in DOMAIN mapped : p # PageOf(v) => p \in DOMAIN mapped' /\ mapped'[p] = mapped[p]
    BY <1>3, <1>5, <1>7, TakeKeeps
  <2>2. /\ dst_write' \in [n : Nat, at : Nat] /\ dst_write'.n = page_idx
        /\ dst_write'.at = v % PageSize
    BY <1>5, <1>6, <1>7, ElfSegmentsAssumption DEF PagesOK
  <2>3. pc' = "copy" /\ j' = 0 /\ src_read' = 0 /\ current_vaddr' = v /\ i' = i
    BY <1>7 DEF rest
  <2>4. prog_hdr' = prog_hdr /\ Loadable' = Loadable /\ pd_id_vaddr' = pd_id_vaddr
    BY <1>1, <2>3 DEF prog_hdr, Loadable, pd_id_vaddr
  <2>5. ASSUME NEW n \in Loadable, n < i, NEW a \in Addresses(elf.segments[n]) PROVE Placed(n, a)'
    <3>1. n \in Nat
      BY <1>2, SegmentFacts
    <3>2. PageOf(a) \notin Pages(elf.segments[i])
      BY <1>2, <2>5, <3>1, SegmentFacts
    <3>3. PageOf(v) \in Pages(elf.segments[i])
      <4> DEFINE hi == v + prog_hdr.memsz
      <4>1. hi \in Nat /\ v <= hi
        BY <1>3
      <4> HIDE DEF v, hi
      <4>2. /\ v \div PageSize \in Nat /\ hi \div PageSize \in Nat
            /\ v \div PageSize <= hi \div PageSize
        BY <1>3, <4>1, Division, PagesOrdered, ElfSegmentsAssumption
      <4>3. v \div PageSize \in v \div PageSize .. hi \div PageSize
        BY <4>2
      <4> QED
        BY <4>3 DEF Pages, PageOf, v, hi, prog_hdr
    <3>4. Placed(n, a)
      BY <1>1, <2>5 DEF Loading
    <3>5. PageOf(a) \in DOMAIN mapped
      BY <3>4 DEF Placed
    <3>6. PageOf(a) \in DOMAIN mapped' /\ mapped'[PageOf(a)] = mapped[PageOf(a)]
      BY <2>1, <3>2, <3>3, <3>5
    <3>7. memory'[mapped[PageOf(a)].n][a % PageSize] = memory[mapped[PageOf(a)].n][a % PageSize]
      BY <1>1
    <3> QED
      BY <1>1, <3>4, <3>6, <3>7, PlacedStays
  <2>6. InId(current_vaddr)' <=> InId(v)
    BY <2>3, <2>4 DEF InId
  <2>7. v \in v .. v + prog_hdr.memsz /\ v - v = 0 /\ v .. v - 1 = {} /\ 0 <= prog_hdr.filesz
    BY <1>3
  <2>8. Cursor'
    <3> HIDE DEF v
    <3>1. current_vaddr' = v /\ prog_hdr'.vaddr = v
      BY <2>3, <2>4 DEF v
    <3>2. PageOf(current_vaddr)' = PageOf(v) /\ (current_vaddr % PageSize)' = v % PageSize
      BY <3>1 DEF PageOf
    <3>3. /\ j' = current_vaddr' - prog_hdr'.vaddr /\ j' <= prog_hdr'.filesz
          /\ src_read' = j' /\ pc' # "zero"
      BY <2>3, <2>4, <2>7, <3>1
    <3>4. prog_hdr'.vaddr .. current_vaddr' - 1 = {}
      BY <2>7, <3>1
    <3> QED
      BY <1>2, <1>4, <2>1, <2>2, <2>4, <2>6, <2>7, <3>1, <3>2, <3>3, <3>4, <2>3 DEF Cursor
  <2> QED
    BY <1>1, <1>2, <1>5, <2>1, <2>3, <2>4, <2>5, <2>8 DEF Loading
<1>8. CASE Fail /\ PagesOK'
  BY <1>1, <1>5, <1>8, FailedLoads
<1>9. allocate_page(v, flags, next)
  <2>1. NeedsPage(None, v)
    BY DEF NeedsPage
  <2> QED
    BY <1>1, <2>1, Zenon DEF ensure_page_is_allocated
<1>10. PagesOK'
  <2> HIDE DEF next, v
  <2>1. \/ ~NoPages /\ take_page(v, flags)
        \/ page_idx' = page_idx /\ mapped' = mapped
    BY <1>9, Zenon DEF allocate_page
  <2> QED
    BY <1>3, <1>5, <2>1, AllocateKeeps DEF v
<1>11. Fail \/ (next /\ ~NoPages /\ take_page(v, flags))
  <2> HIDE DEF next, v
  <2> QED
    BY <1>9, Zenon DEF allocate_page, Denied
<1> QED
  BY <1>7, <1>8, <1>10, <1>11

\* The first loop owes the byte of the file that it has read up to.
LEMMA CopyDue ==
    ASSUME Loading, Copy
    PROVE  pc = "copy" /\ Write(FileByte(i, src_read)) /\ Due(FileByte(i, src_read))
<1> DEFINE data == FileByte(i, src_read)
<1>1. pc = "copy" /\ pc \in {"copy", "zero"} /\ j < prog_hdr.filesz /\ Write(data)
  BY DEF Copy
<1>2. /\ current_vaddr \in Nat /\ pd_id_vaddr \in Nat /\ pd_id_vaddr # None
      /\ prog_hdr.vaddr \in Nat /\ prog_hdr.filesz \in Nat /\ prog_hdr.memsz \in Nat
      /\ IdBytes \in Nat \ {0} /\ i \in Loadable /\ elf \in Programs
      /\ current_vaddr >= prog_hdr.vaddr
  BY <1>1, CursorFacts
<1>3. ~InId(current_vaddr) /\ j = current_vaddr - prog_hdr.vaddr /\ src_read = j
  BY <1>1 DEF Loading, Cursor
<1>4. current_vaddr < prog_hdr.vaddr + prog_hdr.filesz
  BY <1>1, <1>2, <1>3
<1>5. \/ pd_id_vaddr + IdBytes <= prog_hdr.vaddr
      \/ pd_id_vaddr + IdBytes <= prog_hdr.vaddr + prog_hdr.filesz
      \/ prog_hdr.vaddr + prog_hdr.filesz <= pd_id_vaddr
      \/ prog_hdr.vaddr + prog_hdr.memsz <= pd_id_vaddr /\ prog_hdr.filesz <= prog_hdr.memsz
  BY <1>2, SegmentFacts DEF prog_hdr
<1>6. current_vaddr = pd_id_vaddr => current_vaddr + IdBytes <= prog_hdr.vaddr + prog_hdr.filesz
  BY <1>2, <1>4, <1>5
<1>7. current_vaddr # pd_id_vaddr => data = Linked(i, current_vaddr)
  <2> SUFFICES ASSUME current_vaddr # pd_id_vaddr PROVE data = Linked(i, current_vaddr)
    OBVIOUS
  <2>1. current_vaddr \notin pd_id_vaddr .. pd_id_vaddr + IdBytes - 1
    BY <1>2, <1>3 DEF InId
  <2>2. /\ current_vaddr - prog_hdr.vaddr < prog_hdr.filesz
        /\ src_read = current_vaddr - prog_hdr.vaddr
    BY <1>1, <1>3
  <2> QED
    BY <2>1, <2>2 DEF Linked, prog_hdr
<1> HIDE DEF data
<1> QED
  BY <1>1, <1>4, <1>6, <1>7 DEF Due, data

\* The second loop owes zeros.
LEMMA ClearDue ==
    ASSUME Loading, Clear
    PROVE  pc = "zero" /\ Write(Zero) /\ Due(Zero)
<1>1. /\ pc = "zero" /\ pc \in {"copy", "zero"} /\ pc # "copy"
      /\ j < prog_hdr.memsz - prog_hdr.filesz /\ Write(Zero)
  BY DEF Clear
<1>2. /\ current_vaddr \in Nat /\ pd_id_vaddr \in Nat /\ pd_id_vaddr # None
      /\ prog_hdr.vaddr \in Nat /\ prog_hdr.filesz \in Nat /\ prog_hdr.memsz \in Nat
      /\ IdBytes \in Nat \ {0} /\ i \in Loadable /\ elf \in Programs
  BY <1>1, CursorFacts
<1>3. ~InId(current_vaddr) /\ j = current_vaddr - prog_hdr.vaddr - prog_hdr.filesz /\ j >= 0
  BY <1>1 DEF Loading, Cursor
<1>4. /\ current_vaddr < prog_hdr.vaddr + prog_hdr.memsz
      /\ current_vaddr >= prog_hdr.vaddr + prog_hdr.filesz
  BY <1>1, <1>2, <1>3
<1>5. \/ pd_id_vaddr + IdBytes <= prog_hdr.vaddr
      \/ pd_id_vaddr + IdBytes <= prog_hdr.vaddr + prog_hdr.filesz
      \/ pd_id_vaddr + IdBytes <= prog_hdr.vaddr + prog_hdr.memsz
      \/ prog_hdr.vaddr + prog_hdr.memsz <= pd_id_vaddr
  BY <1>2, SegmentFacts DEF prog_hdr
<1>6. current_vaddr = pd_id_vaddr => current_vaddr + IdBytes <= prog_hdr.vaddr + prog_hdr.memsz
  BY <1>2, <1>4, <1>5
<1>7. current_vaddr # pd_id_vaddr => Zero = Linked(i, current_vaddr)
  <2> SUFFICES ASSUME current_vaddr # pd_id_vaddr PROVE Zero = Linked(i, current_vaddr)
    OBVIOUS
  <2>1. current_vaddr \notin pd_id_vaddr .. pd_id_vaddr + IdBytes - 1
    BY <1>2, <1>3 DEF InId
  <2>2. ~(current_vaddr - prog_hdr.vaddr < prog_hdr.filesz)
    BY <1>2, <1>4
  <2> QED
    BY <2>1, <2>2 DEF Linked, prog_hdr
<1> QED
  BY <1>1, <1>4, <1>6, <1>7 DEF Due

\* Hence the first loop keeps the invariant.
LEMMA CopyLoads == Loading /\ Copy => Loading'
<1> SUFFICES ASSUME Loading, Copy PROVE Loading'
  OBVIOUS
<1> QED
  BY CopyDue, WriteLoads

\* The same for the zeros.
LEMMA ClearLoads == Loading /\ Clear => Loading'
<1> SUFFICES ASSUME Loading, Clear PROVE Loading'
  OBVIOUS
<1> QED
  BY ClearDue, WriteLoads

\* The second loop goes on where the first one ended.
LEMMA CopyEndLoads == Loading /\ CopyEnd => Loading'
<1> SUFFICES ASSUME Loading, CopyEnd PROVE Loading'
  OBVIOUS
<1>1. /\ elf' = elf /\ i' = i /\ outside' = outside /\ pc = "copy" /\ pc' = "zero" /\ j' = 0
      /\ mapped' = mapped /\ memory' = memory /\ page_idx' = page_idx
      /\ current_vaddr' = current_vaddr /\ dst_write' = dst_write /\ j >= prog_hdr.filesz
      /\ prog_hdr' = prog_hdr
  BY DEF CopyEnd, prog_hdr
<1>2. PagesOK' /\ Loadable' = Loadable /\ pd_id_vaddr' = pd_id_vaddr /\ elf' \in Programs
  BY <1>1, RestFacts
<1>3. /\ current_vaddr \in Nat /\ prog_hdr.vaddr \in Nat /\ prog_hdr.filesz \in Nat
  BY <1>1, CursorFacts
<1>4. j = current_vaddr - prog_hdr.vaddr /\ j <= prog_hdr.filesz
  BY <1>1 DEF Loading, Cursor
<1>5. j' = current_vaddr - prog_hdr.vaddr - prog_hdr.filesz /\ j' >= 0
  BY <1>1, <1>3, <1>4
<1>6. ~InId(current_vaddr)'
  BY <1>1, <1>2 DEF InId, Loading, Cursor
<1>7. ASSUME NEW a \in prog_hdr.vaddr .. current_vaddr - 1 PROVE Placed(i, a)'
  <2>1. Placed(i, a)
    BY <1>1, <1>7 DEF Loading, Cursor
  <2> QED
    BY <1>1, <2>1, PlacedRests
<1>8. Cursor'
  <2>1. /\ i \in Loadable
        /\ current_vaddr \in prog_hdr.vaddr .. prog_hdr.vaddr + prog_hdr.memsz
        /\ PageOf(current_vaddr) \in DOMAIN mapped
        /\ mapped[PageOf(current_vaddr)].flags = prog_hdr.flags
        /\ dst_write \in [n : Nat, at : Nat]
        /\ dst_write.n = mapped[PageOf(current_vaddr)].n /\ dst_write.at = current_vaddr % PageSize
    BY <1>1 DEF Loading, Cursor
  <2> QED
    BY <1>1, <1>2, <1>5, <1>6, <1>7, <2>1 DEF Cursor, PageOf
<1>9. ASSUME NEW n \in Loadable, n < i, NEW a \in Addresses(elf.segments[n]) PROVE Placed(n, a)'
  <2>1. Placed(n, a)
    BY <1>1, <1>9 DEF Loading
  <2> QED
    BY <1>1, <2>1, PlacedRests
<1>10. ~outside' /\ pd_id_vaddr \in Nat /\ i \in Nat \ {0}
  BY <1>1 DEF Loading
<1> QED
  BY <1>1, <1>2, <1>8, <1>9, <1>10 DEF Loading

\* After the zeros the whole segment is in place.
LEMMA ClearEndLoads == Loading /\ ClearEnd => Loading'
<1> SUFFICES ASSUME Loading, ClearEnd PROVE Loading'
  OBVIOUS
<1>1. /\ elf' = elf /\ i' = i + 1 /\ outside' = outside /\ pc = "zero" /\ pc' = "segment"
      /\ mapped' = mapped /\ memory' = memory /\ page_idx' = page_idx
      /\ j >= prog_hdr.memsz - prog_hdr.filesz
  BY DEF ClearEnd
<1>2. PagesOK' /\ Loadable' = Loadable /\ pd_id_vaddr' = pd_id_vaddr /\ elf' \in Programs
  BY <1>1, RestFacts
<1>3. /\ current_vaddr \in Nat /\ prog_hdr.vaddr \in Nat /\ prog_hdr.filesz \in Nat
      /\ prog_hdr.memsz \in Nat
  BY <1>1, CursorFacts
<1>4. j = current_vaddr - prog_hdr.vaddr - prog_hdr.filesz /\ i \in Nat \ {0}
  BY <1>1 DEF Loading, Cursor
<1>5. current_vaddr >= prog_hdr.vaddr + prog_hdr.memsz
  BY <1>1, <1>3, <1>4
<1>6. ASSUME NEW n \in Loadable, n < i + 1, NEW a \in Addresses(elf.segments[n]) PROVE Placed(n, a)'
  <2>1. n \in Nat
    BY SegmentFacts DEF Loading
  <2>2. CASE n < i
    <3>1. Placed(n, a)
      BY <1>1, <1>6, <2>2 DEF Loading
    <3> QED
      BY <1>1, <3>1, PlacedRests
  <2>3. CASE n = i
    <3>1. a \in prog_hdr.vaddr .. current_vaddr - 1
      BY <1>3, <1>5, <1>6, <2>3 DEF Addresses, prog_hdr
    <3>2. Placed(n, a)
      BY <1>1, <2>3, <3>1 DEF Loading, Cursor
    <3> QED
      BY <1>1, <3>2, PlacedRests
  <2> QED
    BY <1>4, <1>6, <2>1, <2>2, <2>3
<1>7. ~outside' /\ pd_id_vaddr \in Nat
  BY <1>1 DEF Loading
<1> QED
  BY <1>1, <1>2, <1>4, <1>6, <1>7 DEF Loading

\* The page of the IPC buffer takes the place of none of a segment.
LEMMA SetUpIpcBufferLoads == Loading /\ SetUpIpcBuffer => Loading'
<1> SUFFICES ASSUME Loading, SetUpIpcBuffer PROVE Loading'
  OBVIOUS
<1>1. /\ pc = "segment" /\ elf' = elf /\ memory' = memory /\ outside' = outside
      /\ i > Len(elf.segments) /\ PagesOK /\ elf \in Programs /\ i \in Nat \ {0}
      /\ DOMAIN memory' = Pool /\ ~outside' /\ pd_id_vaddr \in Nat
  BY DEF SetUpIpcBuffer, Loading, PagesOK
<1> DEFINE v == ipc_buffer_vaddr
           next == pc' = "done" /\ UNCHANGED <<i, j, src_read, current_vaddr, dst_write>>
<1>2. CASE ipc_buffer_vaddr # None /\ ~NoPages /\ take_page(v, ReadWrite) /\ next
  <2>1. v \in Nat
    BY <1>1, <1>2, ProgramsAssumption DEF WellLinked, ipc_buffer_vaddr
  <2>2. pc' = "done" /\ i' = i
    BY <1>2
  <2>3. /\ PagesOK'
        /\ \A p \in DOMAIN mapped : p # PageOf(v) => p \in DOMAIN mapped' /\ mapped'[p] = mapped[p]
    <3> HIDE DEF v
    <3> QED
      BY <1>1, <1>2, <2>1, TakeKeeps
  <2>4. Loadable' = Loadable /\ pd_id_vaddr' = pd_id_vaddr
    BY <1>1 DEF Loadable, pd_id_vaddr
  <2>5. ASSUME NEW n \in Loadable, NEW a \in Addresses(elf.segments[n]) PROVE Placed(n, a)'
    <3>1. n < i /\ PageOf(a) # PageOf(v)
      BY <1>1, <1>2, <2>5, SegmentFacts
    <3>2. Placed(n, a)
      BY <1>1, <2>5, <3>1 DEF Loading
    <3>3. PageOf(a) \in DOMAIN mapped
      BY <3>2 DEF Placed
    <3>4. PageOf(a) \in DOMAIN mapped' /\ mapped'[PageOf(a)] = mapped[PageOf(a)]
      BY <2>3, <3>1, <3>3
    <3>5. memory'[mapped[PageOf(a)].n][a % PageSize] = memory[mapped[PageOf(a)].n][a % PageSize]
      BY <1>1
    <3> QED
      BY <1>1, <3>2, <3>4, <3>5, PlacedStays
  <2> QED
    BY <1>1, <2>2, <2>3, <2>4, <2>5 DEF Loading
<1>3. CASE Fail /\ PagesOK'
  BY <1>1, <1>3, FailedLoads
<1>4. CASE ipc_buffer_vaddr = None
  <2>1. Fail /\ page_idx' = page_idx /\ mapped' = mapped
    BY <1>4 DEF SetUpIpcBuffer
  <2> QED
    BY <1>1, <1>3, <2>1 DEF PagesOK, Pool
<1>5. CASE ipc_buffer_vaddr # None
  <2>1. allocate_page(v, ReadWrite, next)
    BY <1>5, Zenon DEF SetUpIpcBuffer
  <2>2. v \in Nat
    BY <1>1, <1>5, ProgramsAssumption DEF WellLinked, ipc_buffer_vaddr
  <2>3. PagesOK' /\ (Fail \/ (next /\ ~NoPages /\ take_page(v, ReadWrite)))
    <3> HIDE DEF next, v
    <3>1. \/ ~NoPages /\ take_page(v, ReadWrite)
          \/ page_idx' = page_idx /\ mapped' = mapped
      BY <2>1, Zenon DEF allocate_page
    <3>2. Fail \/ (next /\ ~NoPages /\ take_page(v, ReadWrite))
      BY <2>1, Zenon DEF allocate_page, Denied
    <3> QED
      BY <1>1, <2>2, <3>1, <3>2, AllocateKeeps
  <2> QED
    BY <1>2, <1>3, <1>5, <2>3
<1> QED
  BY <1>4, <1>5

\* So do the steps that change nothing here.
LEMMA StutterLoads == Loading /\ UNCHANGED vars => Loading'
<1> SUFFICES ASSUME Loading, UNCHANGED vars PROVE Loading'
  OBVIOUS
<1>1. /\ elf' = elf /\ pc' = pc /\ i' = i /\ j' = j /\ src_read' = src_read
      /\ current_vaddr' = current_vaddr /\ dst_write' = dst_write /\ page_idx' = page_idx
      /\ memory' = memory /\ mapped' = mapped /\ outside' = outside
  BY DEF vars
<1>2. PagesOK' /\ Loadable' = Loadable /\ pd_id_vaddr' = pd_id_vaddr /\ elf' \in Programs
  BY <1>1, RestFacts
<1>3. \A n \in Loadable : \A a \in Addresses(elf.segments[n]) : Placed(n, a) => Placed(n, a)'
  BY <1>1, PlacedRests
<1>4. \A a : Placed(i, a) => Placed(i, a)'
  BY <1>1, PlacedRests
<1>5. pc \in {"copy", "zero"} => Cursor'
  <2> SUFFICES ASSUME pc \in {"copy", "zero"} PROVE Cursor'
    OBVIOUS
  <2>1. Cursor
    BY DEF Loading
  <2>2. prog_hdr' = prog_hdr /\ PageOf(current_vaddr)' = PageOf(current_vaddr)
        /\ (InId(current_vaddr)' <=> InId(current_vaddr))
    BY <1>1, <1>2 DEF prog_hdr, PageOf, InId
  <2> QED
    BY <1>1, <1>2, <1>4, <2>1, <2>2 DEF Cursor
<1> QED
  BY <1>1, <1>2, <1>3, <1>5 DEF Loading

\* Hence every step does.
LEMMA StepLoads == Loading /\ [Next]_vars => Loading'
  BY FindPdIdLoads, SkipSegmentLoads, BeginSegmentLoads, CopyLoads, CopyEndLoads, ClearLoads,
     ClearEndLoads, SetUpIpcBufferLoads, StutterLoads DEF Next

\* The invariant implies the property.
LEMMA LoadingShows == Loading => LoadedAsLinked
<1> SUFFICES ASSUME Loading PROVE LoadedAsLinked
  OBVIOUS
<1>1. ~outside
  BY DEF Loading
<1>2. ASSUME pc = "done", NEW n \in Loadable, NEW a \in Addresses(elf.segments[n])
      PROVE  Placed(n, a)
  BY <1>2 DEF Loading
<1> QED
  BY <1>1, <1>2 DEF LoadedAsLinked, Placed, PageOf

\* Whatever the sizes of pages, pool and segments: a PD that sel4cp_internal_pd_load_elf
\* (sel4cp.h:951-1009) lets go on finds each byte of its segments, the id and the zeros at
\* the address they were linked for, on pages with the rights of their segment, and no
\* write has left the page of the write handle.
THEOREM AlwaysLoadedAsLinked == FileSpec => []LoadedAsLinked
<1>1. FileInit => Loading
  BY InitLoads DEF FileInit
<1>2. Loading /\ [FileNext]_<<vars, rights_vars>> => Loading'
  <2>1. [FileNext]_<<vars, rights_vars>> => [Next]_vars
    BY Zenon DEF FileNext, ReadControl, LoadElf, SetUpAccessRights
  <2> QED
    BY <2>1, StepLoads
<1> QED
  BY <1>1, <1>2, LoadingShows, PTL DEF FileSpec

-----------------------------------------------------------------------------
(* Counting the pages *)

\* All the pages that the segments take, and those that have been taken up to here.
AllPages == PagesBefore(Len(elf.segments) + 1)

PagesSoFar ==
    PagesBefore(i) \cup
        (IF pc \in {"copy", "zero"} THEN {i} \X (PageOf(prog_hdr.vaddr) .. PageOf(current_vaddr))
         ELSE {})

\* The pool has given one page for each of them.
Counted ==
    /\ pc \in {"symbol", "segment", "copy", "zero"} =>
          page_idx = Cardinality(PagesSoFar) /\ denied = FALSE
    /\ RefusedOnlyIfShort

\* Program headers are numbered from 1 on.
LEMMA LoadableNumbers ==
    ASSUME elf \in Programs
    PROVE  /\ Len(elf.segments) \in Nat
           /\ \A n \in Loadable : n \in Nat /\ 0 < n /\ n < Len(elf.segments) + 1
<1>1. Len(elf.segments) \in Nat /\ DOMAIN elf.segments = 1 .. Len(elf.segments)
  BY ProgramsAssumption DEF WellLinked
<1> QED
  BY <1>1 DEF Loadable, LoadsOf

\* A segment takes finitely many pages.
LEMMA SegmentPages ==
    ASSUME elf \in Programs, NEW n \in Loadable
    PROVE  IsFiniteSet(Pages(elf.segments[n]))
<1> DEFINE s == elf.segments[n]
           lo == s.vaddr
           hi == s.vaddr + s.memsz
<1>1. lo \in Nat /\ hi \in Nat
  BY SegmentFacts
<1> HIDE DEF lo, hi
<1>2. lo \div PageSize \in Nat /\ hi \div PageSize \in Nat
  BY <1>1, Division, ElfSegmentsAssumption
<1>3. IsFiniteSet(lo \div PageSize .. hi \div PageSize)
  BY <1>2, FS_Interval
<1> QED
  BY <1>3 DEF Pages, lo, hi

\* One segment more adds its own pages.
LEMMA PagesGrow ==
    ASSUME elf \in Programs, NEW k \in Nat
    PROVE  PagesBefore(k + 1) =
              PagesBefore(k) \cup (IF k \in Loadable THEN {k} \X Pages(elf.segments[k]) ELSE {})
<1>1. \A n \in Loadable : n \in Nat /\ (n < k + 1 <=> (n < k \/ n = k))
  BY LoadableNumbers
<1>2. ASSUME NEW x \in PagesBefore(k + 1)
      PROVE  x \in PagesBefore(k) \/ (k \in Loadable /\ x \in {k} \X Pages(elf.segments[k]))
  BY <1>1, <1>2 DEF PagesBefore
<1>3. ASSUME NEW x \in PagesBefore(k) PROVE x \in PagesBefore(k + 1)
  BY <1>1, <1>3 DEF PagesBefore
<1>4. ASSUME k \in Loadable, NEW x \in {k} \X Pages(elf.segments[k]) PROVE x \in PagesBefore(k + 1)
  BY <1>1, <1>4 DEF PagesBefore
<1> QED
  BY <1>2, <1>3, <1>4

\* By induction over the segments, they are finitely many.
LEMMA PagesFinite ==
    ASSUME elf \in Programs, NEW k \in Nat
    PROVE  IsFiniteSet(PagesBefore(k))
<1> DEFINE T == {n \in Nat : IsFiniteSet(PagesBefore(n))}
<1>1. 0 \in T
  <2>1. PagesBefore(0) = {}
    BY LoadableNumbers DEF PagesBefore
  <2> QED
    BY <2>1, FS_EmptySet
<1>2. ASSUME NEW n \in T PROVE n + 1 \in T
  <2>1. IsFiniteSet(IF n \in Loadable THEN {n} \X Pages(elf.segments[n]) ELSE {})
    <3>1. CASE n \in Loadable
      <4>1. IsFiniteSet({n} \X Pages(elf.segments[n]))
        BY <3>1, SegmentPages, FS_Singleton, FS_Product
      <4> QED
        BY <3>1, <4>1
    <3>2. CASE n \notin Loadable
      BY <3>2, FS_EmptySet
    <3> QED
      BY <3>1, <3>2
  <2>2. IsFiniteSet(PagesBefore(n + 1))
    <3> DEFINE own == IF n \in Loadable THEN {n} \X Pages(elf.segments[n]) ELSE {}
    <3>1. PagesBefore(n + 1) = PagesBefore(n) \cup own
      BY PagesGrow
    <3> HIDE DEF own
    <3>2. IsFiniteSet(PagesBefore(n)) /\ IsFiniteSet(own)
      BY <2>1 DEF own
    <3> DEFINE before == PagesBefore(n)
    <3> HIDE DEF before, T
    <3>3. IsFiniteSet(before) /\ IsFiniteSet(own)
      BY <3>2 DEF before
    <3>4. IsFiniteSet(before \cup own)
      BY <3>3, FS_Union
    <3> QED
      BY <3>1, <3>4 DEF before
  <2> QED
    BY <2>2
<1>3. T \in SUBSET Nat
  OBVIOUS
<1> HIDE DEF T
<1>4. T = Nat
  BY <1>1, <1>2, <1>3, NatSetInduction
<1> QED
  BY <1>4 DEF T

\* What precedes a segment is part of all, and none of it is of that segment.
LEMMA PagesApart ==
    ASSUME elf \in Programs, NEW k \in Nat
    PROVE  /\ PagesBefore(k) \subseteq AllPages
           /\ \A p : <<k, p>> \notin PagesBefore(k)
           /\ k \in Loadable => {k} \X Pages(elf.segments[k]) \subseteq AllPages
           /\ k > Len(elf.segments) => PagesBefore(k) = AllPages
<1>1. \A n \in Loadable : n \in Nat /\ n < Len(elf.segments) + 1
  BY LoadableNumbers
<1>2. Len(elf.segments) \in Nat
  BY LoadableNumbers
<1>3. PagesBefore(k) \subseteq AllPages
  BY <1>1 DEF PagesBefore, AllPages
<1>4. \A p : <<k, p>> \notin PagesBefore(k)
  <2> SUFFICES ASSUME NEW p, <<k, p>> \in PagesBefore(k) PROVE FALSE
    OBVIOUS
  <2>1. PICK n \in Loadable : n < k /\ <<k, p>> \in {n} \X Pages(elf.segments[n])
    BY DEF PagesBefore
  <2> QED
    BY <2>1
<1>5. k \in Loadable => {k} \X Pages(elf.segments[k]) \subseteq AllPages
  BY <1>1 DEF PagesBefore, AllPages
<1>6. k > Len(elf.segments) => PagesBefore(k) = AllPages
  <2> SUFFICES ASSUME k > Len(elf.segments)
               PROVE  {n \in Loadable : n < k} = {n \in Loadable : n < Len(elf.segments) + 1}
    BY DEF PagesBefore, AllPages
  <2> QED
    BY <1>1, <1>2
<1> QED
  BY <1>3, <1>4, <1>5, <1>6

\* To take a page that was not taken yet makes one more, of at most all.
LEMMA TakesOne ==
    ASSUME elf \in Programs, NEW S, S \subseteq AllPages, NEW x \in AllPages, x \notin S
    PROVE  /\ Cardinality(S) \in Nat /\ Cardinality(AllPages) \in Nat
           /\ Cardinality(S \cup {x}) = Cardinality(S) + 1
           /\ Cardinality(S) + 1 <= Cardinality(AllPages)
<1>1. IsFiniteSet(AllPages)
  BY LoadableNumbers, PagesFinite DEF AllPages
<1>2. IsFiniteSet(S)
  BY <1>1, FS_Subset
<1>3. Cardinality(S \cup {x}) = Cardinality(S) + 1
  BY <1>2, FS_AddElement
<1>4. Cardinality(S \cup {x}) <= Cardinality(AllPages)
  BY <1>1, FS_Subset
<1> QED
  BY <1>1, <1>2, <1>3, <1>4, FS_CardinalityType

\* A load takes a number of pages, the IPC buffer's among them.
LEMMA NeededNumber ==
    ASSUME elf \in Programs
    PROVE  PagesNeeded \in Nat /\ 0 <= PagesNeeded
<1>1. IsFiniteSet(AllPages)
  BY LoadableNumbers, PagesFinite DEF AllPages
<1>2. Cardinality(AllPages) \in Nat
  BY <1>1, FS_CardinalityType
<1> QED
  BY <1>2 DEF PagesNeeded, AllPages

-----------------------------------------------------------------------------
(* Each action keeps the count *)

\* The pages of the present segment, up to that of the next byte, are among all.
LEMMA SoFarWithin ==
    ASSUME Loading, pc \in {"copy", "zero"}
    PROVE  /\ i \in Nat /\ elf \in Programs /\ i \in Loadable
           /\ PageOf(prog_hdr.vaddr) \in Nat /\ PageOf(current_vaddr) \in Nat
           /\ PageOf(prog_hdr.vaddr) <= PageOf(current_vaddr)
           /\ PageOf(current_vaddr) <= PageOf(prog_hdr.vaddr + prog_hdr.memsz)
           /\ PageOf(prog_hdr.vaddr + prog_hdr.memsz) \in Nat
           /\ Pages(prog_hdr) = PageOf(prog_hdr.vaddr) .. PageOf(prog_hdr.vaddr + prog_hdr.memsz)
           /\ PagesSoFar \subseteq AllPages
<1> DEFINE lo == prog_hdr.vaddr
           hi == prog_hdr.vaddr + prog_hdr.memsz
<1>1. /\ lo \in Nat /\ hi \in Nat /\ current_vaddr \in Nat
      /\ lo <= current_vaddr /\ current_vaddr <= hi
      /\ i \in Loadable /\ elf \in Programs /\ PageSize \in Nat \ {0}
  BY CursorFacts
<1>2. Pages(prog_hdr) = PageOf(lo) .. PageOf(hi)
  BY DEF Pages, PageOf
<1> HIDE DEF lo, hi
<1>3. PageOf(lo) \in Nat /\ PageOf(current_vaddr) \in Nat /\ PageOf(hi) \in Nat
  BY <1>1, Division DEF PageOf
<1>4. PageOf(lo) <= PageOf(current_vaddr) /\ PageOf(current_vaddr) <= PageOf(hi)
  BY <1>1, PagesOrdered DEF PageOf
<1>5. i \in Nat
  BY DEF Loading
<1>6. PagesBefore(i) \subseteq AllPages /\ {i} \X Pages(prog_hdr) \subseteq AllPages
  BY <1>1, <1>5, PagesApart DEF prog_hdr
<1>7. PageOf(lo) .. PageOf(current_vaddr) \subseteq PageOf(lo) .. PageOf(hi)
  BY <1>3, <1>4
<1>8. PagesSoFar \subseteq AllPages
  BY <1>2, <1>6, <1>7 DEF PagesSoFar, lo
<1> QED
  BY <1>1, <1>2, <1>3, <1>4, <1>5, <1>8 DEF lo, hi

\* No page is taken at first.
LEMMA InitCounts == Init => Counted
<1> SUFFICES ASSUME Init PROVE Counted
  OBVIOUS
<1>1. elf \in Programs /\ i = 1 /\ page_idx = 0 /\ pc = "symbol" /\ denied = FALSE
  BY DEF Init
<1>2. PagesBefore(1) = {}
  <2>1. \A n \in Loadable : ~(n < 1)
    BY <1>1, LoadableNumbers
  <2> QED
    BY <2>1 DEF PagesBefore
<1>3. PagesSoFar = {}
  BY <1>1, <1>2 DEF PagesSoFar
<1>4. PagesNeeded \in Nat /\ page_idx <= PagesNeeded
  BY <1>1, NeededNumber
<1>5. RefusedOnlyIfShort
  BY <1>1, <1>4 DEF RefusedOnlyIfShort
<1> QED
  BY <1>1, <1>3, <1>5, FS_EmptySet DEF Counted

\* What depends on the file alone.
LEMMA SameFile ==
    ASSUME elf' = elf
    PROVE  /\ pd_id_vaddr' = pd_id_vaddr /\ ipc_buffer_vaddr' = ipc_buffer_vaddr
           /\ PagesNeeded' = PagesNeeded /\ Loadable' = Loadable
           /\ \A k : PagesBefore(k)' = PagesBefore(k)
  BY DEF pd_id_vaddr, ipc_buffer_vaddr, PagesNeeded, PagesBefore, Loadable

\* Steps that take no page.
LEMMA FindPdIdCounts == Loading /\ Counted /\ FindPdId => Counted'
<1> SUFFICES ASSUME Loading, Counted, FindPdId PROVE Counted'
  OBVIOUS
<1>1. /\ elf' = elf /\ i' = i /\ page_idx' = page_idx /\ pc = "symbol"
      /\ pc' = (IF pd_id_vaddr = None THEN "failed" ELSE "segment") /\ denied' = denied
  BY DEF FindPdId
<1>2. PagesSoFar' = PagesSoFar
  BY <1>1, SameFile DEF PagesSoFar
<1>3. RefusedOnlyIfShort'
  BY <1>1, SameFile DEF RefusedOnlyIfShort, Counted
<1> QED
  BY <1>1, <1>2, <1>3 DEF Counted

\* A header that is not loaded takes no page.
LEMMA SkipSegmentCounts == Loading /\ Counted /\ SkipSegment => Counted'
<1> SUFFICES ASSUME Loading, Counted, SkipSegment PROVE Counted'
  OBVIOUS
<1>1. /\ elf' = elf /\ i' = i + 1 /\ page_idx' = page_idx /\ pc = "segment" /\ pc' = pc
      /\ prog_hdr.type # "load" /\ i \in Nat /\ elf \in Programs /\ denied' = denied
  BY DEF SkipSegment, Loading
<1>2. i \notin Loadable
  BY <1>1 DEF Loadable, LoadsOf, prog_hdr
<1>3. PagesBefore(i + 1) = PagesBefore(i)
  BY <1>1, <1>2, PagesGrow
<1>4. PagesSoFar' = PagesSoFar
  BY <1>1, <1>3, SameFile DEF PagesSoFar
<1>5. RefusedOnlyIfShort'
  BY <1>1, SameFile DEF RefusedOnlyIfShort, Counted
<1> QED
  BY <1>1, <1>4, <1>5 DEF Counted

\* Between the loops nothing is taken.
LEMMA CopyEndCounts == Loading /\ Counted /\ CopyEnd => Counted'
<1> SUFFICES ASSUME Loading, Counted, CopyEnd PROVE Counted'
  OBVIOUS
<1>1. /\ elf' = elf /\ i' = i /\ page_idx' = page_idx /\ pc = "copy" /\ pc' = "zero"
      /\ current_vaddr' = current_vaddr /\ prog_hdr' = prog_hdr /\ denied' = denied
  BY DEF CopyEnd, prog_hdr
<1>2. PagesSoFar' = PagesSoFar
  BY <1>1, SameFile DEF PagesSoFar, PageOf
<1>3. RefusedOnlyIfShort'
  BY <1>1, SameFile DEF RefusedOnlyIfShort, Counted
<1> QED
  BY <1>1, <1>2, <1>3 DEF Counted

\* At the end of a segment all of its pages have been taken.
LEMMA ClearEndCounts == Loading /\ Counted /\ ClearEnd => Counted'
<1> SUFFICES ASSUME Loading, Counted, ClearEnd PROVE Counted'
  OBVIOUS
<1>1. /\ elf' = elf /\ i' = i + 1 /\ page_idx' = page_idx /\ pc = "zero" /\ pc' = "segment"
      /\ j >= prog_hdr.memsz - prog_hdr.filesz /\ denied' = denied
  BY DEF ClearEnd
<1>2. /\ current_vaddr \in Nat /\ prog_hdr.vaddr \in Nat /\ prog_hdr.filesz \in Nat
      /\ prog_hdr.memsz \in Nat /\ current_vaddr <= prog_hdr.vaddr + prog_hdr.memsz
  BY <1>1, CursorFacts
<1>3. j = current_vaddr - prog_hdr.vaddr - prog_hdr.filesz
  BY <1>1 DEF Loading, Cursor
<1>4. current_vaddr = prog_hdr.vaddr + prog_hdr.memsz
  BY <1>1, <1>2, <1>3
<1>5. /\ i \in Nat /\ elf \in Programs /\ i \in Loadable
      /\ Pages(prog_hdr) = PageOf(prog_hdr.vaddr) .. PageOf(current_vaddr)
  BY <1>1, <1>4, SoFarWithin
<1>6. PagesBefore(i + 1) = PagesBefore(i) \cup {i} \X Pages(prog_hdr)
  BY <1>5, PagesGrow DEF prog_hdr
<1>7. PagesSoFar' = PagesSoFar
  BY <1>1, <1>5, <1>6, SameFile DEF PagesSoFar
<1>8. RefusedOnlyIfShort'
  BY <1>1, SameFile DEF RefusedOnlyIfShort, Counted
<1> QED
  BY <1>1, <1>7, <1>8 DEF Counted

\* A load that fails for want of a page needs more of them than there are; one that is
\* denied the rest has taken no more than it needs.
LEMMA ShortFails ==
    ASSUME Loading, Counted, elf' = elf, Fail, pc \in {"segment", "copy", "zero"},
           \/ NoPages /\ page_idx' = page_idx
           \/ denied' = TRUE /\ page_idx' \in {page_idx, page_idx + 1},
           NEW x \in AllPages, x \notin PagesSoFar, PagesSoFar \subseteq AllPages
    PROVE  Counted'
<1>1. pc' = "failed" /\ elf \in Programs
  BY DEF Fail, Loading
<1>2. /\ page_idx = Cardinality(PagesSoFar) /\ PoolPages \in Nat
      /\ NoPages => page_idx >= PoolPages
  BY ElfSegmentsAssumption DEF Counted, NoPages
<1>3. Cardinality(PagesSoFar) + 1 <= Cardinality(AllPages) /\ Cardinality(PagesSoFar) \in Nat
      /\ Cardinality(AllPages) \in Nat
  BY <1>1, TakesOne
<1>4. (NoPages => PagesNeeded > PoolPages) /\ page_idx' <= PagesNeeded
  BY <1>2, <1>3 DEF PagesNeeded, AllPages
<1>5. PagesNeeded' = PagesNeeded
  BY SameFile
<1> QED
  BY <1>1, <1>4, <1>5 DEF Counted, RefusedOnlyIfShort

\* Steps that take a page.
LEMMA TakesCount ==
    ASSUME Loading, Counted, elf' = elf, page_idx' = page_idx + 1, denied' = denied,
           pc \in {"segment", "copy", "zero"}, pc' \in {"copy", "zero"},
           NEW x \in AllPages, x \notin PagesSoFar, PagesSoFar \subseteq AllPages,
           PagesSoFar' = PagesSoFar \cup {x}
    PROVE  Counted'
<1>1. /\ Cardinality(PagesSoFar \cup {x}) = Cardinality(PagesSoFar) + 1
      /\ Cardinality(PagesSoFar) \in Nat /\ Cardinality(AllPages) \in Nat
      /\ Cardinality(PagesSoFar) + 1 <= Cardinality(AllPages)
  BY TakesOne DEF Loading
<1>2. page_idx = Cardinality(PagesSoFar) /\ denied = FALSE
  BY DEF Counted
<1>3. Cardinality(PagesSoFar)' = page_idx'
  BY <1>1, <1>2
<1>4. page_idx' <= PagesNeeded /\ PagesNeeded' = PagesNeeded
  BY <1>1, <1>2, SameFile DEF PagesNeeded, AllPages
<1>5. RefusedOnlyIfShort'
  BY <1>4 DEF RefusedOnlyIfShort
<1> QED
  BY <1>2, <1>3, <1>5 DEF Counted

\* The first page of a segment.
LEMMA BeginSegmentCounts == Loading /\ Counted /\ BeginSegment => Counted'
<1> SUFFICES ASSUME Loading, Counted, BeginSegment PROVE Counted'
  OBVIOUS
<1> DEFINE v == prog_hdr.vaddr
           flags == prog_hdr.flags
           rest == /\ pc' = "copy" /\ j' = 0 /\ src_read' = 0
                   /\ current_vaddr' = prog_hdr.vaddr
                   /\ UNCHANGED i
           next == dst_write' = [n |-> page_idx, at |-> v % PageSize] /\ rest
           x == <<i, PageOf(v)>>
<1>1. /\ pc = "segment" /\ elf' = elf
      /\ ensure_page_is_allocated(None, v, flags, rest)
  BY DEF BeginSegment
<1>2. i \in Loadable /\ i \in Nat /\ elf \in Programs
  <2>1. i \in Nat \ {0} /\ elf \in Programs
    BY DEF Loading
  <2>2. Len(elf.segments) \in Nat /\ DOMAIN elf.segments = 1 .. Len(elf.segments)
    BY <2>1, ProgramsAssumption DEF WellLinked
  <2>3. i <= Len(elf.segments) /\ prog_hdr.type = "load"
    BY DEF BeginSegment
  <2> QED
    BY <2>1, <2>2, <2>3 DEF Loadable, LoadsOf, prog_hdr
<1>3. PageOf(v) \in Nat /\ PageOf(v) \in Pages(prog_hdr)
  <2> DEFINE hi == v + prog_hdr.memsz
  <2>1. v \in Nat /\ hi \in Nat /\ v <= hi
    BY <1>2, SegmentFacts DEF prog_hdr
  <2> HIDE DEF v, hi
  <2>2. v \div PageSize \in Nat /\ hi \div PageSize \in Nat /\ v \div PageSize <= hi \div PageSize
    BY <2>1, Division, PagesOrdered, ElfSegmentsAssumption
  <2>3. v \div PageSize \in v \div PageSize .. hi \div PageSize
    BY <2>2
  <2> QED
    BY <2>2, <2>3 DEF Pages, PageOf, v, hi
<1>4. x \in AllPages /\ x \notin PagesBefore(i) /\ PagesBefore(i) \subseteq AllPages
  BY <1>2, <1>3, PagesApart DEF prog_hdr
<1>5. PagesSoFar = PagesBefore(i)
  BY <1>1 DEF PagesSoFar
<1> HIDE DEF rest
<1>6. CASE take_page(v, flags) /\ rest /\ denied' = denied
  <2>1. page_idx' = page_idx + 1
    BY <1>6 DEF take_page
  <2>2. pc' = "copy" /\ current_vaddr' = v /\ i' = i /\ prog_hdr' = prog_hdr
    BY <1>1, <1>6 DEF rest, prog_hdr
  <2>3. PageOf(v) .. PageOf(v) = {PageOf(v)}
    BY <1>3
  <2>4. PagesSoFar' = PagesBefore(i) \cup {i} \X (PageOf(v) .. PageOf(v))
    BY <1>1, <2>2, SameFile DEF PagesSoFar, PageOf
  <2>5. {i} \X (PageOf(v) .. PageOf(v)) = {x}
    BY <2>3
  <2>6. PagesSoFar' = PagesSoFar \cup {x}
    BY <1>5, <2>4, <2>5
  <2> HIDE DEF x
  <2> QED
    BY <1>1, <1>4, <1>5, <1>6, <2>1, <2>2, <2>6, TakesCount
<1>7. CASE /\ Fail
           /\ \/ NoPages /\ page_idx' = page_idx
              \/ denied' = TRUE /\ page_idx' \in {page_idx, page_idx + 1}
  <2> HIDE DEF x
  <2> QED
    BY <1>1, <1>4, <1>5, <1>7, ShortFails
<1>8. allocate_page(v, flags, next)
  <2>1. NeedsPage(None, v)
    BY DEF NeedsPage
  <2> QED
    BY <1>1, <2>1, Zenon DEF ensure_page_is_allocated
<1>9. \/ next /\ take_page(v, flags) /\ denied' = denied
      \/ Fail /\ NoPages /\ page_idx' = page_idx
      \/ Fail /\ denied' = TRUE /\ page_idx' \in {page_idx, page_idx + 1}
  <2> HIDE DEF next, v
  <2> QED
    BY <1>8 DEF allocate_page, take_page, Denied
<1> QED
  BY <1>6, <1>7, <1>9

\* A write takes a page exactly when it reaches the end of one.
LEMMA WriteCounts ==
    ASSUME Loading, Counted, pc \in {"copy", "zero"}, NEW data, Write(data), Due(data)
    PROVE  Counted'
<1> DEFINE lo == PageOf(prog_hdr.vaddr)
           p == PageOf(current_vaddr)
           hi == PageOf(prog_hdr.vaddr + prog_hdr.memsz)
           x == <<i, p + 1>>
<1>1. /\ i \in Nat /\ elf \in Programs /\ i \in Loadable
      /\ lo \in Nat /\ p \in Nat /\ hi \in Nat /\ lo <= p /\ p <= hi
      /\ Pages(prog_hdr) = lo .. hi /\ PagesSoFar \subseteq AllPages
  BY SoFarWithin
<1>2. PagesSoFar = PagesBefore(i) \cup {i} \X (lo .. p)
  BY DEF PagesSoFar
<1>3. PageOf(current_vaddr + Written) = p + 1 => p + 1 <= hi
  <2> DEFINE E == prog_hdr.vaddr + IF pc = "copy" THEN prog_hdr.filesz ELSE prog_hdr.memsz
             top == prog_hdr.vaddr + prog_hdr.memsz
             b == current_vaddr + Written
  <2>1. /\ current_vaddr \in Nat /\ prog_hdr.vaddr \in Nat /\ prog_hdr.filesz \in Nat
        /\ prog_hdr.memsz \in Nat /\ prog_hdr.filesz <= prog_hdr.memsz
    BY CursorFacts
  <2>2. E \in Nat /\ top \in Nat /\ E <= top
    BY <2>1
  <2>3. current_vaddr < E /\ (current_vaddr = pd_id_vaddr => current_vaddr + IdBytes <= E)
    BY DEF Due
  <2> HIDE DEF E
  <2>4. Written \in Nat /\ b <= E
    BY <2>2, <2>3, WriteFits
  <2>5. b \in Nat /\ b <= top
    BY <2>1, <2>2, <2>4
  <2> HIDE DEF b, top
  <2>6. b \div PageSize <= top \div PageSize
    BY <2>2, <2>5, PagesOrdered
  <2> QED
    BY <2>6 DEF PageOf, b, top
<1>4. PageOf(current_vaddr + Written) = p + 1 => x \in AllPages /\ x \notin PagesSoFar
  <2> SUFFICES ASSUME PageOf(current_vaddr + Written) = p + 1
               PROVE  x \in AllPages /\ x \notin PagesSoFar
    OBVIOUS
  <2>1. p + 1 \in lo .. hi /\ p + 1 \notin lo .. p
    BY <1>1, <1>3
  <2>2. {i} \X (lo .. hi) \subseteq AllPages /\ <<i, p + 1>> \notin PagesBefore(i)
    BY <1>1, PagesApart DEF prog_hdr
  <2> QED
    BY <1>2, <2>1, <2>2
<1>5. ASSUME Moved
      PROVE  /\ elf' = elf /\ pc' = pc /\ i' = i /\ prog_hdr' = prog_hdr
             /\ current_vaddr' = current_vaddr + Written /\ denied' = denied
             /\ PagesSoFar' = PagesBefore(i) \cup {i} \X (lo .. PageOf(current_vaddr'))
  <2>1. /\ elf' = elf /\ pc' = pc /\ i' = i /\ current_vaddr' = current_vaddr + Written
        /\ prog_hdr' = prog_hdr /\ denied' = denied
    BY <1>5 DEF Moved, prog_hdr
  <2> QED
    BY <2>1, SameFile DEF PagesSoFar, PageOf
<1>6. CASE /\ Moved /\ page_idx' = page_idx + 1
           /\ PageOf(current_vaddr') = p + 1
  <2>1. lo .. p + 1 = (lo .. p) \cup {p + 1}
    BY <1>1
  <2>2. PagesSoFar' = PagesSoFar \cup {x}
    BY <1>2, <1>5, <1>6, <2>1
  <2>3. x \in AllPages /\ x \notin PagesSoFar
    BY <1>4, <1>5, <1>6
  <2> HIDE DEF x
  <2> QED
    BY <1>1, <1>5, <1>6, <2>2, <2>3, TakesCount
<1>7. CASE Moved /\ page_idx' = page_idx /\ PageOf(current_vaddr') = p
  <2>1. PagesSoFar' = PagesSoFar
    BY <1>2, <1>5, <1>7
  <2>2. RefusedOnlyIfShort'
    BY <1>5, <1>7, SameFile DEF RefusedOnlyIfShort, Counted
  <2> QED
    BY <1>5, <1>7, <2>1, <2>2 DEF Counted
<1>8. CASE /\ Fail /\ elf' = elf /\ PageOf(current_vaddr + Written) = p + 1
           /\ \/ NoPages /\ page_idx' = page_idx
              \/ denied' = TRUE /\ page_idx' \in {page_idx, page_idx + 1}
  <2>1. x \in AllPages /\ x \notin PagesSoFar
    BY <1>4, <1>8
  <2> HIDE DEF x
  <2> QED
    BY <1>1, <1>8, <2>1, ShortFails
<1> QED
  BY <1>6, <1>7, <1>8, WriteCases

\* The page of the IPC buffer is the last.
LEMMA SetUpIpcBufferCounts == Loading /\ Counted /\ SetUpIpcBuffer => Counted'
<1> SUFFICES ASSUME Loading, Counted, SetUpIpcBuffer PROVE Counted'
  OBVIOUS
<1> DEFINE v == ipc_buffer_vaddr
           next == pc' = "done" /\ UNCHANGED <<i, j, src_read, current_vaddr, dst_write>>
<1>1. /\ pc = "segment" /\ elf' = elf /\ i > Len(elf.segments) /\ elf \in Programs /\ i \in Nat
  BY DEF SetUpIpcBuffer, Loading
<1>2. PagesSoFar = AllPages
  BY <1>1, PagesApart DEF PagesSoFar
<1>3. /\ page_idx + 1 = PagesNeeded /\ denied = FALSE /\ page_idx \in Nat
      /\ PagesNeeded' = PagesNeeded
  <2>1. page_idx = Cardinality(AllPages) /\ denied = FALSE
    BY <1>1, <1>2 DEF Counted
  <2>2. page_idx \in Nat
    BY ElfSegmentsAssumption DEF Loading, PagesOK
  <2> QED
    BY <1>1, <2>1, <2>2, SameFile DEF PagesNeeded, AllPages
<1>4. CASE next /\ page_idx' = page_idx + 1
  BY <1>3, <1>4 DEF Counted, RefusedOnlyIfShort
<1>5. CASE ipc_buffer_vaddr = None
  <2>1. pc' = "failed" /\ page_idx' = page_idx
    BY <1>5 DEF SetUpIpcBuffer, Fail
  <2> QED
    BY <1>1, <1>3, <1>5, <2>1, SameFile DEF Counted, RefusedOnlyIfShort
<1>6. CASE Fail /\ NoPages /\ page_idx' = page_idx
  <2>1. pc' = "failed"
    BY <1>6 DEF Fail
  <2>2. PagesNeeded > PoolPages
    BY <1>3, <1>6, ElfSegmentsAssumption DEF NoPages
  <2> QED
    BY <1>3, <1>6, <2>1, <2>2 DEF Counted, RefusedOnlyIfShort
<1>7. CASE Fail /\ denied' = TRUE /\ page_idx' \in {page_idx, page_idx + 1}
  <2>1. pc' = "failed"
    BY <1>7 DEF Fail
  <2> QED
    BY <1>3, <1>7, <2>1 DEF Counted, RefusedOnlyIfShort
<1>8. CASE ipc_buffer_vaddr # None
  <2>1. allocate_page(v, ReadWrite, next)
    BY <1>8, Zenon DEF SetUpIpcBuffer
  <2>2. \/ next /\ page_idx' = page_idx + 1
        \/ Fail /\ NoPages /\ page_idx' = page_idx
        \/ Fail /\ denied' = TRUE /\ page_idx' \in {page_idx, page_idx + 1}
    <3> HIDE DEF next, v
    <3> QED
      BY <2>1 DEF allocate_page, take_page, Denied
  <2> QED
    BY <1>4, <1>6, <1>7, <2>2
<1> QED
  BY <1>5, <1>8

\* The count rests while nothing changes.
LEMMA StutterCounts == Counted /\ UNCHANGED vars => Counted'
<1> SUFFICES ASSUME Counted, UNCHANGED vars PROVE Counted'
  OBVIOUS
<1>1. /\ elf' = elf /\ pc' = pc /\ i' = i /\ page_idx' = page_idx /\ denied' = denied
      /\ current_vaddr' = current_vaddr /\ prog_hdr' = prog_hdr
  BY DEF vars, prog_hdr
<1>2. PagesSoFar' = PagesSoFar
  BY <1>1, SameFile DEF PagesSoFar, PageOf
<1>3. RefusedOnlyIfShort'
  BY <1>1, SameFile DEF Counted, RefusedOnlyIfShort
<1> QED
  BY <1>1, <1>2, <1>3 DEF Counted

\* So does every other step.
LEMMA StepCounts == Loading /\ Counted /\ [Next]_vars => Counted'
<1> SUFFICES ASSUME Loading, Counted, [Next]_vars PROVE Counted'
  OBVIOUS
<1>1. CASE Copy
  BY <1>1, CopyDue, WriteCounts
<1>2. CASE Clear
  BY <1>2, ClearDue, WriteCounts
<1> QED
  BY <1>1, <1>2, FindPdIdCounts, SkipSegmentCounts, BeginSegmentCounts, CopyEndCounts,
     ClearEndCounts, SetUpIpcBufferCounts, StutterCounts DEF Next

\* Whatever the sizes: unless a paging structure, a mapping, a copy or the IPC buffer is
\* denied, which is beside the file, the load is refused only when one of the two symbols is
\* missing or the pool has fewer pages than the program takes; it takes exactly those, and
\* no more when it is refused on the way, for whatever reason (sel4cp.h:541-577, 587-641,
\* 763-796, 834-848).
THEOREM NeverRefusedWithRoom == FileSpec => []RefusedOnlyIfShort
<1>1. FileInit => Loading /\ Counted
  BY InitLoads, InitCounts DEF FileInit
<1>2. Loading /\ Counted /\ [FileNext]_<<vars, rights_vars>> => (Loading /\ Counted)'
  <2>1. [FileNext]_<<vars, rights_vars>> => [Next]_vars
    BY Zenon DEF FileNext, ReadControl, LoadElf, SetUpAccessRights
  <2> QED
    BY <2>1, StepLoads, StepCounts
<1>3. Counted => RefusedOnlyIfShort
  BY DEF Counted
<1> QED
  BY <1>1, <1>2, <1>3, PTL DEF FileSpec

-----------------------------------------------------------------------------
(* The access right table: sequences *)

\* What is in a sequence.
LEMMA ElementOf ==
    ASSUME NEW S, NEW s \in Seq(S), NEW k \in 1 .. Len(s)
    PROVE  s[k] \in S
  OBVIOUS

-----------------------------------------------------------------------------
(* Numbers in bytes *)

\* The next digits of a number that fits.
LEMMA HigherFits ==
    ASSUME NEW P \in Nat \ {0}, NEW M \in Nat, NEW n \in 0 .. P * M - 1
    PROVE  n \div P \in 0 .. M - 1
<1> DEFINE q == n \div P
           r == n % P
<1>1. n \in Nat /\ q \in Nat /\ r \in Nat /\ n = P * q + r /\ n < P * M
  BY Division
<1> HIDE DEF q, r
<1>2. ~(q >= M)
  <2> SUFFICES ASSUME q >= M PROVE FALSE
    OBVIOUS
  <2>1. P * q >= P * M
    BY <1>1
  <2> QED
    BY <1>1, <2>1
<1> QED
  BY <1>1, <1>2 DEF q

\* The digits of a number, and what is left of it behind each of them.
LEMMA Digits ==
    ASSUME NEW n \in Rights!WordValue
    PROVE  \E m \in [1 .. 7 -> Nat] :
              LET e == Rights!Eight(n) IN
              /\ n = ByteBase * m[1] + e[1]
              /\ m[1] = ByteBase * m[2] + e[2]
              /\ m[2] = ByteBase * m[3] + e[3]
              /\ m[3] = ByteBase * m[4] + e[4]
              /\ m[4] = ByteBase * m[5] + e[5]
              /\ m[5] = ByteBase * m[6] + e[6]
              /\ m[6] = ByteBase * m[7] + e[7]
              /\ m[7] = e[8]
              /\ n \in Rights!OffsetValue => m[7] = 0
<1> DEFINE B == ByteBase
           Higher(m) == m \div B
           n1 == Higher(n)
           n2 == Higher(n1)
           n3 == Higher(n2)
           n4 == Higher(n3)
           n5 == Higher(n4)
           n6 == Higher(n5)
           n7 == Higher(n6)
           e == Rights!Eight(n)
<1>1. /\ e[1] = n % B /\ e[2] = n1 % B /\ e[3] = n2 % B /\ e[4] = n3 % B
      /\ e[5] = n4 % B /\ e[6] = n5 % B /\ e[7] = n6 % B /\ e[8] = n7 % B
  BY DEF Rights!Eight
<1>2. B \in Nat \ {0}
  BY TablesAssumption DEF Rights!AccessRightsConstants
<1> DEFINE P2 == B * B
           P3 == B * P2
           P4 == B * P3
           P5 == B * P4
           P6 == B * P5
           P7 == B * P6
           P8 == B * P7
<1>3. P2 \in Nat /\ P3 \in Nat /\ P4 \in Nat /\ P5 \in Nat /\ P6 \in Nat /\ P7 \in Nat
  BY <1>2
<1>4. Rights!WordValue = 0 .. B * P7 - 1 /\ Rights!OffsetValue = 0 .. B * P6 - 1
  BY <1>2 DEF Rights!WordValue, Rights!OffsetValue, Rights!Power4
<1> HIDE DEF B, e
<1>5. n1 \in 0 .. P7 - 1 /\ (n \in Rights!OffsetValue => n1 \in 0 .. P6 - 1)
  <2> HIDE DEF P7, P6
  <2> QED
    BY <1>2, <1>3, <1>4, HigherFits
<1>6. n2 \in 0 .. P6 - 1 /\ (n \in Rights!OffsetValue => n2 \in 0 .. P5 - 1)
  <2> HIDE DEF n1, P6, P5
  <2> QED
    BY <1>2, <1>3, <1>5, HigherFits DEF P7, P6
<1>7. n3 \in 0 .. P5 - 1 /\ (n \in Rights!OffsetValue => n3 \in 0 .. P4 - 1)
  <2> HIDE DEF n2, P5, P4
  <2> QED
    BY <1>2, <1>3, <1>6, HigherFits DEF P6, P5
<1>8. n4 \in 0 .. P4 - 1 /\ (n \in Rights!OffsetValue => n4 \in 0 .. P3 - 1)
  <2> HIDE DEF n3, P4, P3
  <2> QED
    BY <1>2, <1>3, <1>7, HigherFits DEF P5, P4
<1>9. n5 \in 0 .. P3 - 1 /\ (n \in Rights!OffsetValue => n5 \in 0 .. P2 - 1)
  <2> HIDE DEF n4, P3, P2
  <2> QED
    BY <1>2, <1>3, <1>8, HigherFits DEF P4, P3
<1>10. n6 \in 0 .. P2 - 1 /\ (n \in Rights!OffsetValue => n6 \in 0 .. B - 1)
  <2> HIDE DEF n5, P2
  <2> QED
    BY <1>2, <1>3, <1>9, HigherFits DEF P3, P2
<1>11. n7 \in 0 .. B - 1 /\ (n \in Rights!OffsetValue => n7 \in 0 .. 1 - 1)
  <2> HIDE DEF n6
  <2>1. B = B * 1
    BY <1>2
  <2> QED
    BY <1>2, <1>3, <1>10, <2>1, HigherFits DEF P2
<1>12. n \in Nat /\ n1 \in Nat /\ n2 \in Nat /\ n3 \in Nat /\ n4 \in Nat /\ n5 \in Nat
       /\ n6 \in Nat /\ n7 \in Nat /\ n7 < B /\ (n \in Rights!OffsetValue => n7 = 0)
  <2> HIDE DEF n1, n2, n3, n4, n5, n6, n7, P2, P3, P4, P5, P6, P7
  <2> QED
    BY <1>2, <1>3, <1>4, <1>5, <1>6, <1>7, <1>8, <1>9, <1>10, <1>11
<1>13. \A a \in Nat : a = B * Higher(a) + (a % B)
  BY <1>2, Division
<1>14. n7 % B = n7
  <2> HIDE DEF n7
  <2> QED
    BY <1>2, <1>12, DivisionUnique
<1> DEFINE m == [k \in 1 .. 7 |-> <<n1, n2, n3, n4, n5, n6, n7>>[k]]
<1>15. m \in [1 .. 7 -> Nat] /\ m[1] = n1 /\ m[2] = n2 /\ m[3] = n3 /\ m[4] = n4 /\ m[5] = n5
       /\ m[6] = n6 /\ m[7] = n7
  <2> HIDE DEF n1, n2, n3, n4, n5, n6, n7
  <2> QED
    BY <1>12
<1> HIDE DEF m
<1>16. /\ n = B * n1 + e[1] /\ n1 = B * n2 + e[2] /\ n2 = B * n3 + e[3] /\ n3 = B * n4 + e[4]
       /\ n4 = B * n5 + e[5] /\ n5 = B * n6 + e[6] /\ n6 = B * n7 + e[7] /\ n7 = e[8]
  BY <1>1, <1>12, <1>13, <1>14, Zenon
<1> HIDE DEF n1, n2, n3, n4, n5, n6, n7
<1> QED
  BY <1>12, <1>15, <1>16 DEF B, e

\* The digits of a number are bytes, and there are eight.
LEMMA EightType ==
    ASSUME NEW n \in Rights!WordValue
    PROVE  Rights!Eight(n) \in Seq(Rights!ByteValue) /\ Len(Rights!Eight(n)) = 8
<1> DEFINE B == ByteBase
<1>1. B \in Nat \ {0}
  BY TablesAssumption DEF Rights!AccessRightsConstants
<1>2. PICK d : Rights!Eight(n) = [k \in 1 .. 8 |-> d[k] % B]
            /\ \A k \in 1 .. 8 : d[k] \in Nat
  <2> DEFINE Higher(m) == m \div B
             n1 == Higher(n)
             n2 == Higher(n1)
             n3 == Higher(n2)
             n4 == Higher(n3)
             n5 == Higher(n4)
             n6 == Higher(n5)
             n7 == Higher(n6)
  <2>1. \A a \in Nat : Higher(a) \in Nat
    BY <1>1, Division
  <2>2. n \in Nat
    BY <1>1 DEF Rights!WordValue, Rights!Power4
  <2>3. n1 \in Nat /\ n2 \in Nat /\ n3 \in Nat /\ n4 \in Nat /\ n5 \in Nat /\ n6 \in Nat /\ n7 \in Nat
    <3> HIDE DEF Higher
    <3> QED
      BY <2>1, <2>2
  <2> DEFINE d == <<n, n1, n2, n3, n4, n5, n6, n7>>
  <2>4. Rights!Eight(n) = [k \in 1 .. 8 |-> d[k] % B]
    BY DEF Rights!Eight
  <2>5. \A k \in 1 .. 8 : d[k] \in Nat
    <3> HIDE DEF n1, n2, n3, n4, n5, n6, n7
    <3> QED
      BY <2>2, <2>3
  <2> QED
    BY <2>4, <2>5
<1>3. \A k \in 1 .. 8 : d[k] % B \in Rights!ByteValue
  <2>1. \A a \in Nat : a % B \in Rights!ByteValue
    BY <1>1, Division DEF Rights!ByteValue
  <2> QED
    BY <1>2, <2>1
<1> QED
  BY <1>2, <1>3

\* A load of eight bytes undoes what the patcher does.
LEMMA WordOfEight ==
    ASSUME NEW n \in Rights!WordValue, NEW p,
           /\ Rights!Byte(p + 0) = Rights!Eight(n)[1]
           /\ Rights!Byte(p + 1) = Rights!Eight(n)[2]
           /\ Rights!Byte(p + 2) = Rights!Eight(n)[3]
           /\ Rights!Byte(p + 3) = Rights!Eight(n)[4]
           /\ Rights!Byte(p + 4) = Rights!Eight(n)[5]
           /\ Rights!Byte(p + 5) = Rights!Eight(n)[6]
           /\ Rights!Byte(p + 6) = Rights!Eight(n)[7]
           /\ Rights!Byte(p + 7) = Rights!Eight(n)[8]
    PROVE  Rights!Word(p) = n
<1> DEFINE B == ByteBase
           e == Rights!Eight(n)
           From(k, higher) == Rights!Byte(p + k) + B * higher
<1>1. PICK m \in [1 .. 7 -> Nat] :
              /\ n = B * m[1] + e[1]
              /\ m[1] = B * m[2] + e[2]
              /\ m[2] = B * m[3] + e[3]
              /\ m[3] = B * m[4] + e[4]
              /\ m[4] = B * m[5] + e[5]
              /\ m[5] = B * m[6] + e[6]
              /\ m[6] = B * m[7] + e[7]
              /\ m[7] = e[8]
  BY Digits, Zenon
<1>2. B \in Nat /\ \A k \in 1 .. 8 : e[k] \in Nat
  <2>1. e \in Seq(Rights!ByteValue) /\ Len(e) = 8
    BY EightType
  <2>2. B \in Nat /\ Rights!ByteValue \subseteq Nat
    BY TablesAssumption DEF Rights!AccessRightsConstants, Rights!ByteValue
  <2> HIDE DEF e
  <2>3. ASSUME NEW k \in 1 .. 8 PROVE e[k] \in Rights!ByteValue
    BY <2>1, ElementOf
  <2> QED
    BY <2>2, <2>3
<1> HIDE DEF e
<1>3. \A a \in Nat, b \in Nat : b + B * a = B * a + b
  BY <1>2
<1>4. From(7, 0) = m[7]
  BY <1>1, <1>2 DEF e
<1>5. From(6, m[7]) = m[6] /\ From(5, m[6]) = m[5] /\ From(4, m[5]) = m[4] /\ From(3, m[4]) = m[3]
      /\ From(2, m[3]) = m[2] /\ From(1, m[2]) = m[1] /\ From(0, m[1]) = n
  BY <1>1, <1>2, <1>3 DEF e
<1>6. Rights!Word(p) = From(0, From(1, From(2, From(3, From(4, From(5, From(6, From(7, 0))))))))
  BY DEF Rights!Word
<1> HIDE DEF From
<1> QED
  BY <1>4, <1>5, <1>6
-----------------------------------------------------------------------------
(* Bytes in the file *)

\* A sequence of bytes is what the file has from p on.
Holds(p, s) == \A k \in 1 .. Len(s) : Rights!Byte(p + k - 1) = s[k]

Bytes == Seq(Rights!ByteValue)

\* A sequence of two parts.
LEMMA Joins ==
    ASSUME NEW S, NEW s \in Seq(S), NEW r \in Seq(S)
    PROVE  /\ s \o r \in Seq(S) /\ Len(s \o r) = Len(s) + Len(r)
           /\ Len(s) \in Nat /\ Len(r) \in Nat
           /\ \A k \in 1 .. Len(s) : (s \o r)[k] = s[k]
           /\ \A k \in 1 .. Len(r) : (s \o r)[Len(s) + k] = r[k]
  OBVIOUS

\* What holds of two parts, one behind the other, holds of each of them.
LEMMA HoldsParts ==
    ASSUME NEW s \in Bytes, NEW r \in Bytes, NEW p \in Nat, Holds(p, s \o r)
    PROVE  Holds(p, s) /\ Holds(p + Len(s), r) /\ p + Len(s) \in Nat
<1> DEFINE b(q) == Rights!Byte(q)
<1> HIDE DEF b
<1>1. \A k \in 1 .. Len(s \o r) : b(p + k - 1) = (s \o r)[k]
  BY DEF Holds, b
<1>2. /\ Len(s \o r) = Len(s) + Len(r)
      /\ Len(s) \in Nat /\ Len(r) \in Nat
      /\ \A k \in 1 .. Len(s) : (s \o r)[k] = s[k]
      /\ \A k \in 1 .. Len(r) : (s \o r)[Len(s) + k] = r[k]
  BY Joins DEF Bytes
<1>3. \A k \in 1 .. Len(s) : b(p + k - 1) = s[k]
  BY <1>1, <1>2
<1>4. ASSUME NEW k \in 1 .. Len(r) PROVE b(p + Len(s) + k - 1) = r[k]
  <2> DEFINE l == Len(s) + k
  <2>1. l \in 1 .. Len(s \o r) /\ p + Len(s) + k - 1 = p + l - 1
    BY <1>2
  <2>2. b(p + l - 1) = (s \o r)[l]
    BY <1>1, <2>1
  <2> QED
    BY <1>2, <2>1, <2>2
<1>5. p + Len(s) \in Nat
  BY <1>2
<1> QED
  BY <1>3, <1>4, <1>5, Zenon DEF Holds, b

\* Eight bytes, as a load of eight bytes finds them.
LEMMA HoldsWord ==
    ASSUME NEW n \in Rights!WordValue, NEW p \in Nat, Holds(p, Rights!Eight(n))
    PROVE  Rights!Word(p) = n
<1> DEFINE e == Rights!Eight(n)
<1>1. Len(e) = 8
  BY EightType
<1> HIDE DEF e
<1>2. \A k \in 1 .. 8 : Rights!Byte(p + k - 1) = e[k]
  BY <1>1 DEF Holds, e
<1>3. /\ p + 1 - 1 = p + 0 /\ p + 2 - 1 = p + 1 /\ p + 3 - 1 = p + 2 /\ p + 4 - 1 = p + 3
      /\ p + 5 - 1 = p + 4 /\ p + 6 - 1 = p + 5 /\ p + 7 - 1 = p + 6 /\ p + 8 - 1 = p + 7
  OBVIOUS
<1>4. 1 \in 1 .. 8 /\ 2 \in 1 .. 8 /\ 3 \in 1 .. 8 /\ 4 \in 1 .. 8 /\ 5 \in 1 .. 8
      /\ 6 \in 1 .. 8 /\ 7 \in 1 .. 8 /\ 8 \in 1 .. 8
  OBVIOUS
<1>5. /\ Rights!Byte(p + 0) = e[1] /\ Rights!Byte(p + 1) = e[2] /\ Rights!Byte(p + 2) = e[3]
      /\ Rights!Byte(p + 3) = e[4] /\ Rights!Byte(p + 4) = e[5] /\ Rights!Byte(p + 5) = e[6]
      /\ Rights!Byte(p + 6) = e[7] /\ Rights!Byte(p + 7) = e[8]
  BY <1>2, <1>3, <1>4, Zenon
<1> QED
  BY <1>5, WordOfEight DEF e

-----------------------------------------------------------------------------
(* An entry of the table *)

\* The kinds of access rights, with their fields.
LEMMA Kinds ==
    ASSUME NEW a \in Rights!AccessRight
    PROVE  \/ /\ a.type = "scheduling" /\ a.priority \in Rights!ByteValue /\ a.mcp \in Rights!ByteValue
              /\ a.budget \in Rights!WordValue /\ a.period \in Rights!WordValue
              /\ a = [type |-> "scheduling", priority |-> a.priority, mcp |-> a.mcp,
                      budget |-> a.budget, period |-> a.period]
           \/ /\ a.type = "channel" /\ a.target_pd \in Rights!ByteValue
              /\ a.target_id \in Rights!ByteValue /\ a.own_id \in Rights!ByteValue
              /\ a = [type |-> "channel", target_pd |-> a.target_pd,
                      target_id |-> a.target_id, own_id |-> a.own_id]
           \/ /\ a.type = "memory_region" /\ a.id \in Rights!WordValue
              /\ a.vaddr \in Rights!WordValue /\ a.size \in Rights!WordValue
              /\ a.perms \in SUBSET {"r", "w", "x"} /\ a.cached \in BOOLEAN
           \/ /\ a.type = "irq" /\ a.parent_id \in Rights!ByteValue
              /\ a.child_id \in Rights!ByteValue
              /\ a = [type |-> "irq", parent_id |-> a.parent_id, child_id |-> a.child_id]
           \/ /\ a.type = "protection_domain_control"
              /\ a = [type |-> "protection_domain_control"]
           \/ a.type = "unknown"
  BY DEF Rights!AccessRight

\* The numbers that stand for the kinds are bytes.
LEMMA SmallBytes ==
    0 \in Rights!ByteValue /\ 1 \in Rights!ByteValue /\ 2 \in Rights!ByteValue
    /\ 3 \in Rights!ByteValue /\ 4 \in Rights!ByteValue /\ 5 \in Rights!ByteValue
    /\ 6 \in Rights!ByteValue /\ 7 \in Rights!ByteValue
  BY TablesAssumption DEF Rights!AccessRightsConstants, Rights!ByteValue

\* The permissions fit a byte, and their bits tell them.
LEMMA FlagsDecode ==
    ASSUME NEW perms \in SUBSET {"r", "w", "x"}
    PROVE  /\ Rights!Flags(perms) \in 0 .. 7
           /\ Rights!Bit(Rights!Flags(perms), Rights!P_FLAGS_WRITABLE) <=> "w" \in perms
           /\ Rights!Bit(Rights!Flags(perms), Rights!P_FLAGS_EXECUTABLE) <=> "x" \in perms
<1> DEFINE R == IF "r" \in perms THEN 4 ELSE 0
           W == IF "w" \in perms THEN 2 ELSE 0
           X == IF "x" \in perms THEN 1 ELSE 0
           n == R + W + X
<1>1. Rights!Flags(perms) = n
  BY DEF Rights!Flags, Rights!P_FLAGS_READABLE, Rights!P_FLAGS_WRITABLE, Rights!P_FLAGS_EXECUTABLE
<1>2. \A f \in 0 .. 7 : (f \div 1) % 2 = f % 2
  OBVIOUS
<1>3. n \in 0 .. 7
  OBVIOUS
<1>4. (n \div 2) % 2 = 1 <=> "w" \in perms
  OBVIOUS
<1>5. (n \div 1) % 2 = 1 <=> "x" \in perms
  OBVIOUS
<1> QED
  BY <1>1, <1>3, <1>4, <1>5 DEF Rights!Bit, Rights!P_FLAGS_WRITABLE, Rights!P_FLAGS_EXECUTABLE
\* Bytes behind bytes.
LEMMA AndBytes ==
    ASSUME NEW x \in Bytes, NEW y \in Bytes
    PROVE  x \o y \in Bytes /\ Len(x \o y) = Len(x) + Len(y) /\ Len(x) \in Nat
  BY DEF Bytes

\* A number behind other bytes.
LEMMA AndWord ==
    ASSUME NEW x \in Bytes, NEW n \in Rights!WordValue
    PROVE  x \o Rights!Eight(n) \in Bytes /\ Len(x \o Rights!Eight(n)) = Len(x) + 8
<1> DEFINE e == Rights!Eight(n)
<1>1. e \in Bytes /\ Len(e) = 8
  BY EightType DEF Bytes
<1> HIDE DEF e
<1>2. x \o e \in Bytes /\ Len(x \o e) = Len(x) + Len(e)
  BY <1>1, AndBytes, Zenon
<1> QED
  BY <1>1, <1>2, Zenon DEF e

\* The bytes of an access right.
LEMMA SerializedType ==
    ASSUME NEW a \in Rights!AccessRight
    PROVE  /\ Rights!Serialized(a) \in Bytes
           /\ a.type = "scheduling" => Len(Rights!Serialized(a)) = 19
           /\ a.type = "channel" => Len(Rights!Serialized(a)) = 4
           /\ a.type = "memory_region" => Len(Rights!Serialized(a)) = 27
           /\ a.type = "irq" => Len(Rights!Serialized(a)) = 3
           /\ a.type = "protection_domain_control" => Len(Rights!Serialized(a)) = 1
           /\ a.type = "unknown" => Len(Rights!Serialized(a)) = 1
<1> DEFINE E(n) == Rights!Eight(n)
           s == Rights!Serialized(a)
<1>1. \A x \in Bytes, n \in Rights!WordValue :
        x \o E(n) \in Bytes /\ Len(x \o E(n)) = Len(x) + 8
  BY AndWord
<1> HIDE DEF E
<1>3. CASE a.type = "scheduling"
  <2> DEFINE x == <<0, a.priority, a.mcp>>
             y == x \o E(a.budget)
  <2>1. s = y \o E(a.period)
    BY <1>3 DEF Rights!Serialized, Rights!SCHEDULING_ID, E
  <2>2. a.priority \in Rights!ByteValue /\ a.mcp \in Rights!ByteValue
        /\ a.budget \in Rights!WordValue /\ a.period \in Rights!WordValue
    BY <1>3, Kinds
  <2>3. x \in Bytes /\ Len(x) = 3
    BY <2>2, SmallBytes DEF Bytes
  <2> HIDE DEF x
  <2>4. y \in Bytes /\ Len(y) = 11
    <3>1. y \in Bytes /\ Len(y) = Len(x) + 8
      BY <1>1, <2>2, <2>3, Zenon
    <3> HIDE DEF y
    <3> QED
      BY <2>3, <3>1
  <2> HIDE DEF y, s
  <2>5. s \in Bytes /\ Len(s) = 19
    <3>1. s \in Bytes /\ Len(s) = Len(y) + 8
      BY <1>1, <2>1, <2>2, <2>4, Zenon
    <3> HIDE DEF s
    <3> QED
      BY <2>4, <3>1
  <2> QED
    BY <1>3, <2>5 DEF s
<1>4. CASE a.type = "channel"
  <2> DEFINE x == <<1, a.target_pd, a.target_id, a.own_id>>
  <2>1. s = x
    BY <1>4 DEF Rights!Serialized, Rights!CHANNEL_ID
  <2>2. a.target_pd \in Rights!ByteValue /\ a.target_id \in Rights!ByteValue
        /\ a.own_id \in Rights!ByteValue
    BY <1>4, Kinds
  <2>3. x \in Bytes /\ Len(x) = 4
    BY <2>2, SmallBytes DEF Bytes
  <2> HIDE DEF s, x
  <2> QED
    BY <1>4, <2>1, <2>3 DEF s
<1>5. CASE a.type = "memory_region"
  <2> DEFINE f == Rights!Flags(a.perms)
             c == IF a.cached THEN 1 ELSE 0
             x == <<2>>
             z == <<f, c>>
  <2>1. s = x \o E(a.id) \o E(a.vaddr) \o E(a.size) \o z
    BY <1>5 DEF Rights!Serialized, Rights!MEMORY_REGION_ID, E
  <2>2. a.id \in Rights!WordValue /\ a.vaddr \in Rights!WordValue /\ a.size \in Rights!WordValue
        /\ a.perms \in SUBSET {"r", "w", "x"}
    BY <1>5, Kinds
  <2>3. f \in Rights!ByteValue /\ c \in Rights!ByteValue
    BY <2>2, FlagsDecode, SmallBytes, TablesAssumption
       DEF Rights!AccessRightsConstants, Rights!ByteValue
  <2>4. x \in Bytes /\ Len(x) = 1 /\ z \in Bytes /\ Len(z) = 2
    BY <2>3, SmallBytes DEF Bytes
  <2> HIDE DEF x, z, s, f, c
  <2> DEFINE s1 == x \o E(a.id)
             s2 == s1 \o E(a.vaddr)
             s3 == s2 \o E(a.size)
  <2>5. s1 \in Bytes /\ Len(s1) = 9
    <3>1. s1 \in Bytes /\ Len(s1) = Len(x) + 8
      BY <1>1, <2>2, <2>4, Zenon
    <3> HIDE DEF s1
    <3> QED
      BY <2>4, <3>1
  <2> HIDE DEF s1
  <2>6. s2 \in Bytes /\ Len(s2) = 17
    <3>1. s2 \in Bytes /\ Len(s2) = Len(s1) + 8
      BY <1>1, <2>2, <2>5, Zenon
    <3> HIDE DEF s2
    <3> QED
      BY <2>5, <3>1
  <2> HIDE DEF s2
  <2>7. s3 \in Bytes /\ Len(s3) = 25
    <3>1. s3 \in Bytes /\ Len(s3) = Len(s2) + 8
      BY <1>1, <2>2, <2>6, Zenon
    <3> HIDE DEF s3
    <3> QED
      BY <2>6, <3>1
  <2>8. s = s3 \o z
    BY <2>1 DEF s1, s2, s3
  <2> HIDE DEF s3
  <2>9. s \in Bytes /\ Len(s) = 27
    <3>1. s \in Bytes /\ Len(s) = Len(s3) + Len(z)
      BY <2>4, <2>7, <2>8, AndBytes, Zenon
    <3> QED
      BY <2>4, <2>7, <3>1
  <2> QED
    BY <1>5, <2>9 DEF s
<1>6. CASE a.type = "irq"
  <2> DEFINE x == <<3, a.parent_id, a.child_id>>
  <2>1. s = x
    BY <1>6 DEF Rights!Serialized, Rights!IRQ_ID
  <2>2. a.parent_id \in Rights!ByteValue /\ a.child_id \in Rights!ByteValue
    BY <1>6, Kinds
  <2>3. x \in Bytes /\ Len(x) = 3
    BY <2>2, SmallBytes DEF Bytes
  <2> HIDE DEF s, x
  <2> QED
    BY <1>6, <2>1, <2>3 DEF s
<1>7. CASE a.type = "protection_domain_control" \/ a.type = "unknown"
  <2> DEFINE n == IF a.type = "unknown" THEN 5 ELSE 4
             x == <<n>>
  <2>1. s = x
    BY <1>7 DEF Rights!Serialized, Rights!PROTECTION_DOMAIN_CONTROL_ID
  <2>2. x \in Bytes /\ Len(x) = 1
    BY SmallBytes DEF Bytes
  <2> HIDE DEF s, x
  <2> QED
    BY <1>7, <2>1, <2>2 DEF s
<1> QED
  BY <1>3, <1>4, <1>5, <1>6, <1>7, Kinds
\* A number behind other bytes is loaded from its place.
LEMMA HoldsNumber ==
    ASSUME NEW x \in Bytes, NEW n \in Rights!WordValue, NEW p \in Nat,
           Holds(p, x \o Rights!Eight(n))
    PROVE  Holds(p, x) /\ Rights!Word(p + Len(x)) = n
<1>1. Rights!Eight(n) \in Bytes
  BY EightType DEF Bytes
<1>2. Holds(p, x) /\ Holds(p + Len(x), Rights!Eight(n)) /\ p + Len(x) \in Nat
  BY <1>1, HoldsParts, Zenon
<1> QED
  BY <1>2, HoldsWord, Zenon

\* The first bytes of a sequence.
LEMMA HoldsBytes ==
    ASSUME NEW x, NEW p \in Nat, Holds(p, x), Len(x) \in Nat
    PROVE  /\ Len(x) >= 1 => Rights!Byte(p) = x[1]
           /\ Len(x) >= 2 => Rights!Byte(p + 1) = x[2]
           /\ Len(x) >= 3 => Rights!Byte(p + 2) = x[3]
           /\ Len(x) >= 4 => Rights!Byte(p + 3) = x[4]
<1> DEFINE b(q) == Rights!Byte(q)
<1> HIDE DEF b
<1>1. \A k \in 1 .. Len(x) : b(p + k - 1) = x[k]
  BY DEF Holds, b
<1>2. p + 1 - 1 = p /\ p + 2 - 1 = p + 1 /\ p + 3 - 1 = p + 2 /\ p + 4 - 1 = p + 3
  OBVIOUS
<1>3. /\ Len(x) >= 1 => 1 \in 1 .. Len(x)
      /\ Len(x) >= 2 => 2 \in 1 .. Len(x)
      /\ Len(x) >= 3 => 3 \in 1 .. Len(x)
      /\ Len(x) >= 4 => 4 \in 1 .. Len(x)
  OBVIOUS
<1>4. /\ Len(x) >= 1 => b(p + 1 - 1) = x[1]
      /\ Len(x) >= 2 => b(p + 2 - 1) = x[2]
      /\ Len(x) >= 3 => b(p + 3 - 1) = x[3]
      /\ Len(x) >= 4 => b(p + 4 - 1) = x[4]
  BY <1>1, <1>3, Zenon
<1> QED
  BY <1>2, <1>4, Zenon DEF b

\* What both readers find at p, where an access right is stored: the number of
\* its kind, how much follows, and what it asks for.
FoundAt(p, a) ==
    LET id == Rights!Byte(p)
        follow == Len(Rights!Serialized(a)) - 1
    IN  /\ Rights!Known(a) =>
              /\ id \in 0 .. 4
              /\ Rights!Decoded(id, p + 1) = [entry |-> Rights!Asked(a), bytes |-> follow]
              /\ a.type = "protection_domain_control" <=> id = 4
              /\ id # 4 => Rights!Skip(id) = follow
        /\ ~ Rights!Known(a) => id = 5

\* Each kind in turn.
LEMMA FindsScheduling ==
    ASSUME NEW a \in Rights!AccessRight, NEW p \in Nat, Holds(p, Rights!Serialized(a)),
           a.type = "scheduling"
    PROVE  FoundAt(p, a)
<1> DEFINE E(n) == Rights!Eight(n)
           s == Rights!Serialized(a)
           x == <<0, a.priority, a.mcp>>
           y == x \o E(a.budget)
           q == p + 1
<1>1. s = y \o E(a.period)
  BY DEF Rights!Serialized, Rights!SCHEDULING_ID
<1>2. a.priority \in Rights!ByteValue /\ a.mcp \in Rights!ByteValue
      /\ a.budget \in Rights!WordValue /\ a.period \in Rights!WordValue
      /\ a = [type |-> "scheduling", priority |-> a.priority, mcp |-> a.mcp,
              budget |-> a.budget, period |-> a.period]
  BY Kinds
<1>3. x \in Bytes /\ Len(x) = 3 /\ x[1] = 0 /\ x[2] = a.priority /\ x[3] = a.mcp
  BY <1>2, SmallBytes DEF Bytes
<1> HIDE DEF x, s
<1>4. y \in Bytes /\ Len(y) = Len(x) + 8
  BY <1>2, <1>3, AndWord, Zenon
<1> HIDE DEF y
<1>5. Holds(p, y) /\ Rights!Word(p + Len(y)) = a.period
  <2>1. Holds(p, y \o Rights!Eight(a.period))
    BY <1>1 DEF s
  <2> QED
    BY <1>2, <1>4, <2>1, HoldsNumber, ZenonT(60)
<1>6. Holds(p, x) /\ Rights!Word(p + Len(x)) = a.budget
  <2>1. Holds(p, x \o Rights!Eight(a.budget))
    BY <1>5 DEF y
  <2>2. x \in Bytes
    BY <1>3
  <2> QED
    BY <1>2, <2>1, <2>2, HoldsNumber, ZenonT(60)
<1>7. Rights!Byte(p) = 0 /\ Rights!Byte(q) = a.priority /\ Rights!Byte(p + 2) = a.mcp
  <2>1. Len(x) \in Nat /\ Len(x) >= 1 /\ Len(x) >= 2 /\ Len(x) >= 3
    BY <1>3
  <2> QED
    BY <1>3, <1>6, <2>1, HoldsBytes, Zenon
<1>8. p + Len(x) = q + 2 /\ p + Len(y) = q + 10 /\ p + 2 = q + 1
  BY <1>3, <1>4
<1>9. Rights!Byte(q) = a.priority /\ Rights!Byte(q + 1) = a.mcp
      /\ Rights!Word(q + 2) = a.budget /\ Rights!Word(q + 10) = a.period
  BY <1>5, <1>6, <1>7, <1>8, Zenon
<1> HIDE DEF q
<1>10. Rights!Decoded(0, q) = [entry |-> a, bytes |-> 18]
  <2>1. Rights!Decoded(0, q) = Rights!Scheduling(q)
    BY DEF Rights!Decoded, Rights!SCHEDULING_ID, Rights!CHANNEL_ID, Rights!MEMORY_REGION_ID,
           Rights!IRQ_ID, Rights!PROTECTION_DOMAIN_CONTROL_ID
  <2>2. Rights!Scheduling(q) =
          [entry |-> [type |-> "scheduling", priority |-> a.priority, mcp |-> a.mcp,
                      budget |-> a.budget, period |-> a.period], bytes |-> 18]
    BY <1>9, Zenon DEF Rights!Scheduling
  <2> QED
    BY <1>2, <2>1, <2>2, Zenon
<1>11. Rights!Known(a) /\ Rights!Asked(a) = a /\ Rights!Skip(0) = 18
  BY DEF Rights!Known, Rights!Asked, Rights!Skip, Rights!SCHEDULING_ID, Rights!CHANNEL_ID,
         Rights!MEMORY_REGION_ID, Rights!IRQ_ID
<1>12. Len(s) - 1 = 18
  BY SerializedType DEF s
<1>13. 0 \in 0 .. 4 /\ 0 # 4 /\ a.type # "protection_domain_control"
  OBVIOUS
<1> QED
  BY <1>7, <1>10, <1>11, <1>12, <1>13, Zenon DEF FoundAt, q, s

LEMMA FindsChannel ==
    ASSUME NEW a \in Rights!AccessRight, NEW p \in Nat, Holds(p, Rights!Serialized(a)),
           a.type = "channel"
    PROVE  FoundAt(p, a)
<1> DEFINE s == Rights!Serialized(a)
           q == p + 1
<1>1. s = <<1, a.target_pd, a.target_id, a.own_id>>
  BY DEF Rights!Serialized, Rights!SCHEDULING_ID, Rights!CHANNEL_ID
<1>2. a = [type |-> "channel", target_pd |-> a.target_pd,
           target_id |-> a.target_id, own_id |-> a.own_id]
  BY Kinds
<1>3. Len(s) = 4 /\ s[1] = 1 /\ s[2] = a.target_pd /\ s[3] = a.target_id /\ s[4] = a.own_id
  BY <1>1
<1> HIDE DEF s
<1>4. Rights!Byte(p) = 1 /\ Rights!Byte(q) = a.target_pd /\ Rights!Byte(p + 2) = a.target_id
      /\ Rights!Byte(p + 3) = a.own_id
  <2>1. Len(s) \in Nat /\ Len(s) >= 1 /\ Len(s) >= 2 /\ Len(s) >= 3 /\ Len(s) >= 4
    BY <1>3
  <2>2. Holds(p, s)
    BY DEF s
  <2> QED
    BY <1>3, <2>1, <2>2, HoldsBytes, Zenon
<1>5. p + 2 = q + 1 /\ p + 3 = q + 2
  OBVIOUS
<1>6. Rights!Byte(q) = a.target_pd /\ Rights!Byte(q + 1) = a.target_id
      /\ Rights!Byte(q + 2) = a.own_id
  BY <1>4, <1>5, Zenon
<1> HIDE DEF q
<1>7. Rights!Decoded(1, q) = [entry |-> a, bytes |-> 3]
  <2>1. Rights!Decoded(1, q) = Rights!Channel(q)
    BY DEF Rights!Decoded, Rights!SCHEDULING_ID, Rights!CHANNEL_ID, Rights!MEMORY_REGION_ID,
           Rights!IRQ_ID, Rights!PROTECTION_DOMAIN_CONTROL_ID
  <2>2. Rights!Channel(q) =
          [entry |-> [type |-> "channel", target_pd |-> a.target_pd,
                      target_id |-> a.target_id, own_id |-> a.own_id], bytes |-> 3]
    BY <1>6, Zenon DEF Rights!Channel
  <2> QED
    BY <1>2, <2>1, <2>2, Zenon
<1>8. Rights!Known(a) /\ Rights!Asked(a) = a /\ Rights!Skip(1) = 3
  BY DEF Rights!Known, Rights!Asked, Rights!Skip, Rights!SCHEDULING_ID, Rights!CHANNEL_ID,
         Rights!MEMORY_REGION_ID, Rights!IRQ_ID
<1> QED
  BY <1>3, <1>4, <1>7, <1>8 DEF FoundAt, q, s

LEMMA FindsMemoryRegion ==
    ASSUME NEW a \in Rights!AccessRight, NEW p \in Nat, Holds(p, Rights!Serialized(a)),
           a.type = "memory_region"
    PROVE  FoundAt(p, a)
<1> DEFINE E(n) == Rights!Eight(n)
           s == Rights!Serialized(a)
           f == Rights!Flags(a.perms)
           c == IF a.cached THEN 1 ELSE 0
           x == <<2>>
           z == <<f, c>>
           s1 == x \o E(a.id)
           s2 == s1 \o E(a.vaddr)
           s3 == s2 \o E(a.size)
           q == p + 1
<1>1. s = s3 \o z
  BY DEF Rights!Serialized, Rights!SCHEDULING_ID, Rights!CHANNEL_ID, Rights!MEMORY_REGION_ID
<1>2. a.id \in Rights!WordValue /\ a.vaddr \in Rights!WordValue /\ a.size \in Rights!WordValue
      /\ a.perms \in SUBSET {"r", "w", "x"} /\ a.cached \in BOOLEAN
  BY Kinds
<1>3. f \in Rights!ByteValue /\ c \in Rights!ByteValue
  BY <1>2, FlagsDecode, SmallBytes, TablesAssumption
     DEF Rights!AccessRightsConstants, Rights!ByteValue
<1>4. x \in Bytes /\ Len(x) = 1 /\ x[1] = 2 /\ z \in Bytes /\ Len(z) = 2 /\ z[1] = f /\ z[2] = c
  BY <1>3, SmallBytes DEF Bytes
<1> HIDE DEF x, z, s, f
<1>5. s1 \in Bytes /\ Len(s1) = Len(x) + 8
  BY <1>2, <1>4, AndWord, Zenon
<1> HIDE DEF s1
<1>6. s2 \in Bytes /\ Len(s2) = Len(s1) + 8
  BY <1>2, <1>5, AndWord, Zenon
<1> HIDE DEF s2
<1>7. s3 \in Bytes /\ Len(s3) = Len(s2) + 8
  BY <1>2, <1>6, AndWord, Zenon
<1> HIDE DEF s3
<1>8. Holds(p, s3) /\ Holds(p + Len(s3), z) /\ p + Len(s3) \in Nat
  <2>1. Holds(p, s3 \o z)
    BY <1>1 DEF s
  <2> QED
    BY <1>4, <1>7, <2>1, HoldsParts, Zenon
<1>9. Holds(p, s2) /\ Rights!Word(p + Len(s2)) = a.size
  <2>1. Holds(p, s2 \o Rights!Eight(a.size))
    BY <1>8 DEF s3
  <2> QED
    BY <1>2, <1>6, <2>1, HoldsNumber, ZenonT(60)
<1>10. Holds(p, s1) /\ Rights!Word(p + Len(s1)) = a.vaddr
  <2>1. Holds(p, s1 \o Rights!Eight(a.vaddr))
    BY <1>9 DEF s2
  <2> QED
    BY <1>2, <1>5, <2>1, HoldsNumber, ZenonT(60)
<1>11. Holds(p, x) /\ Rights!Word(p + Len(x)) = a.id
  <2>1. Holds(p, x \o Rights!Eight(a.id))
    BY <1>10 DEF s1
  <2>2. x \in Bytes
    BY <1>4
  <2> QED
    BY <1>2, <2>1, <2>2, HoldsNumber, ZenonT(60)
<1>12. p + Len(x) = q /\ p + Len(s1) = q + 8 /\ p + Len(s2) = q + 16 /\ p + Len(s3) = q + 24
       /\ (q + 24) + 1 = q + 25 /\ q + 24 \in Nat
  BY <1>4, <1>5, <1>6, <1>7
<1>13. Rights!Byte(p) = 2
  <2>1. Len(x) \in Nat /\ Len(x) >= 1
    BY <1>4
  <2> QED
    BY <1>4, <1>11, <2>1, HoldsBytes, Zenon
<1>14. Rights!Byte(q + 24) = f /\ Rights!Byte((q + 24) + 1) = c
  <2>1. Holds(q + 24, z)
    BY <1>8, <1>12, Zenon
  <2>2. Len(z) \in Nat /\ Len(z) >= 1 /\ Len(z) >= 2
    BY <1>4
  <2> QED
    BY <1>4, <1>12, <2>1, <2>2, HoldsBytes, Zenon
<1>15. Rights!Word(q) = a.id /\ Rights!Word(q + 8) = a.vaddr /\ Rights!Word(q + 16) = a.size
       /\ Rights!Byte(q + 24) = f /\ Rights!Byte(q + 25) = c
  BY <1>9, <1>10, <1>11, <1>12, <1>14, Zenon
<1> HIDE DEF q
<1> DEFINE r == IF "w" \in a.perms THEN "ReadWrite" ELSE "CanRead"
           v == {"ParityEnabled"} \cup (IF a.cached THEN {"PageCacheable"} ELSE {})
                    \cup (IF "x" \in a.perms THEN {} ELSE {"ExecuteNever"})
<1>16. Rights!parse_cap_rights(f) = r
  BY <1>2, FlagsDecode, Zenon DEF Rights!parse_cap_rights, f
<1>17. Rights!parse_vm_attributes(f, c) = v
  <2>1. Rights!Bit(f, Rights!P_FLAGS_EXECUTABLE) <=> "x" \in a.perms
    BY <1>2, FlagsDecode, Zenon DEF f
  <2>2. c # 0 <=> a.cached
    BY <1>2
  <2> HIDE DEF c
  <2> QED
    BY <2>1, <2>2, Zenon DEF Rights!parse_vm_attributes
<1> HIDE DEF c
<1>18. Rights!Asked(a) = [type |-> "memory_region", id |-> a.id, vaddr |-> a.vaddr,
                          size |-> a.size, rights |-> r, attributes |-> v]
  BY Zenon DEF Rights!Asked
<1> HIDE DEF r, v
<1>19. Rights!Decoded(2, q) = [entry |-> Rights!Asked(a), bytes |-> 26]
  <2>1. Rights!Decoded(2, q) = Rights!MemoryRegion(q)
    BY DEF Rights!Decoded, Rights!SCHEDULING_ID, Rights!CHANNEL_ID, Rights!MEMORY_REGION_ID,
           Rights!IRQ_ID, Rights!PROTECTION_DOMAIN_CONTROL_ID
  <2> QED
    BY <1>15, <1>16, <1>17, <1>18, <2>1, Zenon DEF Rights!MemoryRegion
<1>20. Rights!Known(a) /\ Rights!Skip(2) = 26
  BY DEF Rights!Known, Rights!Skip, Rights!SCHEDULING_ID, Rights!CHANNEL_ID,
         Rights!MEMORY_REGION_ID, Rights!IRQ_ID
<1>21. Len(s) - 1 = 26
  BY SerializedType DEF s
<1>22. 2 \in 0 .. 4 /\ 2 # 4 /\ a.type # "protection_domain_control"
  OBVIOUS
<1> QED
  BY <1>13, <1>19, <1>20, <1>21, <1>22, Zenon DEF FoundAt, q, s

LEMMA FindsIrq ==
    ASSUME NEW a \in Rights!AccessRight, NEW p \in Nat, Holds(p, Rights!Serialized(a)),
           a.type = "irq"
    PROVE  FoundAt(p, a)
<1> DEFINE s == Rights!Serialized(a)
           q == p + 1
<1>1. s = <<3, a.parent_id, a.child_id>>
  BY DEF Rights!Serialized, Rights!SCHEDULING_ID, Rights!CHANNEL_ID, Rights!MEMORY_REGION_ID,
         Rights!IRQ_ID
<1>2. a = [type |-> "irq", parent_id |-> a.parent_id, child_id |-> a.child_id]
  BY Kinds
<1>3. Len(s) = 3 /\ s[1] = 3 /\ s[2] = a.parent_id /\ s[3] = a.child_id
  BY <1>1
<1> HIDE DEF s
<1>4. Rights!Byte(p) = 3 /\ Rights!Byte(q) = a.parent_id /\ Rights!Byte(p + 2) = a.child_id
  <2>1. Len(s) \in Nat /\ Len(s) >= 1 /\ Len(s) >= 2 /\ Len(s) >= 3
    BY <1>3
  <2>2. Holds(p, s)
    BY DEF s
  <2> QED
    BY <1>3, <2>1, <2>2, HoldsBytes, Zenon
<1>5. p + 2 = q + 1
  OBVIOUS
<1>6. Rights!Byte(q) = a.parent_id /\ Rights!Byte(q + 1) = a.child_id
  BY <1>4, <1>5, Zenon
<1> HIDE DEF q
<1>7. Rights!Decoded(3, q) = [entry |-> a, bytes |-> 2]
  <2>1. Rights!Decoded(3, q) = Rights!Irq(q)
    BY DEF Rights!Decoded, Rights!SCHEDULING_ID, Rights!CHANNEL_ID, Rights!MEMORY_REGION_ID,
           Rights!IRQ_ID, Rights!PROTECTION_DOMAIN_CONTROL_ID
  <2>2. Rights!Irq(q) =
          [entry |-> [type |-> "irq", parent_id |-> a.parent_id, child_id |-> a.child_id],
           bytes |-> 2]
    BY <1>6, Zenon DEF Rights!Irq
  <2> QED
    BY <1>2, <2>1, <2>2, Zenon
<1>8. Rights!Known(a) /\ Rights!Asked(a) = a /\ Rights!Skip(3) = 2
  BY DEF Rights!Known, Rights!Asked, Rights!Skip, Rights!SCHEDULING_ID, Rights!CHANNEL_ID,
         Rights!MEMORY_REGION_ID, Rights!IRQ_ID
<1> QED
  BY <1>3, <1>4, <1>7, <1>8 DEF FoundAt, q, s

LEMMA FindsOther ==
    ASSUME NEW a \in Rights!AccessRight, NEW p \in Nat, Holds(p, Rights!Serialized(a)),
           a.type = "protection_domain_control" \/ a.type = "unknown"
    PROVE  FoundAt(p, a)
<1> DEFINE s == Rights!Serialized(a)
           n == IF a.type = "unknown" THEN 5 ELSE 4
           q == p + 1
<1>1. s = <<n>>
  BY DEF Rights!Serialized, Rights!PROTECTION_DOMAIN_CONTROL_ID
<1>2. Len(s) = 1 /\ s[1] = n
  BY <1>1
<1> HIDE DEF s, n
<1>3. Rights!Byte(p) = n
  <2>1. Len(s) \in Nat /\ Len(s) >= 1
    BY <1>2
  <2>2. Holds(p, s)
    BY DEF s
  <2> QED
    BY <1>2, <2>1, <2>2, HoldsBytes, Zenon
<1>4. Rights!Decoded(4, q) = [entry |-> [type |-> "protection_domain_control"], bytes |-> 0]
  BY DEF Rights!Decoded, Rights!SCHEDULING_ID, Rights!CHANNEL_ID, Rights!MEMORY_REGION_ID,
         Rights!IRQ_ID, Rights!PROTECTION_DOMAIN_CONTROL_ID, Rights!Control
<1>5. Rights!Known(a) <=> a.type # "unknown"
  BY DEF Rights!Known
<1>6. a.type # "unknown" => Rights!Asked(a) = [type |-> "protection_domain_control"]
  BY Kinds DEF Rights!Asked
<1> QED
  BY <1>2, <1>3, <1>4, <1>5, <1>6 DEF FoundAt, q, s, n

\* Whatever the kind.
LEMMA Finds ==
    ASSUME NEW a \in Rights!AccessRight, NEW p \in Nat, Holds(p, Rights!Serialized(a))
    PROVE  FoundAt(p, a)
  BY Kinds, FindsScheduling, FindsChannel, FindsMemoryRegion, FindsIrq, FindsOther, Zenon
-----------------------------------------------------------------------------
(* The table in the file *)

\* The first entries of a table, one behind the other.
UpTo(t) ==
    CHOOSE u : u = [n \in 0 .. Len(t) |->
                        IF n = 0 THEN <<>> ELSE u[n - 1] \o Rights!Serialized(t[n])]

\* There is such a function: by induction on the number of entries.
LEMMA UpToExists ==
    ASSUME NEW t, NEW n \in Nat
    PROVE  \E u : u = [k \in 0 .. n |-> IF k = 0 THEN <<>> ELSE u[k - 1] \o Rights!Serialized(t[k])]
<1> DEFINE Nil == <<>>
           And(x, k) == x \o Rights!Serialized(t[k])
           Fcn(m, u) == u = [k \in 0 .. m |-> IF k = 0 THEN Nil ELSE And(u[k - 1], k)]
           T == {m \in Nat : \E u : Fcn(m, u)}
<1> HIDE DEF Nil, And
<1>1. 0 \in T
  <2>1. Fcn(0, [k \in 0 .. 0 |-> Nil])
    OBVIOUS
  <2> QED
    BY <2>1
<1>2. ASSUME NEW m \in T PROVE m + 1 \in T
  <2>1. PICK u : Fcn(m, u)
    OBVIOUS
  <2> DEFINE h == [k \in 0 .. m + 1 |-> IF k <= m THEN u[k] ELSE And(u[m], m + 1)]
  <2>2. \A k \in 0 .. m + 1 : h[k] = IF k = 0 THEN Nil ELSE And(h[k - 1], k)
    BY <2>1
  <2>3. Fcn(m + 1, h)
    BY <2>2
  <2>4. \E f : Fcn(m + 1, f)
    <3> HIDE DEF h, Fcn
    <3> QED
      BY <2>3
  <2> QED
    BY <2>4
<1>3. T = Nat
  BY <1>1, <1>2, NatSetInduction
<1>4. \E u : Fcn(n, u)
  BY <1>3
<1> QED
  BY <1>4, Zenon DEF Nil, And

\* The table is its first entries, all of them, and they are bytes.
LEMMA UpToFacts ==
    ASSUME NEW t, t \in Seq(Rights!AccessRight)
    PROVE  /\ Rights!Concatenated(t) = UpTo(t)[Len(t)]
           /\ UpTo(t)[0] = <<>>
           /\ \A n \in 1 .. Len(t) : UpTo(t)[n] = UpTo(t)[n - 1] \o Rights!Serialized(t[n])
           /\ \A n \in 0 .. Len(t) : UpTo(t)[n] \in Bytes
<1> DEFINE Z(k) == Rights!Serialized(t[k])
           l == Len(t)
           Nil == <<>>
           And(x, k) == x \o Z(k)
           Fcn(v) == v = [k \in 0 .. l |-> IF k = 0 THEN Nil ELSE And(v[k - 1], k)]
           u == UpTo(t)
<1>1. l \in Nat /\ \A k \in 1 .. l : Z(k) \in Bytes
  <2>1. ASSUME NEW k \in 1 .. Len(t) PROVE t[k] \in Rights!AccessRight
    BY ElementOf
  <2> QED
    BY <2>1, SerializedType
<1>2. Rights!Concatenated(t) = u[Len(t)]
  BY DEF Rights!Concatenated, UpTo
<1>3. Fcn(u)
  <2>1. \E v : Fcn(v)
    BY <1>1, UpToExists
  <2>2. u = CHOOSE v : Fcn(v)
    BY Zenon DEF UpTo
  <2> HIDE DEF Fcn, u
  <2> QED
    BY <2>1, <2>2, Zenon
<1> HIDE DEF u, l, Z, Nil, And
<1>4. u[0] = Nil /\ \A n \in 1 .. l : u[n] = And(u[n - 1], n)
  BY <1>1, <1>3
<1> HIDE DEF Fcn
<1> DEFINE T == {m \in Nat : m <= l => u[m] \in Bytes}
<1>5. 0 \in T
  <2>1. Nil \in Bytes
    BY DEF Nil, Bytes
  <2> QED
    BY <1>4, <2>1
<1>6. ASSUME NEW m \in T PROVE m + 1 \in T
  <2>1. CASE m + 1 <= l
    <3>1. u[m] \in Bytes /\ m + 1 \in 1 .. l /\ (m + 1) - 1 = m
      BY <2>1, <1>1
    <3>2. u[m + 1] = u[m] \o Z(m + 1)
      BY <1>4, <3>1, Zenon DEF And
    <3>3. u[m + 1] \in Bytes
      BY <1>1, <3>1, <3>2, AndBytes, Zenon
    <3> QED
      BY <3>3
  <2>2. CASE ~ (m + 1 <= l)
    BY <2>2
  <2> QED
    BY <2>1, <2>2
<1>7. T = Nat
  <2> HIDE DEF T
  <2>1. T \in SUBSET Nat
    BY DEF T
  <2> QED
    BY <1>5, <1>6, <2>1, NatSetInduction
<1>8. \A n \in 0 .. l : u[n] \in Bytes
  BY <1>1, <1>7
<1> QED
  BY <1>2, <1>4, <1>8, Zenon DEF u, l, Z, Nil, And

\* Where the table is stored, every entry is stored, behind those before it.
LEMMA HoldsEntries ==
    ASSUME NEW t, t \in Seq(Rights!AccessRight), NEW p \in Nat, Holds(p, Rights!Concatenated(t))
    PROVE  \A n \in 1 .. Len(t) : Holds(p + Len(UpTo(t)[n - 1]), Rights!Serialized(t[n]))
<1> DEFINE Z(k) == Rights!Serialized(t[k])
           l == Len(t)
           u == UpTo(t)
<1>1. /\ l \in Nat
      /\ Holds(p, u[l])
      /\ \A n \in 1 .. l : u[n] = u[n - 1] \o Z(n)
      /\ \A n \in 0 .. l : u[n] \in Bytes
  <2>1. l \in Nat
    OBVIOUS
  <2> QED
    BY <2>1, UpToFacts, Zenon
<1>2. \A k \in 1 .. l : Z(k) \in Bytes
  <2>1. ASSUME NEW k \in 1 .. Len(t) PROVE t[k] \in Rights!AccessRight
    BY ElementOf
  <2> QED
    BY <2>1, SerializedType
<1> HIDE DEF Z, l, u
<1> DEFINE T == {d \in Nat : d <= l => Holds(p, u[l - d])}
<1>3. ASSUME NEW n \in 1 .. l, Holds(p, u[n])
      PROVE  Holds(p, u[n - 1]) /\ Holds(p + Len(u[n - 1]), Z(n))
  <2>1. u[n] = u[n - 1] \o Z(n) /\ Z(n) \in Bytes /\ n - 1 \in 0 .. l
    BY <1>1, <1>2
  <2>2. u[n - 1] \in Bytes /\ Holds(p, u[n - 1] \o Z(n))
    BY <1>1, <1>3, <2>1, Zenon
  <2> QED
    BY <2>1, <2>2, HoldsParts, Zenon
<1>4. 0 \in T
  BY <1>1
<1>5. ASSUME NEW d \in T PROVE d + 1 \in T
  <2>1. CASE d + 1 <= l
    <3>1. l - d \in 1 .. l /\ l - (d + 1) = (l - d) - 1 /\ Holds(p, u[l - d])
      BY <1>1, <2>1
    <3>2. Holds(p, u[(l - d) - 1])
      BY <1>3, <3>1, Zenon
    <3>3. Holds(p, u[l - (d + 1)])
      BY <3>1, <3>2, Zenon
    <3> QED
      BY <3>3
  <2>2. CASE ~ (d + 1 <= l)
    BY <2>2
  <2> QED
    BY <2>1, <2>2
<1>6. T = Nat
  <2>1. T \in SUBSET Nat
    OBVIOUS
  <2> HIDE DEF T
  <2> QED
    BY <1>4, <1>5, <2>1, NatSetInduction
<1>7. ASSUME NEW n \in 1 .. l PROVE Holds(p + Len(u[n - 1]), Z(n))
  <2>1. l - n \in Nat /\ l - n <= l /\ l - (l - n) = n
    BY <1>1
  <2>2. Holds(p, u[l - (l - n)])
    BY <1>6, <2>1, Zenon
  <2>3. Holds(p, u[n])
    BY <2>1, <2>2, Zenon
  <2> QED
    BY <1>3, <2>3, Zenon
<1> QED
  BY <1>7 DEF Z, l, u

\* The first entries together are not longer than all of them.
LEMMA UpToGrows ==
    ASSUME NEW t, t \in Seq(Rights!AccessRight)
    PROVE  \A n \in 1 .. Len(t) :
              /\ Len(UpTo(t)[n]) = Len(UpTo(t)[n - 1]) + Len(Rights!Serialized(t[n]))
              /\ Len(UpTo(t)[n - 1]) \in Nat /\ Len(UpTo(t)[n]) \in Nat
              /\ Len(Rights!Serialized(t[n])) >= 1
              /\ Len(UpTo(t)[n]) <= Len(UpTo(t)[Len(t)])
<1> DEFINE Z(k) == Rights!Serialized(t[k])
           l == Len(t)
           u == UpTo(t)
<1>1. /\ l \in Nat
      /\ \A n \in 1 .. l : u[n] = u[n - 1] \o Z(n)
      /\ \A n \in 0 .. l : u[n] \in Bytes
  <2>1. l \in Nat
    OBVIOUS
  <2> QED
    BY <2>1, UpToFacts, Zenon
<1>2. \A k \in 1 .. l : Z(k) \in Bytes /\ Len(Z(k)) \in Nat /\ Len(Z(k)) >= 1
  <2>1. ASSUME NEW k \in 1 .. Len(t)
        PROVE  t[k] \in Rights!AccessRight
    BY ElementOf
  <2>2. ASSUME NEW a \in Rights!AccessRight
        PROVE  LET s == Rights!Serialized(a) IN s \in Bytes /\ Len(s) \in Nat /\ Len(s) >= 1
    <3>1. \/ a.type = "scheduling" \/ a.type = "channel" \/ a.type = "memory_region"
          \/ a.type = "irq" \/ a.type = "protection_domain_control" \/ a.type = "unknown"
      BY Kinds, Zenon
    <3> DEFINE b == Rights!Serialized(a)
               m == Len(b)
    <3>2. /\ b \in Bytes
          /\ m = 19 \/ m = 4 \/ m = 27 \/ m = 3 \/ m = 1
      BY <3>1, SerializedType, Zenon
    <3> HIDE DEF m
    <3>3. m \in Nat /\ m >= 1
      BY <3>2
    <3> QED
      BY <3>2, <3>3, Zenon DEF m
  <2> QED
    BY <2>1, <2>2, Zenon
<1> HIDE DEF Z, l, u
<1>3. ASSUME NEW n \in 1 .. l
      PROVE  Len(u[n]) = Len(u[n - 1]) + Len(Z(n)) /\ Len(u[n - 1]) \in Nat /\ Len(u[n]) \in Nat
  <2>1. u[n] = u[n - 1] \o Z(n) /\ Z(n) \in Bytes /\ n - 1 \in 0 .. l /\ n \in 0 .. l
    BY <1>1, <1>2
  <2>2. u[n - 1] \in Bytes /\ u[n] \in Bytes
    BY <1>1, <2>1, Zenon
  <2>3. Len(u[n - 1] \o Z(n)) = Len(u[n - 1]) + Len(Z(n))
    BY <2>1, <2>2, AndBytes, Zenon
  <2>4. Len(u[n - 1]) \in Nat /\ Len(u[n]) \in Nat
    BY <2>2, AndBytes, Zenon
  <2> QED
    BY <2>1, <2>3, <2>4, Zenon
<1> DEFINE T == {d \in Nat : d < l => Len(u[l - d]) <= Len(u[l])}
<1>4. 0 \in T
  <2>1. CASE l = 0
    BY <2>1
  <2>2. CASE l # 0
    <3>1. l \in 1 .. l /\ l - 0 = l
      BY <1>1, <2>2
    <3>2. Len(u[l]) \in Nat
      BY <1>3, <3>1, Zenon
    <3> QED
      BY <3>1, <3>2
  <2> QED
    BY <2>1, <2>2
<1>5. ASSUME NEW d \in T PROVE d + 1 \in T
  <2>1. CASE d + 1 < l
    <3> DEFINE n == l - d
    <3>1. n \in 1 .. l /\ l - (d + 1) = n - 1 /\ Len(u[n]) <= Len(u[l]) /\ l \in 1 .. l
      BY <1>1, <2>1
    <3> HIDE DEF n
    <3>2. Len(u[n]) = Len(u[n - 1]) + Len(Z(n)) /\ Len(u[n - 1]) \in Nat /\ Len(u[n]) \in Nat
          /\ Len(Z(n)) \in Nat /\ Len(u[l]) \in Nat
      BY <1>2, <1>3, <3>1, Zenon
    <3>3. Len(u[n - 1]) <= Len(u[l])
      BY <3>1, <3>2
    <3>4. Len(u[l - (d + 1)]) <= Len(u[l])
      BY <3>1, <3>3, Zenon
    <3> QED
      BY <3>4
  <2>2. CASE ~ (d + 1 < l)
    BY <2>2
  <2> QED
    BY <2>1, <2>2
<1>6. T = Nat
  <2>1. T \in SUBSET Nat
    OBVIOUS
  <2> HIDE DEF T
  <2> QED
    BY <1>4, <1>5, <2>1, NatSetInduction
<1>7. ASSUME NEW n \in 1 .. l PROVE Len(u[n]) <= Len(u[l])
  <2>1. l - n \in Nat /\ l - n < l /\ l - (l - n) = n
    BY <1>1
  <2>2. Len(u[l - (l - n)]) <= Len(u[l])
    BY <1>6, <2>1, Zenon
  <2> QED
    BY <2>1, <2>2, Zenon
<1> QED
  BY <1>2, <1>3, <1>7 DEF Z, l, u
\* A file as the patcher writes it.
Stored ==
    /\ table \in Tables
    /\ \E ident \in Idents, gap \in Gaps : elf_file = Rights!Patched(table, ident, gap)

\* Where the first reader begins, and where an entry is.
TableStart == Rights!access_right_table_offset + 8
Place(n) == TableStart + Len(UpTo(table)[n - 1])

\* All digits but the last.
LEMMA FirstSeven ==
    ASSUME NEW e \in Bytes, Len(e) = 8
    PROVE  SubSeq(e, 1, 7) \in Bytes /\ Len(SubSeq(e, 1, 7)) = 7
<1>1. \A k \in 1 .. 7 : e[k] \in Rights!ByteValue
  <2>1. ASSUME NEW k \in 1 .. 7 PROVE k \in 1 .. Len(e) /\ e \in Seq(Rights!ByteValue)
    BY DEF Bytes
  <2> QED
    BY <2>1, ElementOf, Zenon
<1>2. 1 \in Int /\ 7 \in Int /\ 1 <= 7 /\ 7 - 1 + 1 = 7
  OBVIOUS
<1>3. /\ SubSeq(e, 1, 7) \in Seq(Rights!ByteValue)
      /\ Len(SubSeq(e, 1, 7)) = IF 1 <= 7 THEN 7 - 1 + 1 ELSE 0
  BY <1>1, <1>2, SubSeqProperties
<1> QED
  BY <1>3 DEF Bytes

\* Bytes behind bytes may be grouped in another way.
LEMMA Regroup ==
    ASSUME NEW x \in Bytes, NEW y \in Bytes, NEW z \in Bytes
    PROVE  x \o (y \o z) = (x \o y) \o z
<1>1. x \in Seq(Rights!ByteValue) /\ y \in Seq(Rights!ByteValue) /\ z \in Seq(Rights!ByteValue)
  BY DEF Bytes
<1>2. (x \o y) \o z = x \o (y \o z)
  BY <1>1, ConcatAssociative
<1> QED
  BY <1>2

\* An offset of seven bytes fits eight.
LEMMA OffsetsFit == Rights!OffsetValue \subseteq Rights!WordValue
<1> DEFINE B == ByteBase
           A == ByteBase * ByteBase * ByteBase
           P == Rights!Power4
<1>1. A \in Nat /\ P \in Nat /\ P = A * B /\ B \in Nat /\ B >= 1
  BY TablesAssumption DEF Rights!AccessRightsConstants, Rights!Power4
<1>2. Rights!OffsetValue = 0 .. A * P - 1 /\ Rights!WordValue = 0 .. P * P - 1
  BY DEF Rights!OffsetValue, Rights!WordValue
<1> HIDE DEF A, P, B
<1>3. A * P \in Nat /\ P * P \in Nat /\ A <= P
  BY <1>1
<1>4. A * P <= P * P
  BY <1>1, <1>3
<1> QED
  BY <1>2, <1>3, <1>4

\* The byte before the offset is shifted out.
LEMMA OffsetShifted ==
    ASSUME NEW ident \in Rights!ByteValue, NEW n \in Rights!OffsetValue, NEW p \in Nat,
           Holds(p, <<ident>> \o SubSeq(Rights!Eight(n), 1, 7))
    PROVE  Rights!Word(p) \div ByteBase = n
<1> DEFINE B == ByteBase
           e == Rights!Eight(n)
           From(k, higher) == Rights!Byte(p + k) + B * higher
           x == <<ident>> \o SubSeq(e, 1, 7)
<1>1. B \in Nat \ {0} /\ ident \in Nat /\ ident < B /\ n \in Nat
  BY TablesAssumption DEF Rights!AccessRightsConstants, Rights!ByteValue, Rights!OffsetValue,
     Rights!Power4
<1>2. n \in Rights!WordValue
  BY OffsetsFit
<1>3. PICK m \in [1 .. 7 -> Nat] :
              /\ n = B * m[1] + e[1]
              /\ m[1] = B * m[2] + e[2]
              /\ m[2] = B * m[3] + e[3]
              /\ m[3] = B * m[4] + e[4]
              /\ m[4] = B * m[5] + e[5]
              /\ m[5] = B * m[6] + e[6]
              /\ m[6] = B * m[7] + e[7]
              /\ m[7] = 0
  BY <1>2, Digits, Zenon
<1>4. \A k \in 1 .. 8 : e[k] \in Nat
  <2>1. e \in Seq(Rights!ByteValue) /\ Len(e) = 8
    BY <1>2, EightType
  <2>2. Rights!ByteValue \subseteq Nat
    BY TablesAssumption DEF Rights!AccessRightsConstants, Rights!ByteValue
  <2> HIDE DEF e
  <2>3. ASSUME NEW k \in 1 .. 8 PROVE e[k] \in Rights!ByteValue
    BY <2>1, ElementOf
  <2> QED
    BY <2>2, <2>3
<1>5. Len(x) = 8 /\ x[1] = ident /\ x[2] = e[1] /\ x[3] = e[2] /\ x[4] = e[3] /\ x[5] = e[4]
      /\ x[6] = e[5] /\ x[7] = e[6] /\ x[8] = e[7]
  <2>1. e \in Seq(Rights!ByteValue) /\ Len(e) = 8
    BY <1>2, EightType
  <2> HIDE DEF e
  <2> QED
    BY <2>1
<1> HIDE DEF x
<1>6. \A k \in 1 .. 8 : Rights!Byte(p + k - 1) = x[k]
  BY <1>5 DEF Holds, x
<1>7. /\ p + 1 - 1 = p + 0 /\ p + 2 - 1 = p + 1 /\ p + 3 - 1 = p + 2 /\ p + 4 - 1 = p + 3
      /\ p + 5 - 1 = p + 4 /\ p + 6 - 1 = p + 5 /\ p + 7 - 1 = p + 6 /\ p + 8 - 1 = p + 7
  OBVIOUS
<1>8. 1 \in 1 .. 8 /\ 2 \in 1 .. 8 /\ 3 \in 1 .. 8 /\ 4 \in 1 .. 8 /\ 5 \in 1 .. 8
      /\ 6 \in 1 .. 8 /\ 7 \in 1 .. 8 /\ 8 \in 1 .. 8
  OBVIOUS
<1>9. /\ Rights!Byte(p + 0) = x[1] /\ Rights!Byte(p + 1) = x[2] /\ Rights!Byte(p + 2) = x[3]
      /\ Rights!Byte(p + 3) = x[4] /\ Rights!Byte(p + 4) = x[5] /\ Rights!Byte(p + 5) = x[6]
      /\ Rights!Byte(p + 6) = x[7] /\ Rights!Byte(p + 7) = x[8]
  BY <1>6, <1>7, <1>8, Zenon
<1>10. /\ Rights!Byte(p + 0) = ident /\ Rights!Byte(p + 1) = e[1] /\ Rights!Byte(p + 2) = e[2]
       /\ Rights!Byte(p + 3) = e[3] /\ Rights!Byte(p + 4) = e[4] /\ Rights!Byte(p + 5) = e[5]
       /\ Rights!Byte(p + 6) = e[6] /\ Rights!Byte(p + 7) = e[7]
  BY <1>5, <1>9, Zenon
<1> HIDE DEF e
<1>11. From(7, 0) = m[6] /\ From(6, m[6]) = m[5] /\ From(5, m[5]) = m[4] /\ From(4, m[4]) = m[3]
       /\ From(3, m[3]) = m[2] /\ From(2, m[2]) = m[1] /\ From(1, m[1]) = n
       /\ From(0, n) = B * n + ident
  BY <1>1, <1>3, <1>4, <1>10
<1>12. Rights!Word(p) = From(0, From(1, From(2, From(3, From(4, From(5, From(6, From(7, 0))))))))
  BY DEF Rights!Word
<1> HIDE DEF From
<1>13. Rights!Word(p) = B * n + ident
  BY <1>11, <1>12
<1>14. (B * n + ident) \div B = n
  BY <1>1, DivisionUnique
<1> QED
  BY <1>13, <1>14, Zenon DEF B

\* What the file is.
LEMMA StoredFacts ==
    ASSUME Stored
    PROVE  /\ table \in Seq(Rights!AccessRight) /\ Len(table) \in Nat
           /\ TableStart \in Nat
           /\ Rights!Word(Rights!access_right_table_offset) = Len(table)
           /\ Holds(TableStart, Rights!Concatenated(table))
           /\ DOMAIN elf_file = 0 .. TableStart + Len(Rights!Concatenated(table)) - 1
           /\ TableStart >= 1
<1> PICK ident \in Idents, gap \in Gaps : elf_file = Rights!Patched(table, ident, gap)
  BY DEF Stored
<1> DEFINE place == Rights!Eight(16 + gap)
           zeros == [k \in 1 .. 8 |-> 0]
           x == <<ident>> \o SubSeq(place, 1, 7)
           filler == [k \in 1 .. gap |-> ByteBase - 1]
           number == Rights!Eight(Len(table))
           entries == Rights!Concatenated(table)
           y1 == zeros \o x
           y2 == y1 \o filler
           y3 == y2 \o number
           bytes == y3 \o entries
<1>1. ByteBase \in Nat /\ ByteBase >= 8 /\ gap \in Nat /\ 16 + gap \in Rights!OffsetValue
      /\ ident \in Rights!ByteValue /\ table \in Seq(Rights!AccessRight)
      /\ Len(table) \in Rights!WordValue /\ Len(table) \in Nat
  BY TablesAssumption DEF Rights!AccessRightsConstants, Stored
<1>2. 16 + gap \in Rights!WordValue
  <2> QED
    BY <1>1, OffsetsFit
<1>3. zeros \in Bytes /\ Len(zeros) = 8
  BY SmallBytes DEF Bytes
<1>4. x \in Bytes /\ Len(x) = 8
  <2>1. place \in Bytes /\ Len(place) = 8
    BY <1>2, EightType DEF Bytes
  <2>2. SubSeq(place, 1, 7) \in Bytes /\ Len(SubSeq(place, 1, 7)) = 7
    BY <2>1, FirstSeven, Zenon
  <2>3. <<ident>> \in Bytes /\ Len(<<ident>>) = 1
    BY <1>1 DEF Bytes
  <2>4. x \in Bytes /\ Len(x) = Len(<<ident>>) + Len(SubSeq(place, 1, 7))
    BY <2>2, <2>3, AndBytes, Zenon
  <2> HIDE DEF x
  <2> QED
    BY <2>2, <2>3, <2>4
<1>5. filler \in Bytes /\ Len(filler) = gap
  <2>1. ByteBase - 1 \in Rights!ByteValue
    BY <1>1 DEF Rights!ByteValue
  <2> QED
    BY <1>1, <2>1 DEF Bytes
<1>6. number \in Bytes /\ Len(number) = 8
  BY <1>1, EightType DEF Bytes
<1>7. entries \in Bytes
  <2>1. entries = UpTo(table)[Len(table)] /\ \A n \in 0 .. Len(table) : UpTo(table)[n] \in Bytes
    BY <1>1, UpToFacts, Zenon
  <2>2. Len(table) \in 0 .. Len(table)
    BY <1>1
  <2> QED
    BY <2>1, <2>2, Zenon
<1>8. elf_file = [p \in 0 .. Len(bytes) - 1 |-> bytes[p + 1]]
  <2>1. bytes = zeros \o <<ident>> \o SubSeq(place, 1, 7) \o filler \o number \o entries
    <3>1. <<ident>> \in Bytes /\ SubSeq(place, 1, 7) \in Bytes
      <4>1. place \in Bytes /\ Len(place) = 8
        BY <1>2, EightType DEF Bytes
      <4>2. <<ident>> \in Bytes
        BY <1>1 DEF Bytes
      <4> QED
        BY <4>1, <4>2, FirstSeven, Zenon
    <3> DEFINE i1 == <<ident>>
               i2 == SubSeq(place, 1, 7)
    <3> HIDE DEF zeros, filler, number, entries
    <3>2. zeros \in Bytes /\ i1 \in Bytes /\ i2 \in Bytes
      BY <1>3, <3>1, Zenon
    <3> HIDE DEF i1, i2
    <3>3. zeros \o (i1 \o i2) = (zeros \o i1) \o i2
      BY <3>2, Regroup, Zenon
    <3> QED
      BY <3>3, Zenon DEF i1, i2
  <2> QED
    BY <2>1, Zenon DEF Rights!Patched, Rights!EI_NIDENT
<1> HIDE DEF zeros, x, filler, number, entries
<1>9. y1 \in Bytes /\ Len(y1) = Len(zeros) + Len(x)
  BY <1>3, <1>4, AndBytes, Zenon
<1> HIDE DEF y1
<1>10. y2 \in Bytes /\ Len(y2) = Len(y1) + Len(filler)
  BY <1>5, <1>9, AndBytes, Zenon
<1> HIDE DEF y2
<1>11. y3 \in Bytes /\ Len(y3) = Len(y2) + Len(number)
  BY <1>6, <1>10, AndBytes, Zenon
<1> HIDE DEF y3
<1>12. bytes \in Bytes /\ Len(bytes) = Len(y3) + Len(entries) /\ Len(bytes) \in Nat
       /\ Len(entries) \in Nat
  BY <1>7, <1>11, AndBytes
<1> HIDE DEF bytes
<1>13. Len(y1) = 16 /\ Len(y2) = 16 + gap /\ Len(y3) = 24 + gap /\ Len(bytes) = 24 + gap + Len(entries)
  BY <1>1, <1>3, <1>4, <1>5, <1>6, <1>9, <1>10, <1>11, <1>12
<1>14. Holds(0, bytes) /\ DOMAIN elf_file = 0 .. Len(bytes) - 1
  BY <1>8, <1>12 DEF Holds, Rights!Byte
<1>15. Holds(0, y3) /\ Holds(0 + Len(y3), entries)
  <2>1. 0 \in Nat /\ Holds(0, y3 \o entries)
    BY <1>14 DEF bytes
  <2> QED
    BY <1>7, <1>11, <2>1, HoldsParts, Zenon
<1>16. Holds(0, y2) /\ Holds(0 + Len(y2), number)
  <2>1. 0 \in Nat /\ Holds(0, y2 \o number)
    BY <1>15 DEF y3
  <2> QED
    BY <1>6, <1>10, <2>1, HoldsParts, Zenon
<1>17. Holds(0, y1)
  <2>1. 0 \in Nat /\ Holds(0, y1 \o filler)
    BY <1>16 DEF y2
  <2> QED
    BY <1>5, <1>9, <2>1, HoldsParts, Zenon
<1>18. Holds(0 + Len(zeros), x)
  <2>1. 0 \in Nat /\ Holds(0, zeros \o x)
    BY <1>17 DEF y1
  <2> QED
    BY <1>3, <1>4, <2>1, HoldsParts, Zenon
<1>19. Rights!Word(8) \div ByteBase = 16 + gap
  <2>1. 0 + Len(zeros) = 8 /\ 8 \in Nat
    BY <1>3
  <2>2. Holds(8, <<ident>> \o SubSeq(place, 1, 7))
    BY <1>18, <2>1, Zenon DEF x
  <2> QED
    BY <1>1, <2>1, <2>2, OffsetShifted, ZenonT(60)
<1>20. Rights!access_right_table_offset = 16 + gap
  <2>1. 9 - 1 = 8
    OBVIOUS
  <2> QED
    BY <1>19, <2>1, Zenon DEF Rights!access_right_table_offset, Rights!EI_ACCESS_RIGHT_TABLE_OFFSET_IDX
<1>21. Rights!Word(16 + gap) = Len(table)
  <2>1. 0 + Len(y2) = 16 + gap /\ 16 + gap \in Nat
    BY <1>1, <1>13
  <2>2. Holds(16 + gap, Rights!Eight(Len(table)))
    BY <1>16, <2>1, Zenon DEF number
  <2> QED
    BY <1>1, <2>1, <2>2, HoldsWord, Zenon
<1>22. TableStart = 24 + gap
  BY <1>1, <1>20 DEF TableStart
<1>23. Holds(TableStart, entries)
  <2>1. 0 + Len(y3) = 24 + gap
    BY <1>1, <1>13
  <2> QED
    BY <1>15, <1>22, <2>1, Zenon
<1>24. TableStart \in Nat /\ TableStart >= 1
       /\ DOMAIN elf_file = 0 .. TableStart + Len(entries) - 1
  BY <1>1, <1>12, <1>13, <1>14, <1>22
<1> QED
  BY <1>1, <1>20, <1>21, <1>23, <1>24, Zenon DEF entries
-----------------------------------------------------------------------------
(* The two readers *)

\* Where a reader is after n entries.
After(n) == TableStart + Len(UpTo(table)[n])

Entries == 1 .. Len(table)
KnownIn(n) == Rights!Known(table[n])
ControlIn(n) == table[n].type = "protection_domain_control"
AskedFor == {Rights!Asked(table[n]) : n \in Entries}

\* What the readers have done so far.
SkippedRight ==
    /\ skipped \in Seq(Nat) /\ Len(skipped) <= Len(table)
    /\ \A n \in 1 .. Len(skipped) : skipped[n] = After(n - 1)

FoundRight ==
    /\ found \in Seq(Nat) /\ Len(found) <= Len(table)
    /\ \A n \in 1 .. Len(found) : found[n] = After(n - 1)

AppliedRight ==
    /\ applied \in Seq(AskedFor) /\ Len(applied) <= Len(table)
    /\ \A n \in 1 .. Len(applied) : applied[n] = Rights!Asked(table[n]) /\ KnownIn(n)

\* What the first reader answers, right or not: it may stop at an entry that is
\* not known, before an entry with the control right.
Answered ==
    /\ control => \E n \in Entries : ControlIn(n)
    /\ ~ control => (\A n \in Entries : ~ ControlIn(n)) \/ (\E n \in Entries : ~ KnownIn(n))

\* Where a reader is in the table.
WalksControl ==
    /\ left = Len(table) - Len(skipped)
    /\ access_right_reader = After(Len(skipped))
    /\ \A n \in 1 .. Len(skipped) : KnownIn(n) /\ ~ ControlIn(n)

WalksSetUp ==
    /\ left = Len(table) - Len(applied)
    /\ access_right_reader = After(Len(applied))
    /\ Len(found) = Len(applied)

\* The inductive invariant.
Reading ==
    /\ Stored
    /\ at \in {"create", "control", "loaded", "set_up", "done", "refused"}
    /\ control \in BOOLEAN
    /\ SkippedRight /\ FoundRight /\ AppliedRight
    /\ at = "create" => skipped = <<>> /\ found = <<>> /\ applied = <<>>
    /\ at = "control" => WalksControl /\ found = <<>> /\ applied = <<>>
    /\ at = "loaded" => Answered /\ found = <<>> /\ applied = <<>>
    /\ at = "set_up" => Answered /\ WalksSetUp
    /\ at = "done" => /\ Answered
                      /\ Len(applied) = Len(table) /\ access_right_reader = After(Len(table))
    /\ at = "refused" => Len(applied) < Len(table) /\ ~ KnownIn(Len(applied) + 1)

\* An entry of a stored table.
LEMMA EntryFacts ==
    ASSUME Stored
    PROVE  /\ Len(table) \in Nat
           /\ After(0) = TableStart
           /\ After(Len(table)) - 1 \in DOMAIN elf_file /\ After(Len(table)) \notin DOMAIN elf_file
           /\ After(Len(table)) \in Nat
           /\ \A n \in Entries :
                 /\ After(n - 1) \in Nat /\ After(n - 1) \in DOMAIN elf_file
                 /\ FoundAt(After(n - 1), table[n])
                 /\ After(n) = After(n - 1) + Len(Rights!Serialized(table[n]))
                 /\ Len(Rights!Serialized(table[n])) \in Nat
                 /\ Rights!Asked(table[n]) \in AskedFor
<1> DEFINE b(n) == Len(UpTo(table)[n])
           z(n) == Len(Rights!Serialized(table[n]))
           l == Len(table)
           s == TableStart
<1>1. /\ table \in Seq(Rights!AccessRight) /\ l \in Nat
      /\ s \in Nat /\ s >= 1
      /\ Holds(s, Rights!Concatenated(table))
      /\ Rights!Concatenated(table) = UpTo(table)[l]
      /\ UpTo(table)[0] = <<>>
  <2>1. /\ table \in Seq(Rights!AccessRight) /\ l \in Nat
        /\ s \in Nat /\ s >= 1
        /\ Holds(s, Rights!Concatenated(table))
    BY StoredFacts, Zenon
  <2> QED
    BY <2>1, UpToFacts, Zenon
<1>2. \A n \in 1 .. l : b(n) = b(n - 1) + z(n) /\ b(n - 1) \in Nat /\ b(n) \in Nat
                        /\ z(n) >= 1 /\ b(n) <= b(l)
  BY <1>1, UpToGrows, Zenon
<1>3. b(0) = 0 /\ b(l) \in Nat
  <2>1. b(0) = 0
    BY <1>1
  <2>2. UpTo(table)[l] \in Bytes
    <3>1. l \in 0 .. l
      BY <1>1
    <3> QED
      BY <1>1, <3>1, UpToFacts, Zenon
  <2>3. b(l) \in Nat
    BY <2>2, AndBytes, Zenon
  <2> QED
    BY <2>1, <2>3
<1>4. DOMAIN elf_file = 0 .. s + b(l) - 1
  BY <1>1, StoredFacts, Zenon
<1>5. \A n \in 1 .. l : z(n) \in Nat
  <2>1. ASSUME NEW n \in 1 .. l PROVE Rights!Serialized(table[n]) \in Bytes
    BY <1>1, ElementOf, SerializedType
  <2> QED
    BY <2>1, AndBytes, Zenon
<1>6. \A n \in 1 .. l : FoundAt(s + b(n - 1), table[n])
  <2>1. \A n \in 1 .. l : Holds(s + b(n - 1), Rights!Serialized(table[n]))
    BY <1>1, HoldsEntries, Zenon
  <2>2. ASSUME NEW n \in 1 .. l PROVE table[n] \in Rights!AccessRight /\ s + b(n - 1) \in Nat
    <3>1. table[n] \in Rights!AccessRight
      BY <1>1, ElementOf
    <3>2. b(n - 1) \in Nat
      BY <1>2, Zenon
    <3> HIDE DEF b, s
    <3> QED
      BY <1>1, <3>1, <3>2
  <2> QED
    BY <2>1, <2>2, Finds, Zenon
<1>7. \A n \in 1 .. l : Rights!Asked(table[n]) \in AskedFor
  BY DEF AskedFor, Entries
<1> HIDE DEF b, z, l, s
<1>8. s + b(0) = s
      /\ s + b(l) - 1 \in 0 .. s + b(l) - 1 /\ s + b(l) \notin 0 .. s + b(l) - 1 /\ s + b(l) \in Nat
  BY <1>1, <1>3
<1>9. ASSUME NEW n \in 1 .. l
      PROVE  /\ s + b(n - 1) \in Nat /\ s + b(n - 1) \in 0 .. s + b(l) - 1
             /\ s + b(n) = (s + b(n - 1)) + z(n)
  <2> DEFINE x == b(n - 1)
             y == b(n)
             w == z(n)
             v == b(l)
  <2>1. y = x + w /\ x \in Nat /\ y \in Nat /\ w \in Nat /\ w >= 1 /\ y <= v
    BY <1>2, <1>5, Zenon
  <2>2. s \in Nat /\ v \in Nat
    BY <1>1, <1>3
  <2> HIDE DEF x, y, w, v
  <2>3. s + x \in Nat /\ s + x \in 0 .. s + v - 1 /\ s + y = (s + x) + w
    BY <2>1, <2>2
  <2> QED
    BY <2>3, Zenon DEF x, y, w, v
<1>10. /\ \A n : After(n) = s + b(n)
       /\ Entries = 1 .. l /\ Len(table) = l /\ TableStart = s
       /\ \A n : Len(Rights!Serialized(table[n])) = z(n)
  BY Zenon DEF After, Entries, b, s, l, z
<1>11. /\ l \in Nat /\ After(0) = s
       /\ After(l) - 1 \in DOMAIN elf_file /\ After(l) \notin DOMAIN elf_file /\ After(l) \in Nat
  <2> DEFINE v == s + b(l)
  <2>1. After(0) = s + b(0) /\ After(l) = v
    BY <1>10, Zenon
  <2>2. l \in Nat /\ v - 1 \in DOMAIN elf_file /\ v \notin DOMAIN elf_file /\ v \in Nat
    <3>1. l \in Nat /\ v \in Nat /\ v >= 1 /\ DOMAIN elf_file = 0 .. v - 1
      BY <1>1, <1>3, <1>4
    <3> HIDE DEF v
    <3> QED
      BY <3>1
  <2> HIDE DEF v
  <2>3. s + b(0) = s
    BY <1>8
  <2> QED
    BY <2>1, <2>2, <2>3, Zenon
<1>12. \A n \in 1 .. l :
                 /\ After(n - 1) \in Nat /\ After(n - 1) \in DOMAIN elf_file
                 /\ FoundAt(After(n - 1), table[n])
                 /\ After(n) = After(n - 1) + z(n)
                 /\ z(n) \in Nat
                 /\ Rights!Asked(table[n]) \in AskedFor
  BY <1>4, <1>5, <1>6, <1>7, <1>9, <1>10, Zenon
<1> QED
  BY <1>10, <1>11, <1>12, Zenon

\* Nothing writes to the file.
LEMMA FileKept ==
    ASSUME Stored, UNCHANGED <<elf_file, table>>
    PROVE  /\ Stored' /\ Len(table)' = Len(table)
           /\ Entries' = Entries /\ AskedFor' = AskedFor
           /\ \A n : After(n)' = After(n) /\ KnownIn(n)' = KnownIn(n) /\ ControlIn(n)' = ControlIn(n)
<1>1. Stored'
  BY DEF Stored
<1>2. Entries' = Entries /\ AskedFor' = AskedFor
  BY Zenon DEF Entries, AskedFor
<1>3. \A p : Rights!Byte(p)' = Rights!Byte(p)
  BY DEF Rights!Byte
<1>4. \A p : Rights!Word(p)' = Rights!Word(p)
  BY <1>3, Zenon DEF Rights!Word
<1>5. TableStart' = TableStart
  BY <1>4, Zenon DEF TableStart, Rights!access_right_table_offset
<1>6. \A n : After(n)' = After(n) /\ KnownIn(n)' = KnownIn(n) /\ ControlIn(n)' = ControlIn(n)
  BY <1>5, Zenon DEF After, KnownIn, ControlIn
<1> QED
  BY <1>1, <1>2, <1>6, Zenon

\* What a step leaves alone stays right.
LEMMA SkippedKept == Stored /\ SkippedRight /\ UNCHANGED <<elf_file, table, skipped>> => SkippedRight'
  BY FileKept, Zenon DEF SkippedRight

LEMMA FoundKept == Stored /\ FoundRight /\ UNCHANGED <<elf_file, table, found>> => FoundRight'
  BY FileKept, Zenon DEF FoundRight

LEMMA AppliedKept == Stored /\ AppliedRight /\ UNCHANGED <<elf_file, table, applied>> => AppliedRight'
<1> SUFFICES ASSUME Stored, AppliedRight, UNCHANGED <<elf_file, table, applied>> PROVE AppliedRight'
  OBVIOUS
<1>1. AskedFor' = AskedFor /\ \A n : KnownIn(n)' = KnownIn(n)
  BY FileKept, Zenon
<1> QED
  BY <1>1, Zenon DEF AppliedRight

LEMMA AnsweredKept == Stored /\ Answered /\ UNCHANGED <<elf_file, table, control>> => Answered'
<1> SUFFICES ASSUME Stored, Answered, UNCHANGED <<elf_file, table, control>> PROVE Answered'
  OBVIOUS
<1>1. Entries' = Entries /\ control' = control
      /\ \A n : KnownIn(n)' = KnownIn(n) /\ ControlIn(n)' = ControlIn(n)
  BY FileKept, Zenon
<1> QED
  BY <1>1 DEF Answered
\* One more entry in a history.
LEMMA OneMore ==
    ASSUME NEW S, NEW s \in Seq(S), NEW e \in S
    PROVE  /\ Append(s, e) \in Seq(S) /\ Len(Append(s, e)) = Len(s) + 1 /\ Len(s) \in Nat
           /\ \A n \in 1 .. Len(s) : Append(s, e)[n] = s[n]
           /\ Append(s, e)[Len(s) + 1] = e
  OBVIOUS

\* Each reader adds the place of its next entry, and the second one what it asks for.
LEMMA SkippedGrows ==
    ASSUME Stored, SkippedRight, UNCHANGED <<elf_file, table>>, Len(skipped) + 1 \in Entries,
           skipped' = Append(skipped, After(Len(skipped)))
    PROVE  SkippedRight' /\ Len(skipped)' = Len(skipped) + 1
<1> DEFINE m == Len(skipped)
           e == After(m)
           s == skipped'
           A(n) == After(n)
<1>1. m \in Nat /\ skipped \in Seq(Nat) /\ (m + 1) - 1 = m
  BY DEF SkippedRight
<1>2. e \in Nat
  <2>1. After((m + 1) - 1) \in Nat
    BY EntryFacts, Zenon
  <2> QED
    BY <1>1, <2>1, Zenon
<1>3. /\ s \in Seq(Nat) /\ Len(s) = m + 1
      /\ \A n \in 1 .. m : s[n] = skipped[n]
      /\ s[m + 1] = e
  BY <1>1, <1>2, OneMore
<1>4. Len(table) \in Nat /\ m + 1 <= Len(table) /\ Len(table)' = Len(table)
      /\ \A n : After(n)' = A(n)
  BY EntryFacts, FileKept DEF Entries
<1>5. \A n \in 1 .. m : skipped[n] = A(n - 1)
  BY DEF SkippedRight
<1>6. s[m + 1] = A((m + 1) - 1)
  BY <1>1, <1>3, Zenon
<1> HIDE DEF A, e, s, m
<1>7. ASSUME NEW n \in 1 .. m + 1 PROVE s[n] = A(n - 1)
  <2>1. n \in 1 .. m \/ n = m + 1
    BY <1>1
  <2> QED
    BY <1>3, <1>5, <1>6, <2>1, Zenon
<1>8. s \in Seq(Nat) /\ Len(s) <= Len(table) /\ \A n \in 1 .. Len(s) : s[n] = A(n - 1)
  BY <1>1, <1>3, <1>4, <1>7
<1> QED
  BY <1>3, <1>4, <1>8, Zenon DEF SkippedRight, s, m, A

LEMMA FoundGrows ==
    ASSUME Stored, FoundRight, UNCHANGED <<elf_file, table>>, Len(found) + 1 \in Entries,
           found' = Append(found, After(Len(found)))
    PROVE  FoundRight' /\ Len(found)' = Len(found) + 1
<1> DEFINE m == Len(found)
           e == After(m)
           s == found'
           A(n) == After(n)
<1>1. m \in Nat /\ found \in Seq(Nat) /\ (m + 1) - 1 = m
  BY DEF FoundRight
<1>2. e \in Nat
  <2>1. After((m + 1) - 1) \in Nat
    BY EntryFacts, Zenon
  <2> QED
    BY <1>1, <2>1, Zenon
<1>3. /\ s \in Seq(Nat) /\ Len(s) = m + 1
      /\ \A n \in 1 .. m : s[n] = found[n]
      /\ s[m + 1] = e
  BY <1>1, <1>2, OneMore
<1>4. Len(table) \in Nat /\ m + 1 <= Len(table) /\ Len(table)' = Len(table)
      /\ \A n : After(n)' = A(n)
  BY EntryFacts, FileKept DEF Entries
<1>5. \A n \in 1 .. m : found[n] = A(n - 1)
  BY DEF FoundRight
<1>6. s[m + 1] = A((m + 1) - 1)
  BY <1>1, <1>3, Zenon
<1> HIDE DEF A, e, s, m
<1>7. ASSUME NEW n \in 1 .. m + 1 PROVE s[n] = A(n - 1)
  <2>1. n \in 1 .. m \/ n = m + 1
    BY <1>1
  <2> QED
    BY <1>3, <1>5, <1>6, <2>1, Zenon
<1>8. s \in Seq(Nat) /\ Len(s) <= Len(table) /\ \A n \in 1 .. Len(s) : s[n] = A(n - 1)
  BY <1>1, <1>3, <1>4, <1>7
<1> QED
  BY <1>3, <1>4, <1>8, Zenon DEF FoundRight, s, m, A

LEMMA AppliedGrows ==
    ASSUME Stored, AppliedRight, UNCHANGED <<elf_file, table>>, Len(applied) + 1 \in Entries,
           KnownIn(Len(applied) + 1),
           applied' = Append(applied, Rights!Asked(table[Len(applied) + 1]))
    PROVE  AppliedRight' /\ Len(applied)' = Len(applied) + 1
<1> DEFINE m == Len(applied)
           Q(n) == Rights!Asked(table[n])
           K(n) == KnownIn(n)
           e == Q(m + 1)
           s == applied'
<1>1. m \in Nat /\ applied \in Seq(AskedFor)
  BY DEF AppliedRight
<1>2. e \in AskedFor
  BY EntryFacts, Zenon
<1>3. /\ s \in Seq(AskedFor) /\ Len(s) = m + 1
      /\ \A n \in 1 .. m : s[n] = applied[n]
      /\ s[m + 1] = e
  <2> HIDE DEF e
  <2>1. s = Append(applied, e)
    BY DEF e
  <2> QED
    BY <1>1, <1>2, <2>1, OneMore
<1>4. Len(table) \in Nat /\ m + 1 <= Len(table)
  BY EntryFacts DEF Entries
<1>5. Len(table)' = Len(table) /\ AskedFor' = AskedFor
      /\ (\A n : KnownIn(n)' = K(n)) /\ \A n : Rights!Asked(table[n])' = Q(n)
  BY FileKept, Zenon
<1>6. \A n \in 1 .. m : applied[n] = Q(n) /\ K(n)
  BY Zenon DEF AppliedRight
<1>7. s[m + 1] = Q(m + 1) /\ K(m + 1)
  BY <1>3, Zenon
<1> HIDE DEF Q, K, e, s, m
<1>8. ASSUME NEW n \in 1 .. m + 1 PROVE s[n] = Q(n) /\ K(n)
  <2>1. n \in 1 .. m \/ n = m + 1
    BY <1>1
  <2> QED
    BY <1>3, <1>6, <1>7, <2>1, Zenon
<1>9. s \in Seq(AskedFor) /\ Len(s) <= Len(table) /\ \A n \in 1 .. Len(s) : s[n] = Q(n) /\ K(n)
  BY <1>1, <1>3, <1>4, <1>8
<1> QED
  BY <1>3, <1>5, <1>9, Zenon DEF AppliedRight, s, m

\* The invariant holds at first and is kept by every step.
LEMMA InitReads == Rights!Init => Reading
<1> SUFFICES ASSUME Rights!Init PROVE Reading
  OBVIOUS
<1>1. Stored /\ at = "create" /\ control = FALSE
      /\ skipped = <<>> /\ found = <<>> /\ applied = <<>>
  BY Zenon DEF Rights!Init, Stored
<1>2. Len(table) \in Nat
  BY <1>1, StoredFacts, Zenon
<1>3. SkippedRight /\ FoundRight
  BY <1>1, <1>2 DEF SkippedRight, FoundRight
<1>4. AppliedRight
  BY <1>1, <1>2 DEF AppliedRight
<1> QED
  BY <1>1, <1>3, <1>4 DEF Reading

LEMMA BeginControlReads == Reading /\ Rights!BeginControl => Reading'
<1> SUFFICES ASSUME Reading, Rights!BeginControl PROVE Reading'
  OBVIOUS
<1>1. /\ at = "create" /\ at' = "control"
      /\ left' = Rights!Word(Rights!access_right_table_offset)
      /\ access_right_reader' = Rights!access_right_table_offset + 8
      /\ UNCHANGED <<elf_file, table>> /\ skipped' = skipped /\ found' = found
      /\ applied' = applied /\ control' = control
  BY DEF Rights!BeginControl, Rights!Begin
<1>2. Stored /\ SkippedRight /\ FoundRight /\ AppliedRight
      /\ control \in BOOLEAN /\ skipped = <<>> /\ found = <<>> /\ applied = <<>>
  BY <1>1, Zenon DEF Reading
<1>3. Stored' /\ SkippedRight' /\ FoundRight' /\ AppliedRight' /\ Len(table)' = Len(table)
      /\ After(0)' = After(0)
  BY <1>1, <1>2, FileKept, SkippedKept, FoundKept, AppliedKept, Zenon
<1>4. left' = Len(table) /\ access_right_reader' = After(0) /\ Len(table) \in Nat
  BY <1>1, <1>2, StoredFacts, EntryFacts, Zenon DEF TableStart
<1>5. WalksControl'
  BY <1>1, <1>2, <1>3, <1>4 DEF WalksControl
<1> QED
  BY <1>1, <1>2, <1>3, <1>5 DEF Reading

LEMMA BeginSetUpReads == Reading /\ Rights!BeginSetUp => Reading'
<1> SUFFICES ASSUME Reading, Rights!BeginSetUp PROVE Reading'
  OBVIOUS
<1>1. /\ at = "loaded" /\ at' = "set_up"
      /\ left' = Rights!Word(Rights!access_right_table_offset)
      /\ access_right_reader' = Rights!access_right_table_offset + 8
      /\ UNCHANGED <<elf_file, table>> /\ skipped' = skipped /\ found' = found
      /\ applied' = applied /\ control' = control
  BY DEF Rights!BeginSetUp, Rights!Begin
<1>2. Stored /\ SkippedRight /\ FoundRight /\ AppliedRight /\ Answered
      /\ control \in BOOLEAN /\ found = <<>> /\ applied = <<>>
  BY <1>1, Zenon DEF Reading
<1>3. Stored' /\ SkippedRight' /\ FoundRight' /\ AppliedRight' /\ Len(table)' = Len(table)
      /\ After(0)' = After(0) /\ Answered'
  BY <1>1, <1>2, FileKept, SkippedKept, FoundKept, AppliedKept, AnsweredKept, Zenon
<1>4. left' = Len(table) /\ access_right_reader' = After(0) /\ Len(table) \in Nat
  BY <1>1, <1>2, StoredFacts, EntryFacts, Zenon DEF TableStart
<1>5. WalksSetUp'
  BY <1>1, <1>2, <1>3, <1>4 DEF WalksSetUp
<1> QED
  BY <1>1, <1>2, <1>3, <1>5 DEF Reading
LEMMA ControlEntryReads == Reading /\ Rights!ControlEntry => Reading'
<1> SUFFICES ASSUME Reading, Rights!ControlEntry PROVE Reading'
  OBVIOUS
<1> DEFINE m == Len(skipped)
           p == After(m)
           id == Rights!Byte(p)
           a == table[m + 1]
           follow == Len(Rights!Serialized(a)) - 1
<1>1. at = "control" /\ left > 0 /\ UNCHANGED <<elf_file, table>>
      /\ found' = found /\ applied' = applied
  BY DEF Rights!ControlEntry
<1>2. /\ Stored /\ SkippedRight /\ FoundRight /\ AppliedRight /\ control \in BOOLEAN
      /\ left = Len(table) - m /\ access_right_reader = p
      /\ \A n \in 1 .. m : KnownIn(n) /\ ~ ControlIn(n)
      /\ found = <<>> /\ applied = <<>>
  BY <1>1, Zenon DEF Reading, WalksControl
<1>3. m \in Nat /\ Len(table) \in Nat /\ m + 1 \in Entries /\ (m + 1) - 1 = m
      /\ m + 1 = Len(skipped) + 1
  BY <1>1, <1>2, EntryFacts DEF SkippedRight, Entries
<1>4. FoundAt(p, a) /\ After(m + 1) = p + Len(Rights!Serialized(a)) /\ p \in Nat
      /\ Len(Rights!Serialized(a)) \in Nat
  BY <1>2, <1>3, EntryFacts, Zenon
<1>5. skipped' = Append(skipped, p)
  BY <1>2, Zenon DEF Rights!ControlEntry
<1>6. /\ Stored' /\ FoundRight' /\ AppliedRight' /\ Len(table)' = Len(table) /\ Entries' = Entries
      /\ \A n : After(n)' = After(n) /\ KnownIn(n)' = KnownIn(n) /\ ControlIn(n)' = ControlIn(n)
  BY <1>1, <1>2, FileKept, FoundKept, AppliedKept, Zenon
<1>7. SkippedRight' /\ Len(skipped)' = m + 1
  BY <1>1, <1>2, <1>3, <1>5, SkippedGrows, Zenon
<1>8. CASE /\ id \in {0, 1, 2, 3}
           /\ access_right_reader' = p + 1 + Rights!Skip(id)
           /\ left' = left - 1 /\ at' = at /\ control' = control
  <2>1. Rights!Known(a) /\ a.type # "protection_domain_control" /\ Rights!Skip(id) = follow
    <3>1. id # 5 /\ id # 4
      BY <1>8
    <3> QED
      BY <1>4, <3>1, Zenon DEF FoundAt
  <2>2. KnownIn(m + 1) /\ ~ ControlIn(m + 1)
    BY <2>1, Zenon DEF KnownIn, ControlIn
  <2>3. access_right_reader' = After(m + 1)
    <3> DEFINE w == Len(Rights!Serialized(a))
    <3>1. access_right_reader' = p + 1 + (w - 1) /\ After(m + 1) = p + w /\ w \in Nat /\ p \in Nat
      BY <1>4, <1>8, <2>1, Zenon
    <3> HIDE DEF w, p
    <3> QED
      BY <3>1
  <2>4. left' = Len(table) - (m + 1)
    BY <1>2, <1>3, <1>8
  <2>5. ASSUME NEW n \in 1 .. m + 1 PROVE KnownIn(n) /\ ~ ControlIn(n)
    <3>1. n \in 1 .. m \/ n = m + 1
      BY <1>3
    <3> QED
      BY <1>2, <2>2, <3>1, Zenon
  <2>6. WalksControl'
    BY <1>6, <1>7, <2>3, <2>4, <2>5, Zenon DEF WalksControl
  <2> QED
    BY <1>1, <1>2, <1>6, <1>7, <1>8, <2>6 DEF Reading
<1>9. CASE id = 4 /\ control' = TRUE /\ at' = "loaded"
  <2>1. a.type = "protection_domain_control"
    <3>1. id # 5
      BY <1>9
    <3> QED
      BY <1>4, <1>9, <3>1, Zenon DEF FoundAt
  <2>2. ControlIn(m + 1)
    BY <2>1, Zenon DEF ControlIn
  <2>3. Answered'
    BY <1>3, <1>6, <1>9, <2>2, Zenon DEF Answered
  <2> QED
    BY <1>1, <1>2, <1>6, <1>7, <1>9, <2>3 DEF Reading
<1>10. CASE id > 4 /\ control' = FALSE /\ at' = "loaded"
  <2>1. ~ Rights!Known(a)
    <3>1. ~ (id \in 0 .. 4)
      BY <1>10
    <3> QED
      BY <1>4, <3>1, Zenon DEF FoundAt
  <2>2. ~ KnownIn(m + 1)
    BY <2>1, Zenon DEF KnownIn
  <2>3. Answered'
    BY <1>3, <1>6, <1>10, <2>2, Zenon DEF Answered
  <2> QED
    BY <1>1, <1>2, <1>6, <1>7, <1>10, <2>3 DEF Reading
<1>11. \/ /\ id \in {0, 1, 2, 3}
          /\ access_right_reader' = p + 1 + Rights!Skip(id)
          /\ left' = left - 1 /\ at' = at /\ control' = control
       \/ id = 4 /\ control' = TRUE /\ at' = "loaded"
       \/ id > 4 /\ control' = FALSE /\ at' = "loaded"
  BY <1>2, Zenon DEF Rights!ControlEntry, Rights!ControlReturns, Rights!SCHEDULING_ID,
     Rights!CHANNEL_ID, Rights!MEMORY_REGION_ID, Rights!IRQ_ID, Rights!PROTECTION_DOMAIN_CONTROL_ID
<1> QED
  BY <1>8, <1>9, <1>10, <1>11

LEMMA ControlEndReads == Reading /\ Rights!ControlEnd => Reading'
<1> SUFFICES ASSUME Reading, Rights!ControlEnd PROVE Reading'
  OBVIOUS
<1>1. /\ at = "control" /\ at' = "loaded" /\ left = 0 /\ control' = FALSE
      /\ UNCHANGED <<elf_file, table>> /\ skipped' = skipped /\ found' = found
      /\ applied' = applied
  BY DEF Rights!ControlEnd, Rights!ControlReturns
<1>2. /\ Stored /\ SkippedRight /\ FoundRight /\ AppliedRight
      /\ found = <<>> /\ applied = <<>> /\ WalksControl
  BY <1>1, Zenon DEF Reading
<1>3. /\ Stored' /\ SkippedRight' /\ FoundRight' /\ AppliedRight' /\ Entries' = Entries
      /\ \A n : KnownIn(n)' = KnownIn(n) /\ ControlIn(n)' = ControlIn(n)
  BY <1>1, <1>2, FileKept, SkippedKept, FoundKept, AppliedKept, Zenon
<1>4. Len(skipped) = Len(table)
  BY <1>1, <1>2, EntryFacts DEF WalksControl, SkippedRight
<1>5. \A n \in Entries : ~ ControlIn(n)
  BY <1>2, <1>4, Zenon DEF WalksControl, Entries
<1>6. Answered'
  BY <1>1, <1>3, <1>5, Zenon DEF Answered
<1> QED
  BY <1>1, <1>2, <1>3, <1>6 DEF Reading

LEMMA SetUpEntryReads == Reading /\ Rights!SetUpEntry => Reading'
<1> SUFFICES ASSUME Reading, Rights!SetUpEntry PROVE Reading'
  OBVIOUS
<1> DEFINE m == Len(applied)
           p == After(m)
           id == Rights!Byte(p)
           a == table[m + 1]
           d == Rights!Decoded(id, p + 1)
<1>1. at = "set_up" /\ left > 0 /\ UNCHANGED <<elf_file, table>>
      /\ skipped' = skipped /\ control' = control
  BY DEF Rights!SetUpEntry
<1>2. /\ Stored /\ SkippedRight /\ FoundRight /\ AppliedRight /\ control \in BOOLEAN
      /\ left = Len(table) - m /\ access_right_reader = p /\ Len(found) = m
      /\ Answered
  BY <1>1, Zenon DEF Reading, WalksSetUp
<1>3. m \in Nat /\ Len(table) \in Nat /\ m + 1 \in Entries /\ (m + 1) - 1 = m
      /\ Len(found) + 1 \in Entries /\ m < Len(table)
  BY <1>1, <1>2, EntryFacts DEF AppliedRight, Entries
<1>4. FoundAt(p, a) /\ After(m + 1) = p + Len(Rights!Serialized(a)) /\ p \in Nat
      /\ Len(Rights!Serialized(a)) \in Nat
  BY <1>2, <1>3, EntryFacts, Zenon
<1>5. found' = Append(found, After(Len(found)))
  BY <1>2, Zenon DEF Rights!SetUpEntry
<1>6. /\ Stored' /\ SkippedRight' /\ Answered' /\ Len(table)' = Len(table)
      /\ \A n : After(n)' = After(n) /\ KnownIn(n)' = KnownIn(n)
  BY <1>1, <1>2, FileKept, SkippedKept, AnsweredKept, Zenon
<1>7. FoundRight' /\ Len(found)' = m + 1
  BY <1>1, <1>2, <1>3, <1>5, FoundGrows, Zenon
<1>8. CASE /\ id <= 4
           /\ applied' = Append(applied, d.entry)
           /\ access_right_reader' = p + 1 + d.bytes
           /\ left' = left - 1 /\ at' = at
  <2>1. Rights!Known(a) /\ d = [entry |-> Rights!Asked(a), bytes |-> Len(Rights!Serialized(a)) - 1]
    <3>1. id # 5
      BY <1>8
    <3> QED
      BY <1>4, <3>1, Zenon DEF FoundAt
  <2>2. d.entry = Rights!Asked(a) /\ d.bytes = Len(Rights!Serialized(a)) - 1
    <3> HIDE DEF d
    <3> QED
      BY <2>1
  <2>3. KnownIn(m + 1)
    BY <2>1, Zenon DEF KnownIn
  <2>4. AppliedRight' /\ Len(applied)' = m + 1
    BY <1>1, <1>2, <1>3, <1>8, <2>2, <2>3, AppliedGrows, Zenon
  <2>5. access_right_reader' = After(m + 1)
    <3> DEFINE w == Len(Rights!Serialized(a))
    <3>1. access_right_reader' = p + 1 + (w - 1) /\ After(m + 1) = p + w /\ w \in Nat /\ p \in Nat
      BY <1>4, <1>8, <2>2, Zenon
    <3> HIDE DEF w, p
    <3> QED
      BY <3>1
  <2>6. left' = Len(table) - (m + 1)
    BY <1>2, <1>3, <1>8
  <2>7. WalksSetUp'
    BY <1>6, <1>7, <2>4, <2>5, <2>6, Zenon DEF WalksSetUp
  <2> QED
    BY <1>1, <1>2, <1>6, <1>7, <1>8, <2>4, <2>7 DEF Reading
<1>9. CASE id > 4 /\ at' = "refused" /\ applied' = applied
  <2>1. ~ Rights!Known(a)
    <3>1. ~ (id \in 0 .. 4)
      BY <1>9
    <3> QED
      BY <1>4, <3>1, Zenon DEF FoundAt
  <2>2. ~ KnownIn(m + 1)
    BY <2>1, Zenon DEF KnownIn
  <2>3. AppliedRight' /\ Len(applied)' = m /\ m < Len(table) /\ ~ KnownIn(m + 1)'
    BY <1>1, <1>2, <1>3, <1>6, <1>9, <2>2, AppliedKept, Zenon
  <2>4. Len(applied)' < Len(table)' /\ ~ KnownIn(Len(applied) + 1)'
    BY <1>6, <1>9, <2>2, <2>3, Zenon
  <2> QED
    BY <1>1, <1>2, <1>6, <1>7, <1>9, <2>3, <2>4 DEF Reading
<1>10. \/ /\ id <= 4
          /\ applied' = Append(applied, d.entry)
          /\ access_right_reader' = p + 1 + d.bytes
          /\ left' = left - 1 /\ at' = at
       \/ id > 4 /\ at' = "refused" /\ applied' = applied
  BY <1>2, Zenon DEF Rights!SetUpEntry, Rights!PROTECTION_DOMAIN_CONTROL_ID
<1> QED
  BY <1>8, <1>9, <1>10

LEMMA SetUpEndReads == Reading /\ Rights!SetUpEnd => Reading'
<1> SUFFICES ASSUME Reading, Rights!SetUpEnd PROVE Reading'
  OBVIOUS
<1>1. /\ at = "set_up" /\ at' = "done" /\ left = 0 /\ UNCHANGED <<elf_file, table>>
      /\ access_right_reader' = access_right_reader /\ control' = control
      /\ skipped' = skipped /\ found' = found /\ applied' = applied
  BY DEF Rights!SetUpEnd
<1>2. /\ Stored /\ SkippedRight /\ FoundRight /\ AppliedRight /\ control \in BOOLEAN
      /\ Answered /\ WalksSetUp
  BY <1>1, Zenon DEF Reading
<1>3. /\ Stored' /\ SkippedRight' /\ FoundRight' /\ AppliedRight' /\ Answered'
      /\ Len(table)' = Len(table) /\ \A n : After(n)' = After(n)
  BY <1>1, <1>2, FileKept, SkippedKept, FoundKept, AppliedKept, AnsweredKept, Zenon
<1>4. Len(applied) = Len(table)
  BY <1>1, <1>2, EntryFacts DEF WalksSetUp, AppliedRight
<1>5. access_right_reader = After(Len(table))
  BY <1>2, <1>4, Zenon DEF WalksSetUp
<1>6. Len(applied)' = Len(table)' /\ access_right_reader' = After(Len(table))'
  BY <1>1, <1>3, <1>4, <1>5, Zenon
<1> QED
  BY <1>1, <1>2, <1>3, <1>6 DEF Reading
LEMMA StutterReads == Reading /\ UNCHANGED rights_vars => Reading'
<1> SUFFICES ASSUME Reading, UNCHANGED rights_vars PROVE Reading'
  OBVIOUS
<1>1. /\ elf_file' = elf_file /\ table' = table /\ access_right_reader' = access_right_reader
      /\ left' = left /\ control' = control /\ skipped' = skipped /\ found' = found
      /\ applied' = applied /\ at' = at
  BY DEF rights_vars
<1>2. Stored /\ SkippedRight /\ FoundRight /\ AppliedRight
  BY Zenon DEF Reading
<1>3. /\ Stored' /\ SkippedRight' /\ FoundRight' /\ AppliedRight' /\ Len(table)' = Len(table)
      /\ \A n : After(n)' = After(n) /\ KnownIn(n)' = KnownIn(n) /\ ControlIn(n)' = ControlIn(n)
  BY <1>1, <1>2, FileKept, SkippedKept, FoundKept, AppliedKept, Zenon
<1>4. /\ Answered => Answered'
      /\ WalksControl => WalksControl'
      /\ WalksSetUp => WalksSetUp'
  <2>1. Answered => Answered'
    BY <1>1, <1>2, AnsweredKept, Zenon
  <2>2. WalksControl => WalksControl'
    BY <1>1, <1>3, Zenon DEF WalksControl
  <2>3. WalksSetUp => WalksSetUp'
    BY <1>1, <1>3, Zenon DEF WalksSetUp
  <2> QED
    BY <2>1, <2>2, <2>3
<1> QED
  BY <1>1, <1>3, <1>4, Zenon DEF Reading

LEMMA FileStepReads == Reading /\ [FileNext]_<<vars, rights_vars>> => Reading'
<1> SUFFICES ASSUME Reading, [FileNext]_<<vars, rights_vars>> PROVE Reading'
  OBVIOUS
<1>1. CASE ReadControl
  BY <1>1, BeginControlReads, ControlEntryReads, ControlEndReads DEF ReadControl
<1>2. CASE LoadElf
  BY <1>2, StutterReads DEF LoadElf
<1>3. CASE SetUpAccessRights
  BY <1>3, BeginSetUpReads, SetUpEntryReads, SetUpEndReads DEF SetUpAccessRights
<1>4. CASE UNCHANGED <<vars, rights_vars>>
  BY <1>4, StutterReads
<1> QED
  BY <1>1, <1>2, <1>3, <1>4 DEF FileNext

LEMMA AlwaysReading == FileSpec => []Reading
<1>1. FileInit => Reading
  BY InitReads DEF FileInit
<1> QED
  BY <1>1, FileStepReads, PTL DEF FileSpec

\* What the invariant shows.
LEMMA ReadingApplies == Reading => AppliesTable
<1> SUFFICES ASSUME Reading PROVE AppliesTable
  OBVIOUS
<1>1. Stored /\ AppliedRight /\ Len(table) \in Nat
  BY EntryFacts, Zenon DEF Reading
<1>2. DOMAIN applied = 1 .. Len(applied) /\ DOMAIN table = 1 .. Len(table)
  <2>1. table \in Seq(Rights!AccessRight) /\ applied \in Seq(AskedFor)
    BY <1>1, StoredFacts, Zenon DEF AppliedRight
  <2> QED
    BY <2>1
<1>3. \A n \in DOMAIN applied : applied[n] = Rights!Asked(table[n])
  BY <1>1, <1>2, Zenon DEF AppliedRight
<1>4. ASSUME at = "done"
      PROVE  Len(applied) = Len(table) /\ \A n \in DOMAIN table : Rights!Known(table[n])
  <2>1. Len(applied) = Len(table)
    BY <1>4, Zenon DEF Reading
  <2> QED
    BY <1>1, <1>2, <2>1, Zenon DEF AppliedRight, KnownIn
<1>5. at = "refused" => ~ Rights!Known(table[Len(applied) + 1])
  BY Zenon DEF Reading, KnownIn
<1> QED
  BY <1>3, <1>4, <1>5, Zenon DEF AppliesTable, Rights!AppliesTable

LEMMA ReadingAnswers == Reading => ControlAsListed
<1> SUFFICES ASSUME Reading, at = "done"
             PROVE  control <=> \E n \in DOMAIN table : table[n].type = "protection_domain_control"
  BY DEF ControlAsListed, Rights!ControlAsListed
<1>1. Stored /\ Answered /\ AppliesTable /\ control \in BOOLEAN
  BY ReadingApplies, Zenon DEF Reading
<1>2. DOMAIN table = Entries
  <2>1. table \in Seq(Rights!AccessRight)
    BY <1>1, StoredFacts, Zenon
  <2> QED
    BY <2>1 DEF Entries
<1>3. \A n \in Entries : KnownIn(n)
  BY <1>1, <1>2, Zenon DEF AppliesTable, Rights!AppliesTable, KnownIn
<1> QED
  BY <1>1, <1>2, <1>3, Zenon DEF Answered, ControlIn

LEMMA ReadingStays == Reading => StaysInFile
<1> SUFFICES ASSUME Reading PROVE StaysInFile
  OBVIOUS
<1>1. Stored /\ SkippedRight /\ FoundRight
  BY Zenon DEF Reading
<1>2. Len(table) \in Nat /\ \A n \in Entries : After(n - 1) \in DOMAIN elf_file
  BY <1>1, EntryFacts, Zenon
<1>3. ASSUME NEW n \in DOMAIN skipped PROVE skipped[n] \in DOMAIN elf_file
  <2>1. n \in 1 .. Len(skipped) /\ n \in Entries
    BY <1>1, <1>2 DEF SkippedRight, Entries
  <2> QED
    BY <1>1, <1>2, <2>1, Zenon DEF SkippedRight
<1>4. ASSUME NEW n \in DOMAIN found PROVE found[n] \in DOMAIN elf_file
  <2>1. n \in 1 .. Len(found) /\ n \in Entries
    BY <1>1, <1>2 DEF FoundRight, Entries
  <2> QED
    BY <1>1, <1>2, <2>1, Zenon DEF FoundRight
<1>5. at = "done" => /\ access_right_reader - 1 \in DOMAIN elf_file
                     /\ access_right_reader \notin DOMAIN elf_file
  BY <1>1, EntryFacts, Zenon DEF Reading
<1> QED
  BY <1>3, <1>4, <1>5, Zenon DEF StaysInFile, Rights!StaysInFile

\* Each access right is applied as it was asked for, in the order of the table,
\* and none besides; only an entry that is not known ends the table before its
\* last (set_up_access_rights), for every table that the patcher can write.
THEOREM AlwaysAppliesTable == FileSpec => []AppliesTable
  BY AlwaysReading, ReadingApplies, PTL

\* has_protection_domain_control_access_right answers as the table says, for
\* every table that the second reader accepts.
THEOREM AlwaysControlAsListed == FileSpec => []ControlAsListed
  BY AlwaysReading, ReadingAnswers, PTL

\* Neither reader leaves the file, and the one that goes to the end of the table
\* ends at the end of the file.
THEOREM AlwaysStaysInFile == FileSpec => []StaysInFile
  BY AlwaysReading, ReadingStays, PTL
=============================================================================
