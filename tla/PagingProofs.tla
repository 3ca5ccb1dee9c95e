------------------------------ MODULE PagingProofs ------------------------------
(***************************************************************************)
(* The safety properties of Paging, for any number of processes, pages,    *)
(* frames and TLB entries.                                                 *)
(*                                                                         *)
(* The invariant is stated on a view of the virtual memory: the process c  *)
(* that runs, the set L of live processes, the page tables P, the free     *)
(* list Q, the TLB with the frames and the window (m, as in Paging), what  *)
(* the programs stored (H) and the set F of pages that are being read from *)
(* the executable.  Each routine of the kernel gets one lemma: it takes a  *)
(* right view to a right view.  An action of Paging is then one or two of  *)
(* these routines, and what it does to the processes besides.              *)
(***************************************************************************)
EXTENDS Paging, Facts

TlbEntry == [virt : Pages \cup {Outside}, phys : Frames \cup {NoFrame},
             prot : {{}, {"r"}, {"r", "x"}, {"r", "w"}}]
Machine  == [tlb : [1 .. TlbSize -> TlbEntry], frame : [Frames -> Nat],
             window : [Pages -> Nat]]

ViewType(c, L, P, Q, m, H, F) ==
    /\ c \in Procs \cup {Kernel} /\ L \in SUBSET Procs
    /\ P \in [Procs -> [Pages -> Frames \cup {NoFrame}]]
    /\ Q \in Seq(Frames)
    /\ m \in Machine
    /\ H \in [Procs -> [Pages -> Nat]]
    /\ F \in SUBSET (Procs \X Pages)

\* A frame is one page of one live process, or is free, once.
FramesApart(L, P, Q) ==
    /\ \A p, q \in L : \A g, h \in Pages :
          P[p][g] = P[q][h] /\ P[p][g] # NoFrame => p = q /\ g = h
    /\ Distinct(Q)
    /\ \A p \in L : \A g \in Pages : ~Has(Q, P[p][g])
FramesFound(L, P, Q) ==
    \A f \in Frames : \/ Has(Q, f)
                      \/ \E p \in L : \E g \in Pages : P[p][g] = f

Mapped(m, i) == m.tlb[i].phys # NoFrame

\* An entry maps a page of the current process to its frame.  A page that is
\* not writable is the same in the window and in its frame.
EntriesRight(c, L, P, m) ==
    /\ \A i \in 1 .. TlbSize : Mapped(m, i) =>
          /\ c \in L /\ m.tlb[i].virt \in Pages
          /\ P[c][m.tlb[i].virt] = m.tlb[i].phys
          /\ m.tlb[i].prot # {}
          /\ "w" \notin m.tlb[i].prot => m.frame[m.tlb[i].phys] = m.window[m.tlb[i].virt]
    /\ \A i \in 1 .. TlbSize : ~Mapped(m, i) => m.tlb[i] = NoEntry
    /\ \A i, j \in 1 .. TlbSize :
          Mapped(m, i) /\ Mapped(m, j) /\ m.tlb[i].virt = m.tlb[j].virt => i = j

FetchRight(c, L, P, m, F) ==
    \A x \in F : /\ x[1] \in L /\ P[x[1]][x[2]] # NoFrame
                 /\ c = x[1] => Entries(m.tlb, x[2]) = {}

\* What page g of p holds in this view.
Holds(c, P, m, F, p, g) ==
    IF c = p /\ Entries(m.tlb, g) # {} THEN m.window[g]
    ELSE IF P[p][g] = NoFrame \/ <<p, g>> \in F THEN Image(p, g)
    ELSE m.frame[P[p][g]]

ContentsRight(c, L, P, m, H, F) ==
    \A p \in L : \A g \in Pages : Holds(c, P, m, F, p, g) = H[p][g]

ViewRight(c, L, P, Q, m, H, F) ==
    /\ ViewType(c, L, P, Q, m, H, F)
    /\ FramesApart(L, P, Q) /\ FramesFound(L, P, Q)
    /\ EntriesRight(c, L, P, m)
    /\ FetchRight(c, L, P, m, F)
    /\ ContentsRight(c, L, P, m, H, F)

-----------------------------------------------------------------------------
(* Constants.                                                              *)

\* The numbers that stand for processes, pages and frames.
LEMMA NumbersOK ==
    ASSUME PagingConstants
    PROVE  /\ Procs \subseteq Nat /\ Kernel \notin Procs /\ Kernel \in Nat
           /\ Pages \subseteq Nat /\ Outside \notin Pages
           /\ NFrames \in Nat /\ Frames \subseteq Nat /\ NoFrame \notin Frames
           /\ TlbSize \in Nat /\ TlbSize > 0 /\ Stack \in Bss /\ Stack \in Pages
           /\ IsFiniteSet(Pages)
  BY DEF PagingConstants, Kernel, Outside, NoFrame, Frames, Pages

\* The contents of the executable are numbers.
LEMMA ImageNat ==
    ASSUME PagingConstants, NEW p \in Procs, NEW g \in Pages
    PROVE  Image(p, g) \in Nat
  BY NumbersOK DEF Image

-----------------------------------------------------------------------------
(* The TLB.                                                                *)

\* n is m with the entries of S synced.
Synced(m, S, n) ==
    /\ n \in Machine /\ n.tlb = m.tlb /\ n.window = m.window
    /\ \A i \in S : Mapped(m, i) /\ "w" \in m.tlb[i].prot =>
          n.frame[m.tlb[i].phys] = m.window[m.tlb[i].virt]
    /\ \A f \in Frames : Writers(m, S, f) = {} => n.frame[f] = m.frame[f]

\* tlb_sync_entry: the frames of the writable entries of S get what the window
\* holds, the other frames stay.
LEMMA SyncFacts ==
    ASSUME PagingConstants,
           NEW c, NEW L, NEW P, NEW Q, NEW m, NEW H, NEW F, ViewRight(c, L, P, Q, m, H, F),
           NEW S \in SUBSET (1 .. TlbSize)
    PROVE  Synced(m, S, tlb_sync_entry(m, S))
<1> DEFINE n == tlb_sync_entry(m, S)
<1>0. m \in Machine /\ m.tlb \in [1 .. TlbSize -> TlbEntry] /\ m.frame \in [Frames -> Nat]
      /\ m.window \in [Pages -> Nat]
  BY DEF ViewRight, ViewType, Machine
<1>1. \A i \in S : m.tlb[i] \in TlbEntry
  BY <1>0
<1>2. ASSUME NEW f \in Frames, NEW i \in Writers(m, S, f)
      PROVE  Writers(m, S, f) = {i} /\ Max(Writers(m, S, f)) = i /\ m.tlb[i].virt \in Pages
  <2>0. i \in S /\ m.tlb[i].phys = f
    BY DEF Writers
  <2>1. i \in 1 .. TlbSize /\ i \in Int /\ m.tlb[i].phys = f /\ f # NoFrame
    <3>1. f # NoFrame /\ TlbSize \in Nat
      BY NumbersOK
    <3>2. QED
      BY <2>0, <3>1
  <2>2. ASSUME NEW j \in Writers(m, S, f) PROVE j = i
    <3>1. j \in 1 .. TlbSize /\ m.tlb[j].phys = f
      BY DEF Writers
    <3>2. c \in L /\ m.tlb[i].virt \in Pages /\ m.tlb[j].virt \in Pages
          /\ P[c][m.tlb[i].virt] = f /\ P[c][m.tlb[j].virt] = f
      BY <2>1, <3>1 DEF ViewRight, EntriesRight, Mapped
    <3>3. m.tlb[i].virt = m.tlb[j].virt
      BY <2>1, <3>2 DEF ViewRight, FramesApart
    <3>4. QED
      BY <2>1, <3>1, <3>3 DEF ViewRight, EntriesRight, Mapped
  <2>3. Writers(m, S, f) = {i}
    BY <2>2
  <2>4. Max({i}) = i
    BY <2>1 DEF Max
  <2>5. m.tlb[i].virt \in Pages
    BY <2>1 DEF ViewRight, EntriesRight, Mapped
  <2>6. QED
    BY <2>3, <2>4, <2>5
<1> DEFINE g == [f \in Frames |-> LET W == Writers(m, S, f)
                                  IN  IF W = {} THEN m.frame[f]
                                      ELSE m.window[m.tlb[Max(W)].virt]]
<1>3. ASSUME NEW f \in Frames PROVE g[f] \in Nat
  <2>1. CASE Writers(m, S, f) = {}
    BY <1>0, <2>1
  <2>2. CASE Writers(m, S, f) # {}
    <3>1. PICK i : i \in Writers(m, S, f)
      BY <2>2
    <3>2. g[f] = m.window[m.tlb[i].virt] /\ m.tlb[i].virt \in Pages
      BY <2>2, <3>1, <1>2
    <3>3. QED
      BY <1>0, <3>2
  <2>3. QED
    BY <2>1, <2>2
<1>4. g \in [Frames -> Nat]
  BY <1>3
<1>5. ASSUME NEW i \in S, Mapped(m, i), "w" \in m.tlb[i].prot
      PROVE  g[m.tlb[i].phys] = m.window[m.tlb[i].virt]
  <2>1. m.tlb[i].phys \in Frames /\ i \in Writers(m, S, m.tlb[i].phys)
    BY <1>1, <1>5 DEF TlbEntry, Mapped, Writers
  <2>2. Writers(m, S, m.tlb[i].phys) # {} /\ Max(Writers(m, S, m.tlb[i].phys)) = i
    BY <2>1, <1>2
  <2>3. QED
    BY <2>1, <2>2
<1>6. \A f \in Frames : Writers(m, S, f) = {} => g[f] = m.frame[f]
  OBVIOUS
<1>7. n = [m EXCEPT !.frame = g]
  BY DEF tlb_sync_entry
<1> HIDE DEF n, g
<1>8. n \in Machine /\ n.tlb = m.tlb /\ n.window = m.window /\ n.frame = g
  BY <1>0, <1>4, <1>7 DEF Machine
<1>9. Synced(m, S, n)
  BY <1>5, <1>6, <1>8 DEF Synced
<1>10. QED
  BY <1>9 DEF n

\* Frames that no entry of S maps writable stay.
LEMMA SyncSpares ==
    ASSUME PagingConstants,
           NEW c, NEW L, NEW P, NEW Q, NEW m, NEW H, NEW F, ViewRight(c, L, P, Q, m, H, F),
           NEW S \in SUBSET (1 .. TlbSize), NEW n, Synced(m, S, n),
           NEW p \in L, NEW g \in Pages, P[p][g] # NoFrame,
           \A i \in S : Mapped(m, i) /\ "w" \in m.tlb[i].prot =>
                           ~(p = c /\ m.tlb[i].virt = g)
    PROVE  n.frame[P[p][g]] = m.frame[P[p][g]]
<1>1. P[p][g] \in Frames /\ p \in Procs
  BY DEF ViewRight, ViewType
<1>2. Writers(m, S, P[p][g]) = {}
  <2> SUFFICES ASSUME NEW i \in Writers(m, S, P[p][g]) PROVE FALSE
    OBVIOUS
  <2>1. i \in S /\ i \in 1 .. TlbSize /\ m.tlb[i].phys = P[p][g] /\ Mapped(m, i)
        /\ "w" \in m.tlb[i].prot
    BY DEF Writers, Mapped
  <2>2. c \in L /\ m.tlb[i].virt \in Pages /\ P[c][m.tlb[i].virt] = P[p][g]
    BY <2>1 DEF ViewRight, EntriesRight
  <2>3. c = p /\ m.tlb[i].virt = g
    BY <2>2 DEF ViewRight, FramesApart
  <2>4. QED
    BY <2>1, <2>3
<1>3. QED
  BY <1>1, <1>2 DEF Synced

\* tlb_sync, tlb_sync_entry: nothing that a process sees changes.
LEMMA SyncKeeps ==
    ASSUME PagingConstants,
           NEW c, NEW L, NEW P, NEW Q, NEW m, NEW H, NEW F, ViewRight(c, L, P, Q, m, H, F),
           NEW S \in SUBSET (1 .. TlbSize)
    PROVE  ViewRight(c, L, P, Q, tlb_sync_entry(m, S), H, F)
<1> DEFINE n == tlb_sync_entry(m, S)
<1>1. Synced(m, S, n)
  BY SyncFacts
<1> HIDE DEF n
<1>2. n \in Machine /\ n.tlb = m.tlb /\ n.window = m.window
  BY <1>1 DEF Synced
<1>3. ViewType(c, L, P, Q, n, H, F)
  BY <1>2 DEF ViewRight, ViewType
<1>4. ASSUME NEW i \in 1 .. TlbSize, Mapped(m, i), "w" \notin m.tlb[i].prot
      PROVE  n.frame[m.tlb[i].phys] = m.window[m.tlb[i].virt]
  <2>1. c \in L /\ m.tlb[i].virt \in Pages /\ P[c][m.tlb[i].virt] = m.tlb[i].phys
        /\ m.frame[m.tlb[i].phys] = m.window[m.tlb[i].virt]
    BY <1>4 DEF ViewRight, EntriesRight
  <2>2. P[c][m.tlb[i].virt] # NoFrame
    BY <1>4, <2>1 DEF Mapped
  <2>3. \A j \in S : Mapped(m, j) /\ "w" \in m.tlb[j].prot => m.tlb[j].virt # m.tlb[i].virt
    BY <1>4 DEF ViewRight, EntriesRight
  <2>4. n.frame[P[c][m.tlb[i].virt]] = m.frame[P[c][m.tlb[i].virt]]
    BY <1>1, <2>1, <2>2, <2>3, SyncSpares
  <2>5. QED
    BY <2>1, <2>4
<1>5. EntriesRight(c, L, P, n)
  BY <1>2, <1>4 DEF ViewRight, EntriesRight, Mapped
<1>6. FetchRight(c, L, P, n, F)
  BY <1>2 DEF ViewRight, FetchRight
<1>7. ASSUME NEW p \in L, NEW g \in Pages
      PROVE  Holds(c, P, n, F, p, g) = Holds(c, P, m, F, p, g)
  <2>1. CASE (c = p /\ Entries(m.tlb, g) # {}) \/ P[p][g] = NoFrame \/ <<p, g>> \in F
    BY <1>2, <2>1 DEF Holds
  <2>2. CASE ~(c = p /\ Entries(m.tlb, g) # {}) /\ P[p][g] # NoFrame /\ <<p, g>> \notin F
    <3>1. \A i \in S : Mapped(m, i) => ~(p = c /\ m.tlb[i].virt = g)
      BY <2>2 DEF Entries, Mapped
    <3>2. n.frame[P[p][g]] = m.frame[P[p][g]]
      BY <1>1, <2>2, <3>1, SyncSpares
    <3>3. QED
      BY <1>2, <2>2, <3>2 DEF Holds
  <2>3. QED
    BY <2>1, <2>2
<1>8. ContentsRight(c, L, P, n, H, F)
  BY <1>7 DEF ViewRight, ContentsRight
<1>9. ViewRight(c, L, P, Q, n, H, F)
  BY <1>3, <1>5, <1>6, <1>8 DEF ViewRight
<1>10. QED
  BY <1>9 DEF n

\* tlb_flush_entry, tlb_flush, tlb_unmap: what was in the window is in the
\* frames.
LEMMA FlushKeeps ==
    ASSUME PagingConstants,
           NEW c, NEW L, NEW P, NEW Q, NEW m, NEW H, NEW F, ViewRight(c, L, P, Q, m, H, F),
           NEW S \in SUBSET (1 .. TlbSize)
    PROVE  /\ ViewRight(c, L, P, Q, tlb_flush_entry(m, S), H, F)
           /\ tlb_flush_entry(m, S).window = m.window
           /\ \A i \in 1 .. TlbSize : tlb_flush_entry(m, S).tlb[i] =
                 IF i \in S /\ Mapped(m, i) THEN NoEntry ELSE m.tlb[i]
<1> DEFINE s == tlb_sync_entry(m, S)
           n == tlb_flush_entry(m, S)
           t == [i \in 1 .. TlbSize |->
                    IF i \in S /\ m.tlb[i].phys # NoFrame THEN NoEntry ELSE m.tlb[i]]
<1>1. Synced(m, S, s) /\ ViewRight(c, L, P, Q, s, H, F)
  BY SyncFacts, SyncKeeps
<1>2. n = [s EXCEPT !.tlb = t]
  BY DEF tlb_flush_entry
<1>3. \A i \in 1 .. TlbSize : t[i] = IF i \in S /\ Mapped(m, i) THEN NoEntry ELSE m.tlb[i]
  BY DEF Mapped
<1>4. NoEntry \in TlbEntry /\ NoEntry.phys = NoFrame
  BY DEF NoEntry, TlbEntry
<1>5. m.tlb \in [1 .. TlbSize -> TlbEntry]
  BY DEF ViewRight, ViewType, Machine
<1>6. t \in [1 .. TlbSize -> TlbEntry]
  BY <1>4, <1>5
<1> HIDE DEF n, s, t
<1>7. s \in Machine /\ s.tlb = m.tlb /\ s.window = m.window
  BY <1>1 DEF Synced
<1>8. n \in Machine /\ n.tlb = t /\ n.window = m.window /\ n.frame = s.frame
  BY <1>2, <1>6, <1>7 DEF Machine
<1>9. \A i \in 1 .. TlbSize : Mapped(n, i) => Mapped(m, i) /\ n.tlb[i] = m.tlb[i] /\ i \notin S
  BY <1>3, <1>4, <1>8 DEF Mapped
<1>10. \A i \in 1 .. TlbSize : Mapped(m, i) /\ ~Mapped(n, i) => i \in S
  BY <1>3, <1>8 DEF Mapped
<1>11. \A i \in 1 .. TlbSize : ~Mapped(n, i) => n.tlb[i] = NoEntry
  BY <1>3, <1>8 DEF Mapped, ViewRight, EntriesRight
<1>12. EntriesRight(c, L, P, n)
  <2>1. ASSUME NEW i \in 1 .. TlbSize, Mapped(n, i)
        PROVE  /\ c \in L /\ n.tlb[i].virt \in Pages
               /\ P[c][n.tlb[i].virt] = n.tlb[i].phys
               /\ n.tlb[i].prot # {}
               /\ "w" \notin n.tlb[i].prot => n.frame[n.tlb[i].phys] = n.window[n.tlb[i].virt]
    <3>1. Mapped(s, i) /\ n.tlb[i] = s.tlb[i]
      BY <1>7, <1>9, <2>1 DEF Mapped
    <3>2. QED
      BY <3>1, <1>1, <1>7, <1>8 DEF ViewRight, EntriesRight
  <2>2. ASSUME NEW i \in 1 .. TlbSize, NEW j \in 1 .. TlbSize,
               Mapped(n, i), Mapped(n, j), n.tlb[i].virt = n.tlb[j].virt
        PROVE  i = j
    BY <2>2, <1>9 DEF ViewRight, EntriesRight
  <2>3. QED
    BY <2>1, <2>2, <1>11 DEF EntriesRight
<1>13. ASSUME NEW g \in Pages PROVE Entries(n.tlb, g) \subseteq Entries(m.tlb, g)
  BY <1>9 DEF Entries, Mapped
<1>14. FetchRight(c, L, P, n, F)
  <2> SUFFICES ASSUME NEW x \in F
               PROVE  /\ x[1] \in L /\ P[x[1]][x[2]] # NoFrame
                      /\ c = x[1] => Entries(n.tlb, x[2]) = {}
    BY DEF FetchRight
  <2>1. x[2] \in Pages
    BY DEF ViewRight, ViewType
  <2>2. /\ x[1] \in L /\ P[x[1]][x[2]] # NoFrame
        /\ c = x[1] => Entries(m.tlb, x[2]) = {}
    BY DEF ViewRight, FetchRight
  <2>3. QED
    BY <2>1, <2>2, <1>13
<1>15. ASSUME NEW p \in L, NEW g \in Pages
       PROVE  Holds(c, P, n, F, p, g) = Holds(c, P, s, F, p, g)
  <2>1. CASE ~(c = p /\ Entries(m.tlb, g) # {})
    BY <2>1, <1>7, <1>8, <1>13 DEF Holds
  <2>2. CASE c = p /\ Entries(m.tlb, g) # {} /\ Entries(n.tlb, g) # {}
    BY <2>2, <1>7, <1>8 DEF Holds
  <2>3. CASE c = p /\ Entries(m.tlb, g) # {} /\ Entries(n.tlb, g) = {}
    <3>1. PICK i \in 1 .. TlbSize : m.tlb[i].virt = g /\ Mapped(m, i)
      BY <2>3 DEF Entries, Mapped
    <3>2. ~Mapped(n, i)
      BY <3>1, <2>3, <1>9 DEF Entries, Mapped
    <3>3. i \in S
      BY <3>1, <3>2, <1>10
    <3>4. Mapped(s, i) /\ s.tlb[i].virt = g
      BY <3>1, <1>7 DEF Mapped
    <3>5. P[c][g] = s.tlb[i].phys /\ P[c][g] # NoFrame
      BY <3>4, <1>1 DEF ViewRight, EntriesRight, Mapped
    <3>6. <<p, g>> \notin F
      BY <2>3 DEF ViewRight, FetchRight
    <3>7. s.frame[P[c][g]] = s.window[g]
      <4>1. CASE "w" \in m.tlb[i].prot
        BY <4>1, <3>1, <3>3, <3>5, <1>1, <1>7 DEF Synced
      <4>2. CASE "w" \notin m.tlb[i].prot
        BY <4>2, <3>4, <3>5, <1>1, <1>7 DEF ViewRight, EntriesRight
      <4>3. QED
        BY <4>1, <4>2
    <3>8. Holds(c, P, n, F, p, g) = s.frame[P[c][g]]
      BY <2>3, <3>5, <3>6, <1>8 DEF Holds
    <3>9. Holds(c, P, s, F, p, g) = s.window[g]
      BY <2>3, <1>7 DEF Holds
    <3>10. QED
      BY <3>7, <3>8, <3>9
  <2>4. QED
    BY <2>1, <2>2, <2>3
<1>16. ContentsRight(c, L, P, n, H, F)
  BY <1>1, <1>15 DEF ViewRight, ContentsRight
<1>17. ViewType(c, L, P, Q, n, H, F)
  BY <1>8 DEF ViewRight, ViewType
<1>18. ViewRight(c, L, P, Q, n, H, F)
  BY <1>12, <1>14, <1>16, <1>17 DEF ViewRight
<1>19. QED
  BY <1>18, <1>3, <1>8 DEF n

\* proc_after_switch: with the TLB empty any process may run next.
LEMMA SwitchKeeps ==
    ASSUME PagingConstants,
           NEW c, NEW L, NEW P, NEW Q, NEW m, NEW H, NEW F, ViewRight(c, L, P, Q, m, H, F),
           NEW d \in Procs \cup {Kernel}
    PROVE  ViewRight(d, L, P, Q, tlb_flush(m), H, F)
<1> DEFINE S == 1 .. TlbSize
           n == tlb_flush_entry(m, S)
<1>0. S \in SUBSET (1 .. TlbSize) /\ tlb_flush(m) = n
  BY DEF tlb_flush
<1> HIDE DEF S
<1>1. ViewRight(c, L, P, Q, n, H, F)
      /\ \A i \in 1 .. TlbSize : n.tlb[i] = IF i \in S /\ Mapped(m, i) THEN NoEntry ELSE m.tlb[i]
  BY <1>0, FlushKeeps
<1> HIDE DEF n
<1>2. \A i \in 1 .. TlbSize : ~Mapped(n, i)
  BY <1>1 DEF Mapped, NoEntry, S
<1>3. \A g : Entries(n.tlb, g) = {}
  BY <1>2 DEF Entries, Mapped
<1>4. ViewType(d, L, P, Q, n, H, F)
  BY <1>1 DEF ViewRight, ViewType
<1>5. EntriesRight(d, L, P, n)
  BY <1>1, <1>2 DEF ViewRight, EntriesRight
<1>6. FetchRight(d, L, P, n, F)
  BY <1>1, <1>3 DEF ViewRight, FetchRight
<1>7. ContentsRight(d, L, P, n, H, F)
  BY <1>1, <1>3 DEF ViewRight, ContentsRight, Holds
<1>8. ViewRight(d, L, P, Q, n, H, F)
  BY <1>1, <1>4, <1>5, <1>6, <1>7 DEF ViewRight
<1>9. QED
  BY <1>0, <1>8

Prots == {{"r"}, {"r", "x"}, {"r", "w"}}
Entered(t, i, g, f, prot) == [t EXCEPT ![i] = [virt |-> g, phys |-> f, prot |-> prot]]

\* tlb_map: the page of the frame comes into the window as it was.
LEMMA MapKeeps ==
    ASSUME PagingConstants,
           NEW c, NEW L, NEW P, NEW Q, NEW m, NEW H, NEW F, ViewRight(c, L, P, Q, m, H, F),
           c \in L, NEW g \in Pages, NEW f, f = P[c][g], f # NoFrame, <<c, g>> \notin F,
           NEW i \in 1 .. TlbSize, Entries(m.tlb, g) \subseteq {i},
           NEW prot \in Prots
    PROVE  /\ ViewRight(c, L, P, Q, tlb_map(m, i, g, f, prot), H, F)
           /\ tlb_map(m, i, g, f, prot).tlb = Entered(m.tlb, i, g, f, prot)
<1> DEFINE n == tlb_flush_entry(m, {i})
           e == [virt |-> g, phys |-> f, prot |-> prot]
           r == [n EXCEPT !.tlb[i] = e, !.window[g] = n.frame[f]]
<1>0. {i} \in SUBSET (1 .. TlbSize)
  OBVIOUS
<1>1. ViewRight(c, L, P, Q, n, H, F) /\ n.window = m.window
      /\ \A j \in 1 .. TlbSize : n.tlb[j] = IF j \in {i} /\ Mapped(m, j) THEN NoEntry ELSE m.tlb[j]
  BY <1>0, FlushKeeps
<1>2. tlb_map(m, i, g, f, prot) = r
  BY DEF tlb_map
<1> HIDE DEF n
<1>3. ~Mapped(n, i) /\ \A j \in 1 .. TlbSize : j # i => n.tlb[j] = m.tlb[j]
  BY <1>1 DEF Mapped, NoEntry
<1>4. Entries(n.tlb, g) = {}
  BY <1>3 DEF Entries, Mapped
<1>5. n \in Machine /\ n.tlb \in [1 .. TlbSize -> TlbEntry] /\ n.frame \in [Frames -> Nat]
      /\ n.window \in [Pages -> Nat] /\ m.tlb \in [1 .. TlbSize -> TlbEntry]
  BY <1>1 DEF ViewRight, ViewType, Machine
<1>6. f \in Frames /\ e \in TlbEntry /\ e.phys = f /\ e.virt = g /\ e.prot = prot
  <2>1. c \in Procs /\ P[c] \in [Pages -> Frames \cup {NoFrame}]
    BY DEF ViewRight, ViewType
  <2>2. QED
    BY <2>1 DEF TlbEntry, Prots
<1> HIDE DEF e
<1>7. /\ r \in Machine /\ r.frame = n.frame
      /\ r.tlb = [n.tlb EXCEPT ![i] = e] /\ r.window = [n.window EXCEPT ![g] = n.frame[f]]
  BY <1>5, <1>6 DEF Machine
<1> HIDE DEF r
<1>8. r.tlb[i] = e /\ \A j \in 1 .. TlbSize : j # i => r.tlb[j] = n.tlb[j]
  BY <1>5, <1>7
<1>9. r.window[g] = n.frame[f] /\ \A h \in Pages : h # g => r.window[h] = n.window[h]
  BY <1>5, <1>7
<1>10. \A j \in 1 .. TlbSize : j # i /\ Mapped(n, j) => n.tlb[j].virt # g
  BY <1>4 DEF Entries, Mapped
<1>11. EntriesRight(c, L, P, r)
  <2>1. ASSUME NEW j \in 1 .. TlbSize, Mapped(r, j)
        PROVE  /\ c \in L /\ r.tlb[j].virt \in Pages
               /\ P[c][r.tlb[j].virt] = r.tlb[j].phys
               /\ r.tlb[j].prot # {}
               /\ "w" \notin r.tlb[j].prot => r.frame[r.tlb[j].phys] = r.window[r.tlb[j].virt]
    <3>1. CASE j = i
      BY <3>1, <1>6, <1>7, <1>8, <1>9 DEF Prots
    <3>2. CASE j # i
      <4>1. Mapped(n, j) /\ r.tlb[j] = n.tlb[j] /\ n.tlb[j].virt # g
        BY <3>2, <2>1, <1>8, <1>10 DEF Mapped
      <4>2. QED
        BY <4>1, <1>1, <1>7, <1>9 DEF ViewRight, EntriesRight
    <3>3. QED
      BY <3>1, <3>2
  <2>2. ASSUME NEW j \in 1 .. TlbSize, ~Mapped(r, j) PROVE r.tlb[j] = NoEntry
    <3>1. j # i
      BY <2>2, <1>6, <1>8 DEF Mapped
    <3>2. QED
      BY <3>1, <2>2, <1>1, <1>8 DEF ViewRight, EntriesRight, Mapped
  <2>3. ASSUME NEW j \in 1 .. TlbSize, NEW k \in 1 .. TlbSize,
               Mapped(r, j), Mapped(r, k), r.tlb[j].virt = r.tlb[k].virt
        PROVE  j = k
    <3>1. CASE j = i \/ k = i
      BY <3>1, <2>3, <1>6, <1>8, <1>10 DEF Mapped
    <3>2. CASE j # i /\ k # i
      BY <3>2, <2>3, <1>1, <1>8 DEF ViewRight, EntriesRight, Mapped
    <3>3. QED
      BY <3>1, <3>2
  <2>4. QED
    BY <2>1, <2>2, <2>3 DEF EntriesRight
<1>12. ASSUME NEW h \in Pages, h # g PROVE Entries(r.tlb, h) = Entries(n.tlb, h)
  BY <1>12, <1>3, <1>6, <1>8 DEF Entries, Mapped
<1>13. Entries(r.tlb, g) # {}
  BY <1>6, <1>8 DEF Entries
<1>14. FetchRight(c, L, P, r, F)
  <2> SUFFICES ASSUME NEW x \in F
               PROVE  /\ x[1] \in L /\ P[x[1]][x[2]] # NoFrame
                      /\ c = x[1] => Entries(r.tlb, x[2]) = {}
    BY DEF FetchRight
  <2>1. x = <<x[1], x[2]>> /\ x[2] \in Pages
    BY DEF ViewRight, ViewType
  <2>2. c = x[1] => x[2] # g
    BY <2>1
  <2>3. QED
    BY <2>1, <2>2, <1>1, <1>12 DEF ViewRight, FetchRight
<1>15. ASSUME NEW p \in L, NEW h \in Pages
       PROVE  Holds(c, P, r, F, p, h) = Holds(c, P, n, F, p, h)
  <2>1. CASE h = g /\ p = c
    BY <2>1, <1>4, <1>9, <1>13 DEF Holds
  <2>2. CASE h # g
    BY <2>2, <1>7, <1>9, <1>12 DEF Holds
  <2>3. CASE p # c
    BY <2>3, <1>7 DEF Holds
  <2>4. QED
    BY <2>1, <2>2, <2>3
<1>16. ContentsRight(c, L, P, r, H, F)
  BY <1>1, <1>15 DEF ViewRight, ContentsRight
<1>17. ViewType(c, L, P, Q, r, H, F)
  BY <1>7 DEF ViewRight, ViewType
<1>18. ViewRight(c, L, P, Q, r, H, F)
  BY <1>11, <1>14, <1>16, <1>17 DEF ViewRight
<1>19. r.tlb = [m.tlb EXCEPT ![i] = e]
  BY <1>3, <1>5, <1>7
<1>20. QED
  BY <1>2, <1>18, <1>19 DEF e, Entered

-----------------------------------------------------------------------------
(* Frames and pages.                                                       *)

\* proc_frame_alloc: a page of the current process that had no frame gets the
\* first free one; what belongs there has to be fetched.
LEMMA AllocKeeps ==
    ASSUME PagingConstants,
           NEW c, NEW L, NEW P, NEW Q, NEW m, NEW H, NEW F, ViewRight(c, L, P, Q, m, H, F),
           c \in L, NEW g \in Pages, P[c][g] = NoFrame, Q # <<>>
    PROVE  ViewRight(c, L, [P EXCEPT ![c][g] = Head(Q)], Tail(Q), m, H, F \cup {<<c, g>>})
<1> DEFINE f == Head(Q)
           P2 == [P EXCEPT ![c][g] = f]
           F2 == F \cup {<<c, g>>}
<1>1. /\ c \in Procs /\ P \in [Procs -> [Pages -> Frames \cup {NoFrame}]] /\ Q \in Seq(Frames)
      /\ L \subseteq Procs
  BY DEF ViewRight, ViewType
<1>2. /\ Tail(Q) \in Seq(Frames) /\ f \in Frames /\ Has(Q, f)
      /\ Distinct(Q) => Distinct(Tail(Q))
      /\ Distinct(Q) => \A y : Has(Tail(Q), y) <=> Has(Q, y) /\ y # f
  BY <1>1, TailQueue
<1>3. Distinct(Q)
  BY DEF ViewRight, FramesApart
<1>4. f # NoFrame
  BY <1>2, NumbersOK
<1> HIDE DEF f
<1>5. /\ P2 \in [Procs -> [Pages -> Frames \cup {NoFrame}]]
      /\ P2[c][g] = f
      /\ \A p \in Procs : \A h \in Pages : (p # c \/ h # g) => P2[p][h] = P[p][h]
  BY <1>1, <1>2
<1>6. <<c, g>> \in Procs \X Pages
  BY <1>1
<1> HIDE DEF P2
<1>7. ViewType(c, L, P2, Tail(Q), m, H, F2)
  BY <1>2, <1>5, <1>6 DEF ViewRight, ViewType
<1>8. \A p \in L : \A h \in Pages : P[p][h] # f
  BY <1>2 DEF ViewRight, FramesApart
<1>9. FramesApart(L, P2, Tail(Q))
  <2>1. ASSUME NEW p \in L, NEW q \in L, NEW h \in Pages, NEW k \in Pages,
               P2[p][h] = P2[q][k], P2[p][h] # NoFrame
        PROVE  p = q /\ h = k
    <3>1. CASE (p = c /\ h = g) \/ (q = c /\ k = g)
      BY <3>1, <2>1, <1>1, <1>5, <1>8
    <3>2. CASE ~(p = c /\ h = g) /\ ~(q = c /\ k = g)
      <4>1. P[p][h] = P[q][k] /\ P[p][h] # NoFrame
        BY <3>2, <2>1, <1>1, <1>5
      <4>2. QED
        BY <4>1 DEF ViewRight, FramesApart
    <3>3. QED
      BY <3>1, <3>2
  <2>2. ASSUME NEW p \in L, NEW h \in Pages PROVE ~Has(Tail(Q), P2[p][h])
    <3>1. CASE p = c /\ h = g
      BY <3>1, <1>2, <1>3, <1>5
    <3>2. CASE ~(p = c /\ h = g)
      <4>1. P2[p][h] = P[p][h] /\ ~Has(Q, P[p][h])
        BY <3>2, <1>1, <1>5 DEF ViewRight, FramesApart
      <4>2. QED
        BY <4>1, <1>2, <1>3
    <3>3. QED
      BY <3>1, <3>2
  <2>3. QED
    BY <2>1, <2>2, <1>2, <1>3 DEF FramesApart
<1>10. FramesFound(L, P2, Tail(Q))
  <2> SUFFICES ASSUME NEW a \in Frames
               PROVE  Has(Tail(Q), a) \/ \E p \in L : \E h \in Pages : P2[p][h] = a
    BY DEF FramesFound
  <2>1. CASE a = f
    BY <2>1, <1>5
  <2>2. CASE a # f /\ Has(Q, a)
    BY <2>2, <1>2, <1>3
  <2>3. CASE ~Has(Q, a)
    <3>1. PICK p \in L, h \in Pages : P[p][h] = a
      BY <2>3 DEF ViewRight, FramesFound
    <3>2. a # NoFrame
      BY NumbersOK
    <3>3. ~(p = c /\ h = g)
      BY <3>1, <3>2
    <3>4. P2[p][h] = a
      BY <3>1, <3>3, <1>1, <1>5
    <3>5. QED
      BY <3>4
  <2>4. QED
    BY <2>1, <2>2, <2>3
<1>11. ASSUME NEW i \in 1 .. TlbSize, Mapped(m, i) PROVE m.tlb[i].virt # g
  BY <1>11 DEF ViewRight, EntriesRight, Mapped
<1>12. EntriesRight(c, L, P2, m)
  <2>1. ASSUME NEW i \in 1 .. TlbSize, Mapped(m, i)
        PROVE  P2[c][m.tlb[i].virt] = m.tlb[i].phys
    <3>1. m.tlb[i].virt \in Pages /\ P[c][m.tlb[i].virt] = m.tlb[i].phys
      BY <2>1 DEF ViewRight, EntriesRight
    <3>2. QED
      BY <3>1, <2>1, <1>1, <1>5, <1>11
  <2>2. QED
    BY <2>1 DEF ViewRight, EntriesRight
<1>13. Entries(m.tlb, g) = {}
  BY <1>11 DEF Entries, Mapped
<1>14. FetchRight(c, L, P2, m, F2)
  <2> SUFFICES ASSUME NEW x \in F2
               PROVE  /\ x[1] \in L /\ P2[x[1]][x[2]] # NoFrame
                      /\ c = x[1] => Entries(m.tlb, x[2]) = {}
    BY DEF FetchRight
  <2>1. CASE x = <<c, g>>
    BY <2>1, <1>4, <1>5, <1>13
  <2>2. CASE x \in F
    <3>1. x[1] \in L /\ x[1] \in Procs /\ x[2] \in Pages /\ P[x[1]][x[2]] # NoFrame
          /\ (c = x[1] => Entries(m.tlb, x[2]) = {})
      BY <2>2, <1>1 DEF ViewRight, ViewType, FetchRight
    <3>2. QED
      BY <3>1, <1>4, <1>5
  <2>3. QED
    BY <2>1, <2>2
<1>15. ASSUME NEW p \in L, NEW h \in Pages
       PROVE  Holds(c, P2, m, F2, p, h) = Holds(c, P, m, F, p, h)
  <2>1. CASE p = c /\ h = g
    BY <2>1, <1>13 DEF Holds
  <2>2. CASE ~(p = c /\ h = g)
    <3>1. P2[p][h] = P[p][h] /\ (<<p, h>> \in F2 <=> <<p, h>> \in F)
      BY <2>2, <1>1, <1>5
    <3>2. QED
      BY <3>1 DEF Holds
  <2>3. QED
    BY <2>1, <2>2
<1>16. ContentsRight(c, L, P2, m, H, F2)
  BY <1>15 DEF ViewRight, ContentsRight
<1>17. ViewRight(c, L, P2, Tail(Q), m, H, F2)
  BY <1>7, <1>9, <1>10, <1>12, <1>14, <1>16 DEF ViewRight
<1>18. QED
  BY <1>17 DEF P2, f

\* frame_init: the frame of a page that is being fetched gets its contents.
LEMMA FillKeeps ==
    ASSUME PagingConstants,
           NEW c, NEW L, NEW P, NEW Q, NEW m, NEW H, NEW F, ViewRight(c, L, P, Q, m, H, F),
           NEW g \in Pages, <<c, g>> \in F
    PROVE  ViewRight(c, L, P, Q, [m EXCEPT !.frame[P[c][g]] = Image(c, g)], H, F \ {<<c, g>>})
<1> DEFINE f == P[c][g]
           n == [m EXCEPT !.frame[f] = Image(c, g)]
           F2 == F \ {<<c, g>>}
<1>1. /\ P \in [Procs -> [Pages -> Frames \cup {NoFrame}]]
      /\ m \in Machine /\ m.frame \in [Frames -> Nat] /\ L \subseteq Procs
  BY DEF ViewRight, ViewType, Machine
<1>2. c \in L /\ c \in Procs /\ f # NoFrame /\ Entries(m.tlb, g) = {}
  <2>1. <<c, g>>[1] = c /\ <<c, g>>[2] = g
    OBVIOUS
  <2>2. QED
    BY <2>1, <1>1 DEF ViewRight, FetchRight
<1>3. f \in Frames /\ Image(c, g) \in Nat
  BY <1>1, <1>2, ImageNat
<1>4. /\ n \in Machine /\ n.tlb = m.tlb /\ n.window = m.window
      /\ n.frame = [m.frame EXCEPT ![f] = Image(c, g)]
  BY <1>1, <1>3 DEF Machine
<1> HIDE DEF n
<1>5. n.frame[f] = Image(c, g) /\ \A a \in Frames : a # f => n.frame[a] = m.frame[a]
  BY <1>1, <1>3, <1>4
<1>6. \A p \in L : \A h \in Pages : P[p][h] = f => p = c /\ h = g
  BY <1>2 DEF ViewRight, FramesApart
<1>7. ViewType(c, L, P, Q, n, H, F2)
  BY <1>4 DEF ViewRight, ViewType
<1>8. EntriesRight(c, L, P, n)
  <2>1. ASSUME NEW i \in 1 .. TlbSize, Mapped(m, i), "w" \notin m.tlb[i].prot
        PROVE  n.frame[m.tlb[i].phys] = m.window[m.tlb[i].virt]
    <3>1. m.tlb[i].virt \in Pages /\ P[c][m.tlb[i].virt] = m.tlb[i].phys
          /\ m.frame[m.tlb[i].phys] = m.window[m.tlb[i].virt]
      BY <2>1 DEF ViewRight, EntriesRight
    <3>2. m.tlb[i].virt # g
      BY <2>1, <1>2 DEF Entries, Mapped
    <3>3. m.tlb[i].phys # f /\ m.tlb[i].phys \in Frames
      BY <3>1, <3>2, <2>1, <1>1, <1>2, <1>6 DEF Mapped
    <3>4. QED
      BY <3>1, <3>3, <1>5
  <2>2. QED
    BY <2>1, <1>4 DEF ViewRight, EntriesRight, Mapped
<1>9. FetchRight(c, L, P, n, F2)
  BY <1>4 DEF ViewRight, FetchRight
<1>10. ASSUME NEW p \in L, NEW h \in Pages
       PROVE  Holds(c, P, n, F2, p, h) = Holds(c, P, m, F, p, h)
  <2>1. CASE p = c /\ h = g
    BY <2>1, <1>2, <1>4, <1>5 DEF Holds
  <2>2. CASE ~(p = c /\ h = g)
    <3>1. <<p, h>> \in F2 <=> <<p, h>> \in F
      BY <2>2
    <3>2. P[p][h] # NoFrame => n.frame[P[p][h]] = m.frame[P[p][h]]
      <4>1. P[p][h] \in Frames \cup {NoFrame} /\ P[p][h] # f
        BY <2>2, <1>1, <1>6
      <4>2. QED
        BY <4>1, <1>5
    <3>3. QED
      BY <3>1, <3>2, <1>4 DEF Holds
  <2>3. QED
    BY <2>1, <2>2
<1>11. ContentsRight(c, L, P, n, H, F2)
  BY <1>10 DEF ViewRight, ContentsRight
<1>12. ViewRight(c, L, P, Q, n, H, F2)
  BY <1>7, <1>8, <1>9, <1>11 DEF ViewRight
<1>13. QED
  BY <1>12 DEF n

\* A store through a writable entry.
LEMMA StoreKeeps ==
    ASSUME PagingConstants,
           NEW c, NEW L, NEW P, NEW Q, NEW m, NEW H, NEW F, ViewRight(c, L, P, Q, m, H, F),
           NEW g \in Pages, NEW i \in Entries(m.tlb, g), "w" \in m.tlb[i].prot,
           NEW v \in Nat
    PROVE  ViewRight(c, L, P, Q, [m EXCEPT !.window[g] = v], [H EXCEPT ![c][g] = v], F)
<1> DEFINE n == [m EXCEPT !.window[g] = v]
           H2 == [H EXCEPT ![c][g] = v]
<1>1. /\ m \in Machine /\ m.window \in [Pages -> Nat] /\ L \subseteq Procs
      /\ H \in [Procs -> [Pages -> Nat]]
  BY DEF ViewRight, ViewType, Machine
<1>2. i \in 1 .. TlbSize /\ Mapped(m, i) /\ m.tlb[i].virt = g
  BY DEF Entries, Mapped
<1>3. c \in L /\ c \in Procs
  BY <1>1, <1>2 DEF ViewRight, EntriesRight
<1>4. /\ n \in Machine /\ n.tlb = m.tlb /\ n.frame = m.frame
      /\ n.window = [m.window EXCEPT ![g] = v]
  BY <1>1 DEF Machine
<1>5. /\ H2 \in [Procs -> [Pages -> Nat]] /\ H2[c][g] = v
      /\ \A p \in Procs : \A h \in Pages : (p # c \/ h # g) => H2[p][h] = H[p][h]
  BY <1>1, <1>3
<1> HIDE DEF n, H2
<1>6. n.window[g] = v /\ \A h \in Pages : h # g => n.window[h] = m.window[h]
  BY <1>1, <1>4
<1>7. ViewType(c, L, P, Q, n, H2, F)
  BY <1>4, <1>5 DEF ViewRight, ViewType
<1>8. EntriesRight(c, L, P, n)
  <2>1. ASSUME NEW j \in 1 .. TlbSize, Mapped(m, j), "w" \notin m.tlb[j].prot
        PROVE  m.frame[m.tlb[j].phys] = n.window[m.tlb[j].virt]
    <3>1. m.tlb[j].virt \in Pages /\ m.frame[m.tlb[j].phys] = m.window[m.tlb[j].virt]
      BY <2>1 DEF ViewRight, EntriesRight
    <3>2. m.tlb[j].virt # g
      BY <2>1, <1>2 DEF ViewRight, EntriesRight
    <3>3. QED
      BY <3>1, <3>2, <1>6
  <2>2. QED
    BY <2>1, <1>4 DEF ViewRight, EntriesRight, Mapped
<1>9. FetchRight(c, L, P, n, F)
  BY <1>4 DEF ViewRight, FetchRight
<1>10. ASSUME NEW p \in L, NEW h \in Pages
       PROVE  Holds(c, P, n, F, p, h) = H2[p][h]
  <2>0. Holds(c, P, m, F, p, h) = H[p][h]
    BY DEF ViewRight, ContentsRight
  <2>1. CASE p = c /\ h = g
    BY <2>1, <1>4, <1>5, <1>6 DEF Holds
  <2>2. CASE ~(p = c /\ h = g)
    <3>1. H2[p][h] = H[p][h]
      BY <2>2, <1>1, <1>5
    <3>2. Holds(c, P, n, F, p, h) = Holds(c, P, m, F, p, h)
      BY <2>2, <1>4, <1>6 DEF Holds
    <3>3. QED
      BY <2>0, <3>1, <3>2
  <2>3. QED
    BY <2>1, <2>2
<1>11. ContentsRight(c, L, P, n, H2, F)
  BY <1>10 DEF ContentsRight
<1>12. ViewRight(c, L, P, Q, n, H2, F)
  BY <1>7, <1>8, <1>9, <1>11 DEF ViewRight
<1>13. QED
  BY <1>12 DEF n, H2

\* user_proc: a new process has no pages yet.
LEMMA SpawnKeeps ==
    ASSUME PagingConstants,
           NEW c, NEW L, NEW P, NEW Q, NEW m, NEW H, NEW F, ViewRight(c, L, P, Q, m, H, F),
           NEW p \in Procs, p \notin L
    PROVE  ViewRight(c, L \cup {p}, [P EXCEPT ![p] = [g \in Pages |-> NoFrame]], Q, m,
                     [H EXCEPT ![p] = [g \in Pages |-> Image(p, g)]], F)
<1> DEFINE L2 == L \cup {p}
           P2 == [P EXCEPT ![p] = [g \in Pages |-> NoFrame]]
           H2 == [H EXCEPT ![p] = [g \in Pages |-> Image(p, g)]]
<1>1. /\ P \in [Procs -> [Pages -> Frames \cup {NoFrame}]] /\ L \subseteq Procs
      /\ H \in [Procs -> [Pages -> Nat]]
  BY DEF ViewRight, ViewType
<1>2. /\ P2 \in [Procs -> [Pages -> Frames \cup {NoFrame}]]
      /\ \A g \in Pages : P2[p][g] = NoFrame
      /\ \A q \in L : P2[q] = P[q]
  BY <1>1
<1>3. [g \in Pages |-> Image(p, g)] \in [Pages -> Nat]
  BY ImageNat
<1>4. /\ H2 \in [Procs -> [Pages -> Nat]]
      /\ \A g \in Pages : H2[p][g] = Image(p, g)
      /\ \A q \in L : H2[q] = H[q]
  BY <1>1, <1>3
<1> HIDE DEF P2, H2
<1>5. ViewType(c, L2, P2, Q, m, H2, F)
  BY <1>1, <1>2, <1>4 DEF ViewRight, ViewType
<1>6. FramesApart(L2, P2, Q)
  <2>1. ASSUME NEW q \in L2, NEW r \in L2, NEW g \in Pages, NEW h \in Pages,
               P2[q][g] = P2[r][h], P2[q][g] # NoFrame
        PROVE  q = r /\ g = h
    <3>1. q \in L /\ r \in L
      BY <2>1, <1>2
    <3>2. QED
      BY <3>1, <2>1, <1>2 DEF ViewRight, FramesApart
  <2>2. ASSUME NEW q \in L2, NEW g \in Pages PROVE ~Has(Q, P2[q][g])
    <3>1. CASE q = p
      <4>1. Q \in Seq(Frames) /\ P2[q][g] = NoFrame
        BY <3>1, <1>2 DEF ViewRight, ViewType
      <4>2. NoFrame \notin Frames
        BY NumbersOK
      <4>3. QED
        BY <4>1, <4>2 DEF Has
    <3>2. CASE q \in L
      BY <3>2, <1>2 DEF ViewRight, FramesApart
    <3>3. QED
      BY <3>1, <3>2
  <2>3. QED
    BY <2>1, <2>2 DEF ViewRight, FramesApart
<1>7. FramesFound(L2, P2, Q)
  BY <1>2 DEF ViewRight, FramesFound
<1>8. EntriesRight(c, L2, P2, m)
  BY <1>2 DEF ViewRight, EntriesRight
<1>9. FetchRight(c, L2, P2, m, F)
  BY <1>2 DEF ViewRight, FetchRight
<1>10. ASSUME NEW q \in L2, NEW g \in Pages
       PROVE  Holds(c, P2, m, F, q, g) = H2[q][g]
  <2>1. CASE q \in L
    <3>1. Holds(c, P2, m, F, q, g) = Holds(c, P, m, F, q, g)
      BY <2>1, <1>2 DEF Holds
    <3>2. QED
      BY <2>1, <3>1, <1>4 DEF ViewRight, ContentsRight
  <2>2. CASE q = p
    <3>1. c = p => Entries(m.tlb, g) = {}
      BY DEF ViewRight, EntriesRight, Entries, Mapped
    <3>2. QED
      BY <2>2, <3>1, <1>2, <1>4 DEF Holds
  <2>3. QED
    BY <2>1, <2>2
<1>11. ContentsRight(c, L2, P2, m, H2, F)
  BY <1>10 DEF ContentsRight
<1>12. ViewRight(c, L2, P2, Q, m, H2, F)
  BY <1>5, <1>6, <1>7, <1>8, <1>9, <1>11 DEF ViewRight
<1>13. QED
  BY <1>12 DEF P2, H2

\* The frames that proc_term releases, page after page; the fetches of the
\* other processes.
Released(P, p, order) == [i \in DOMAIN order |-> P[p][order[i]]]
Without(F, p) == {x \in F : x[1] # p}
Increasing(order) == \A i, j \in DOMAIN order : i < j => order[i] < order[j]
HeldIn(P, p) == {g \in Pages : P[p][g] # NoFrame}

\* proc_term: the frames of the process come to the free list, each once.
LEMMA TermKeeps ==
    ASSUME PagingConstants,
           NEW c, NEW L, NEW P, NEW Q, NEW m, NEW H, NEW F, ViewRight(c, L, P, Q, m, H, F),
           NEW p \in L, NEW U, U = HeldIn(P, p),
           NEW order \in [1 .. Cardinality(U) -> U], Increasing(order)
    PROVE  ViewRight(c, L \ {p}, P, Q \o Released(P, p, order), tlb_unmap(m, U), H,
                     Without(F, p))
<1> USE DEF HeldIn, Increasing
<1> DEFINE k == Cardinality(U)
           K == [i \in DOMAIN order |-> P[p][order[i]]]
           S == {i \in 1 .. TlbSize : m.tlb[i].virt \in U}
           n == tlb_flush_entry(m, S)
           L2 == L \ {p}
           F2 == {x \in F : x[1] # p}
<1>1. S \in SUBSET (1 .. TlbSize) /\ tlb_unmap(m, U) = n
  BY DEF tlb_unmap
<1>2. ViewRight(c, L, P, Q, n, H, F)
      /\ \A i \in 1 .. TlbSize : n.tlb[i] = IF i \in S /\ Mapped(m, i) THEN NoEntry ELSE m.tlb[i]
  BY <1>1, FlushKeeps
<1> HIDE DEF n
<1>3. /\ P \in [Procs -> [Pages -> Frames \cup {NoFrame}]] /\ L \subseteq Procs /\ p \in Procs
      /\ Q \in Seq(Frames)
  BY DEF ViewRight, ViewType
<1>4. U \in SUBSET Pages /\ IsFiniteSet(U) /\ k \in Nat
  <2>1. U \in SUBSET Pages /\ IsFiniteSet(Pages)
    BY NumbersOK
  <2>2. IsFiniteSet(U)
    BY <2>1, FS_Subset
  <2>3. QED
    BY <2>1, <2>2, FS_CardinalityType
<1> HIDE DEF k
<1>5. order \in [1 .. k -> U] /\ DOMAIN order = 1 .. k
  BY DEF k
<1>6. \A i, j \in 1 .. k : order[i] = order[j] => i = j
  <2> SUFFICES ASSUME NEW i \in 1 .. k, NEW j \in 1 .. k, order[i] = order[j], i # j
               PROVE  FALSE
    OBVIOUS
  <2>1. order[i] \in Nat /\ order[j] \in Nat
    BY <1>4, <1>5, NumbersOK
  <2>2. i < j \/ j < i
    BY <1>4
  <2>3. order[i] < order[j] \/ order[j] < order[i]
    BY <2>2, <1>5
  <2>4. QED
    BY <2>1, <2>3
<1>7. \A g \in U : \E i \in 1 .. k : order[i] = g
  <2>1. order \in Injection(1 .. k, U)
    BY <1>5, <1>6 DEF Injection, IsInjective
  <2>2. Cardinality(1 .. k) = k
    BY <1>4, FS_Interval
  <2>3. order \in Surjection(1 .. k, U)
    BY <2>1, <2>2, <1>4, FS_Injection DEF k
  <2>4. QED
    BY <2>3 DEF Surjection
<1>8. \A i \in 1 .. k : order[i] \in Pages /\ P[p][order[i]] # NoFrame /\ P[p][order[i]] \in Frames
  BY <1>3, <1>5
<1>9. K \in Seq(Frames) /\ DOMAIN K = 1 .. k /\ \A i \in 1 .. k : K[i] = P[p][order[i]]
  <2>1. DOMAIN K = 1 .. k /\ \A i \in 1 .. k : K[i] = P[p][order[i]]
    BY <1>5
  <2>2. K \in [1 .. k -> Frames]
    BY <1>5, <1>8
  <2>3. QED
    BY <2>1, <2>2, <1>4, SeqDef
<1> HIDE DEF K
<1>10. Distinct(K)
  <2> SUFFICES ASSUME NEW i \in 1 .. k, NEW j \in 1 .. k, K[i] = K[j] PROVE i = j
    BY <1>9 DEF Distinct
  <2>0. P[p][order[i]] = P[p][order[j]] /\ P[p][order[i]] # NoFrame
        /\ order[i] \in Pages /\ order[j] \in Pages
    BY <1>8, <1>9
  <2>1. order[i] = order[j]
    BY <2>0 DEF ViewRight, FramesApart
  <2>2. QED
    BY <2>1, <1>6
<1>11. \A f : Has(K, f) <=> \E g \in U : P[p][g] = f
  <2> SUFFICES ASSUME NEW f PROVE Has(K, f) <=> \E g \in U : P[p][g] = f
    OBVIOUS
  <2>1. ASSUME NEW i \in 1 .. k, K[i] = f PROVE \E g \in U : P[p][g] = f
    <3>1. order[i] \in U /\ P[p][order[i]] = f
      BY <2>1, <1>5, <1>9
    <3>2. QED
      BY <3>1
  <2>2. ASSUME NEW g \in U, P[p][g] = f PROVE \E i \in 1 .. k : K[i] = f
    <3>1. PICK i \in 1 .. k : order[i] = g
      BY <1>7
    <3>2. QED
      BY <2>2, <3>1, <1>9
  <2>3. QED
    BY <2>1, <2>2, <1>9 DEF Has
<1>12. /\ Q \o K \in Seq(Frames)
       /\ \A y : Has(Q \o K, y) <=> Has(Q, y) \/ Has(K, y)
       /\ Distinct(Q) /\ Distinct(K) /\ (\A y : ~(Has(Q, y) /\ Has(K, y))) => Distinct(Q \o K)
  BY <1>3, <1>9, ConcatQueue
<1>13. ViewType(c, L2, P, Q \o K, n, H, F2)
  BY <1>2, <1>12 DEF ViewRight, ViewType
<1>14. FramesApart(L2, P, Q \o K)
  <2>1. \A y : ~(Has(Q, y) /\ Has(K, y))
    BY <1>4, <1>11 DEF ViewRight, FramesApart
  <2>2. Distinct(Q \o K)
    BY <2>1, <1>10, <1>12 DEF ViewRight, FramesApart
  <2>3. ASSUME NEW q \in L2, NEW g \in Pages PROVE ~Has(Q \o K, P[q][g])
    <3>1. ~Has(Q, P[q][g])
      BY DEF ViewRight, FramesApart
    <3>2. ~Has(K, P[q][g])
      BY <1>11 DEF ViewRight, FramesApart
    <3>3. QED
      BY <3>1, <3>2, <1>12
  <2>4. QED
    BY <2>2, <2>3 DEF ViewRight, FramesApart
<1>15. FramesFound(L2, P, Q \o K)
  <2> SUFFICES ASSUME NEW f \in Frames
               PROVE  Has(Q \o K, f) \/ \E q \in L2 : \E g \in Pages : P[q][g] = f
    BY DEF FramesFound
  <2>1. f # NoFrame
    BY NumbersOK
  <2>2. QED
    BY <2>1, <1>11, <1>12 DEF ViewRight, FramesFound
<1>16. EntriesRight(c, L2, P, n)
  <2>1. ASSUME NEW i \in 1 .. TlbSize, Mapped(n, i), c = p PROVE FALSE
    <3>1. i \notin S /\ n.tlb[i] = m.tlb[i]
      BY <2>1, <1>2 DEF Mapped, NoEntry
    <3>2. n.tlb[i].virt \in Pages /\ P[c][n.tlb[i].virt] # NoFrame
      BY <2>1, <1>2 DEF ViewRight, EntriesRight, Mapped
    <3>3. QED
      BY <2>1, <3>1, <3>2
  <2>2. QED
    BY <2>1, <1>2 DEF ViewRight, EntriesRight
<1>17. FetchRight(c, L2, P, n, F2)
  BY <1>2 DEF ViewRight, FetchRight
<1>18. ContentsRight(c, L2, P, n, H, F2)
  <2> SUFFICES ASSUME NEW q \in L2, NEW g \in Pages
               PROVE  Holds(c, P, n, F2, q, g) = H[q][g]
    BY DEF ContentsRight
  <2>1. <<q, g>> \in F2 <=> <<q, g>> \in F
    OBVIOUS
  <2>2. Holds(c, P, n, F, q, g) = H[q][g]
    BY <1>2 DEF ViewRight, ContentsRight
  <2>3. QED
    BY <2>1, <2>2 DEF Holds
<1>19. ViewRight(c, L2, P, Q \o K, n, H, F2)
  BY <1>13, <1>14, <1>15, <1>16, <1>17, <1>18 DEF ViewRight
<1>20. QED
  BY <1>1, <1>19 DEF K, Released, Without

-----------------------------------------------------------------------------
(* The inductive invariant.                                                *)

LiveSet == {p \in Procs : Live(p)}
Fetches == {x \in Procs \X Pages : Fetching(x[1], x[2])}
View    == ViewRight(cur, LiveSet, pt, free, M, mem, Fetches)

Modes    == Dead \cup {"user", "kernel", "wait", "yield"}
Steps    == [op : {"fault", "fetch", "from", "to", "sync", "wait", "exit"},
             page : Pages \cup {Outside}, val : Nat \cup {"r", "w"}]
Accesses == [page : Pages \cup {Outside}, op : {"none", "r", "w", "x", "sys"}, val : Nat]
Contexts == (Procs \cup {Kernel}) \X Nat

Types ==
    /\ st \in [Procs -> Modes] /\ todo \in [Procs -> Seq(Steps)]
    /\ acc \in [Procs -> Accesses] /\ tlb_index \in 1 .. TlbSize
    /\ cpu \in Contexts /\ saved \in [Procs -> Contexts] /\ ran \in [Procs -> Nat]

\* A page fault and the fetch of a page come first in what a process has to
\* do; a process that is dead or not in the kernel has nothing to do there.
StepRight(s, first) ==
    /\ s.op = "to" => s.val \in Nat
    /\ s.op = "fetch" => s.val \in {"r", "w"} /\ s.page \in Pages
    /\ ~first => s.op \notin {"fault", "fetch"}
TodoRight(t) == \A i \in DOMAIN t : StepRight(t[i], i = 1)
TodosRight ==
    \A p \in Procs :
        /\ st[p] \in Dead \cup {"user", "yield"} => todo[p] = <<>>
        /\ TodoRight(todo[p])

\* A process in user mode is the one that runs; the context of the others is
\* saved.
ContextsRight ==
    \A p \in Procs :
        /\ st[p] = "user" => cur = p /\ cpu = <<p, ran[p]>>
        /\ st[p] \in {"kernel", "wait", "yield"} => saved[p] = <<p, ran[p]>>

IInv == Types /\ View /\ TodosRight /\ ContextsRight

\* What makes accesses legal, when system calls do not name pages of the text
\* as their buffers: copies to user space go to writable pages; a fault is of
\* the access that is made, which the TLB does not allow.
Quiet(a, s) ==
    /\ s.op = "to" => s.page \notin Text
    /\ s.op \in {"from", "to"} /\ s.page = Outside => a.page = Outside
    /\ s.op = "fetch" /\ s.page \in Text => s.val = "r"
LegalStep(p, s) ==
    /\ Quiet(acc[p], s)
    /\ s.op = "fault" =>
          /\ cur = p /\ st[p] = "kernel" /\ s.page = acc[p].page
          /\ acc[p].op \in {"r", "w", "x"} /\ acc[p].op \notin Prot(s.page)
LegalSteps == \A p \in Procs : \A i \in DOMAIN todo[p] : LegalStep(p, todo[p][i])
LegalEntry(e) ==
    e.phys # NoFrame => /\ e.virt \in Text => e.prot = {"r", "x"}
                        /\ e.virt \notin Text => e.prot \in {{"r"}, {"r", "w"}}
LegalEntries == \A i \in 1 .. TlbSize : LegalEntry(tlb[i])

\* An access that the program may not make.
Deserved(a) == \/ a.page = Outside
               \/ a.op = "w" /\ a.page \in Text
               \/ a.op = "x" /\ a.page \notin Text

Legal == LegalSteps /\ LegalEntries /\ TextKept /\ IllmemDeserved

\* The buffers of system calls are not in the text.
BuffersOutsideText == CopyPages \cap Text = {}

-----------------------------------------------------------------------------
(* What the routines do to the state.                                      *)

\* Put assigns the machine.
LEMMA PutMachine ==
    ASSUME NEW n \in Machine, Put(n)
    PROVE  M' = n
  BY DEF Put, M, Machine

\* The steps that are left when the first one is done.
LEMMA TailTodo ==
    ASSUME NEW t \in Seq(Steps), t # <<>>, TodoRight(t)
    PROVE  /\ Head(t) \in Steps /\ StepRight(Head(t), TRUE)
           /\ Tail(t) \in Seq(Steps) /\ TodoRight(Tail(t))
           /\ Tail(t) # <<>> => Head(Tail(t)).op \notin {"fault", "fetch"}
<1>1. /\ Head(t) \in Steps /\ Tail(t) \in Seq(Steps) /\ Len(Tail(t)) = Len(t) - 1
      /\ \A i \in 1 .. Len(Tail(t)) : Tail(t)[i] = t[i + 1]
  BY HeadTailProperties
<1>2. Len(t) \in Nat /\ Len(t) > 0 /\ DOMAIN t = 1 .. Len(t) /\ Head(t) = t[1]
  OBVIOUS
<1>3. StepRight(Head(t), TRUE)
  <2>1. 1 \in DOMAIN t
    BY <1>2
  <2>2. StepRight(t[1], 1 = 1)
    BY <2>1 DEF TodoRight
  <2>3. QED
    BY <1>2, <2>2 DEF StepRight
<1>4. ASSUME NEW i \in DOMAIN Tail(t)
      PROVE  StepRight(Tail(t)[i], FALSE)
  <2>1. i \in 1 .. Len(Tail(t)) /\ i + 1 \in 1 .. Len(t) /\ i + 1 # 1
    BY <1>1, <1>2
  <2>2. StepRight(t[i + 1], FALSE)
    BY <2>1, <1>2 DEF TodoRight, StepRight
  <2>3. QED
    BY <2>1, <2>2, <1>1
<1>5. TodoRight(Tail(t))
  BY <1>4 DEF TodoRight, StepRight
<1>6. ASSUME Tail(t) # <<>> PROVE Head(Tail(t)).op \notin {"fault", "fetch"}
  <2>1. 1 \in DOMAIN Tail(t) /\ Head(Tail(t)) = Tail(t)[1]
    BY <1>1, <1>6
  <2>2. QED
    BY <2>1, <1>4 DEF StepRight
<1>7. QED
  BY <1>1, <1>3, <1>5, <1>6

\* A step put before others.
LEMMA ConsTodo ==
    ASSUME NEW t \in Seq(Steps), TodoRight(t),
           t # <<>> => Head(t).op \notin {"fault", "fetch"},
           NEW s \in Steps, StepRight(s, TRUE)
    PROVE  /\ <<s>> \o t \in Seq(Steps) /\ TodoRight(<<s>> \o t)
           /\ <<s>> \o t # <<>> /\ Head(<<s>> \o t) = s
<1> DEFINE r == <<s>> \o t
<1>1. /\ <<s>> \in Seq(Steps) /\ Len(<<s>>) = 1 /\ <<s>>[1] = s
      /\ Len(t) \in Nat /\ DOMAIN t = 1 .. Len(t)
  OBVIOUS
<1>2. /\ r \in Seq(Steps) /\ Len(r) = 1 + Len(t)
      /\ \A i \in 1 .. 1 + Len(t) : r[i] = IF i <= 1 THEN <<s>>[i] ELSE t[i - 1]
  BY <1>1, ConcatProperties
<1> HIDE DEF r
<1>3. r # <<>> /\ DOMAIN r = 1 .. Len(r) /\ Head(r) = r[1] /\ r[1] = s
  BY <1>1, <1>2
<1>4. ASSUME NEW i \in DOMAIN r PROVE StepRight(r[i], i = 1)
  <2>1. CASE i = 1
    BY <2>1, <1>3 DEF StepRight
  <2>2. CASE i # 1
    <3>1. i - 1 \in DOMAIN t /\ r[i] = t[i - 1]
      BY <2>2, <1>1, <1>2, <1>3
    <3>2. StepRight(t[i - 1], i - 1 = 1)
      BY <3>1 DEF TodoRight
    <3>3. i - 1 = 1 => t[i - 1].op \notin {"fault", "fetch"}
      BY <3>1
    <3>4. QED
      BY <2>2, <3>1, <3>2, <3>3 DEF StepRight
  <2>3. QED
    BY <2>1, <2>2
<1>5. TodoRight(r)
  BY <1>4 DEF TodoRight
<1>6. QED
  BY <1>2, <1>3, <1>5 DEF r

IsFetch(t, g) == t # <<>> /\ Head(t).op = "fetch" /\ Head(t).page = g

\* Whose pages are being fetched after p got a new list of steps.
LEMMA FetchesAfter ==
    ASSUME Types, NEW p \in Procs, NEW t, todo' = [todo EXCEPT ![p] = t]
    PROVE  Fetches' = {x \in Fetches : x[1] # p}
                      \cup {x \in Procs \X Pages : x[1] = p /\ IsFetch(t, x[2])}
<1>1. \A q \in Procs : todo'[q] = IF q = p THEN t ELSE todo[q]
  BY DEF Types
<1>2. ASSUME NEW x \in Procs \X Pages
      PROVE  Fetching(x[1], x[2])' <=> \/ x[1] # p /\ Fetching(x[1], x[2])
                                       \/ x[1] = p /\ IsFetch(t, x[2])
  <2>1. x[1] \in Procs
    OBVIOUS
  <2>2. QED
    BY <2>1, <1>1 DEF Fetching, IsFetch
<1>3. QED
  BY <1>2 DEF Fetches

\* The first step is not a fetch before and after.
LEMMA FetchesStay ==
    ASSUME Types, NEW p \in Procs, NEW t, todo' = [todo EXCEPT ![p] = t],
           todo[p] # <<>> => Head(todo[p]).op # "fetch",
           t # <<>> => Head(t).op # "fetch"
    PROVE  Fetches' = Fetches
<1>1. Fetches' = {x \in Fetches : x[1] # p}
                      \cup {x \in Procs \X Pages : x[1] = p /\ IsFetch(t, x[2])}
  BY FetchesAfter
<1>2. \A x \in Procs \X Pages : ~IsFetch(t, x[2])
  BY DEF IsFetch
<1>3. \A x \in Fetches : x[1] # p
  BY DEF Fetches, Fetching
<1>4. QED
  BY <1>1, <1>2, <1>3

\* The end of a process.
LEMMA TermIInv ==
    ASSUME PagingConstants, IInv, NEW p \in Procs, Live(p), NEW why \in Dead,
           proc_term(p, why), todo' = [todo EXCEPT ![p] = <<>>],
           UNCHANGED <<cur, acc, cpu, saved, ran>>
    PROVE  IInv'
<1> DEFINE U == Held(p)
<1>1. PICK order \in [1 .. Cardinality(U) -> U] :
          Increasing(order) /\ free' = free \o Released(pt, p, order)
  BY DEF proc_term, Increasing, Released
<1>2. U = HeldIn(pt, p) /\ p \in LiveSet
  BY DEF Held, HeldIn, LiveSet
<1> HIDE DEF U
<1>3. ViewRight(cur, LiveSet \ {p}, pt, free', tlb_unmap(M, U), mem, Without(Fetches, p))
  <2>1. ViewRight(cur, LiveSet, pt, free, M, mem, Fetches)
    BY DEF IInv, View
  <2>2. QED
    BY <1>1, <1>2, <2>1, TermKeeps
<1>4. M' = tlb_unmap(M, U)
  <2>1. tlb_unmap(M, U) \in Machine
    BY <1>3 DEF ViewRight, ViewType
  <2>2. Put(tlb_unmap(M, U))
    BY DEF proc_term, U
  <2>3. QED
    BY <2>1, <2>2, PutMachine
<1>5. st \in [Procs -> Modes] /\ st' = [st EXCEPT ![p] = why] /\ why \in Modes
  BY DEF IInv, Types, proc_term, Modes
<1>6. LiveSet' = LiveSet \ {p}
  BY <1>5 DEF LiveSet, Live
<1>7. Fetches' = Without(Fetches, p)
  <2>1. Fetches' = {x \in Fetches : x[1] # p}
                      \cup {x \in Procs \X Pages : x[1] = p /\ IsFetch(<<>>, x[2])}
    BY FetchesAfter DEF IInv
  <2>2. QED
    BY <2>1 DEF IsFetch, Without
<1>8. View'
  <2>1. cur' = cur /\ pt' = pt /\ mem' = mem
    BY DEF proc_term
  <2>2. QED
    BY <2>1, <1>3, <1>4, <1>6, <1>7 DEF View
<1>9. todo \in [Procs -> Seq(Steps)] /\ <<>> \in Seq(Steps)
  BY DEF IInv, Types
<1>10. Types'
  BY <1>5, <1>9 DEF IInv, Types, proc_term
<1>11. TodosRight'
  <2> SUFFICES ASSUME NEW q \in Procs
               PROVE  /\ st'[q] \in Dead \cup {"user", "yield"} => todo'[q] = <<>>
                      /\ TodoRight(todo'[q])
    BY DEF TodosRight, Dead
  <2>1. CASE q = p
    BY <2>1, <1>9 DEF TodoRight
  <2>2. CASE q # p
    BY <2>2, <1>5, <1>9 DEF IInv, TodosRight
  <2>3. QED
    BY <2>1, <2>2
<1>12. ContextsRight'
  BY <1>5 DEF IInv, ContextsRight, Dead
<1>13. QED
  BY <1>8, <1>10, <1>11, <1>12 DEF IInv

\* The end of proc_pagefault: page g, which is in frame f, comes into the TLB.
LEMMA MapPageKeeps ==
    ASSUME PagingConstants, NEW P, NEW Q, NEW fr, NEW F, NEW n, n = [M EXCEPT !.frame = fr],
           ViewRight(cur, LiveSet, P, Q, n, mem, F), cur \in LiveSet,
           NEW p, NEW g \in Pages, NEW f, f = P[cur][g], f # NoFrame, <<cur, g>> \notin F,
           tlb_index \in 1 .. TlbSize, NEW access, MapPage(p, g, f, access, fr)
    PROVE  /\ ViewRight(cur, LiveSet, P, Q, M', mem, F) /\ tlb_index' \in 1 .. TlbSize
           /\ \E i \in 1 .. TlbSize : tlb' = Entered(tlb, i, g, f, ProtFor(g, access))
<1> DEFINE E == tlb_get_entry(g)
           i == IF E = {} THEN tlb_index ELSE CHOOSE j \in E : \A k \in E : j <= k
           prot == ProtFor(g, access)
           r == tlb_map(n, i, g, f, prot)
<1>1. Put(r) /\ tlb_index' = IF E = {} THEN NextIndex ELSE tlb_index
  BY DEF MapPage
<1>2. n.tlb = tlb
  BY DEF M
<1>3. E = Entries(n.tlb, g) /\ E \subseteq 1 .. TlbSize
  BY <1>2 DEF tlb_get_entry, Entries
<1>4. \A j, k \in E : j = k
  BY <1>3 DEF ViewRight, EntriesRight, Entries, Mapped
<1> HIDE DEF E
<1>5. i \in 1 .. TlbSize /\ E \subseteq {i}
  <2>1. CASE E = {}
    BY <2>1
  <2>2. CASE E # {}
    <3>1. PICK j : j \in E
      BY <2>2
    <3>2. j \in Int /\ E = {j}
      BY <3>1, <1>3, <1>4
    <3>3. i = j
      BY <3>2
    <3>4. QED
      BY <3>1, <3>2, <3>3, <1>3
  <2>3. QED
    BY <2>1, <2>2
<1>6. prot \in Prots
  BY DEF ProtFor, Prots
<1> HIDE DEF i, prot
<1>7. ViewRight(cur, LiveSet, P, Q, r, mem, F)
      /\ r.tlb = Entered(n.tlb, i, g, f, prot)
  <2>1. Entries(n.tlb, g) \subseteq {i}
    BY <1>3, <1>5
  <2>2. /\ PagingConstants /\ ViewRight(cur, LiveSet, P, Q, n, mem, F) /\ cur \in LiveSet
        /\ g \in Pages /\ f = P[cur][g] /\ f # NoFrame /\ <<cur, g>> \notin F
    OBVIOUS
  <2>3. QED
    BY ONLY <2>1, <2>2, <1>5, <1>6, MapKeeps
<1> HIDE DEF r
<1>8. M' = r
  <2>1. r \in Machine
    BY <1>7 DEF ViewRight, ViewType
  <2>2. QED
    BY <2>1, <1>1, PutMachine
<1>9. tlb' = Entered(tlb, i, g, f, prot)
  BY <1>1, <1>2, <1>7 DEF Put
<1>10. NextIndex \in 1 .. TlbSize
  <2>1. TlbSize \in Nat /\ TlbSize > 0 /\ tlb_index \in Nat
    BY NumbersOK
  <2>2. tlb_index % TlbSize \in 0 .. TlbSize - 1
    BY <2>1
  <2>3. QED
    BY <2>1, <2>2 DEF NextIndex
<1>11. QED
  BY <1>1, <1>5, <1>7, <1>8, <1>9, <1>10 DEF prot

\* A step in the kernel: the process goes on, or waits, with t left to do.
LEMMA KernelStepIInv ==
    ASSUME IInv, View', NEW p \in Procs, NEW t \in Seq(Steps), TodoRight(t),
           todo' = [todo EXCEPT ![p] = t], tlb_index' \in 1 .. TlbSize,
           UNCHANGED <<cur, acc, cpu, saved, ran>>,
           st[p] \in {"kernel", "wait", "yield"}, NEW w \in {"kernel", "wait"},
           st' = [st EXCEPT ![p] = w]
    PROVE  IInv'
<1>1. st \in [Procs -> Modes] /\ todo \in [Procs -> Seq(Steps)] /\ w \in Modes
  BY DEF IInv, Types, Modes
<1>2. Types'
  BY <1>1 DEF IInv, Types
<1>3. TodosRight'
  <2> SUFFICES ASSUME NEW q \in Procs
               PROVE  /\ st'[q] \in Dead \cup {"user", "yield"} => todo'[q] = <<>>
                      /\ TodoRight(todo'[q])
    BY DEF TodosRight, Dead
  <2>1. CASE q = p
    BY <2>1, <1>1 DEF Dead
  <2>2. CASE q # p
    BY <2>2, <1>1 DEF IInv, TodosRight
  <2>3. QED
    BY <2>1, <2>2
<1>4. ContextsRight'
  BY <1>1 DEF IInv, ContextsRight
<1>5. QED
  BY <1>2, <1>3, <1>4 DEF IInv

\* proc_pagefault: the page is mapped, or is going to be fetched, or the
\* process ends.
LEMMA PagefaultIInv ==
    ASSUME PagingConstants, IInv, NEW p \in Procs, cur = p, st[p] = "kernel",
           todo[p] # <<>>, Head(todo[p]).op # "fetch",
           NEW g \in Pages \cup {Outside}, NEW access \in {"?", "r", "w"},
           NEW rest \in Seq(Steps), TodoRight(rest),
           rest # <<>> => Head(rest).op \notin {"fault", "fetch"},
           proc_pagefault(p, g, access, rest), UNCHANGED <<cur, acc, cpu, saved, ran>>
    PROVE  IInv'
<1>1. /\ ViewRight(cur, LiveSet, pt, free, M, mem, Fetches) /\ Types
      /\ st \in [Procs -> Modes] /\ st = [st EXCEPT ![p] = "kernel"]
      /\ M \in Machine /\ pt \in [Procs -> [Pages -> Frames \cup {NoFrame}]]
      /\ tlb_index \in 1 .. TlbSize
  BY DEF IInv, Types, View, ViewRight, ViewType
<1>2. Live(p) /\ cur \in LiveSet
  BY DEF LiveSet, Live, Dead
<1>3. \A h \in Pages : <<p, h>> \notin Fetches
  BY DEF Fetches, Fetching
<1>4. Access(g, access) \in {"r", "w"}
  BY DEF Access
<1> DEFINE a == Access(g, access)
<1>5. CASE (g = Outside \/ Refused(g, access)) /\ proc_term(p, "illmem")
           /\ todo' = [todo EXCEPT ![p] = <<>>]
  <2>1. "illmem" \in Dead
    BY DEF Dead
  <2>2. QED
    BY <1>2, <1>5, <2>1, TermIInv
<1>6. CASE UNCHANGED <<st, todo, vm>>
  <2>1. M' = M /\ Fetches' = Fetches /\ LiveSet' = LiveSet /\ pt' = pt /\ free' = free
        /\ mem' = mem /\ tlb_index' = tlb_index /\ st' = st /\ todo' = todo
    BY <1>6 DEF vm, M, Fetches, Fetching, LiveSet, Live
  <2>2. QED
    BY <2>1 DEF IInv, View, Types, TodosRight, ContextsRight
<1>7. ASSUME g # Outside, pt[p][g] = NoFrame, free # <<>>,
             pt' = [pt EXCEPT ![p][g] = Head(free)], free' = Tail(free), mem' = mem
      PROVE  ViewRight(cur, LiveSet, pt', free', M, mem, Fetches \cup {<<cur, g>>})
             /\ g \in Pages /\ pt'[cur][g] = Head(free) /\ Head(free) \in Frames
  <2>1. g \in Pages
    BY <1>7
  <2>2. ViewRight(cur, LiveSet, pt', free', M, mem, Fetches \cup {<<cur, g>>})
    BY <1>1, <1>2, <1>7, <2>1, AllocKeeps
  <2>3. Head(free) \in Frames
    <3>1. free \in Seq(Frames)
      BY <1>1 DEF ViewRight, ViewType
    <3>2. QED
      BY <3>1, <1>7
  <2>4. QED
    BY <1>1, <1>7, <2>1, <2>2, <2>3
<1>8. CASE /\ g # Outside /\ pt[p][g] = NoFrame /\ free # <<>>
           /\ pt' = [pt EXCEPT ![p][g] = Head(free)] /\ free' = Tail(free) /\ mem' = mem
           /\ st' = [st EXCEPT ![p] = "wait"]
           /\ todo' = [todo EXCEPT ![p] = <<Step("fetch", g, a)>> \o rest]
           /\ UNCHANGED <<tlb, frame, window, tlb_index>>
  <2> DEFINE s == Step("fetch", g, a)
             t == <<s>> \o rest
  <2>1. ViewRight(cur, LiveSet, pt', free', M, mem, Fetches \cup {<<cur, g>>}) /\ g \in Pages
    BY <1>7, <1>8
  <2>2. s \in Steps /\ StepRight(s, TRUE) /\ s.op = "fetch" /\ s.page = g
    BY <1>4, <2>1 DEF Step, Steps, StepRight
  <2> HIDE DEF s
  <2>3. t \in Seq(Steps) /\ TodoRight(t) /\ t # <<>> /\ Head(t) = s
    BY <2>2, ConsTodo
  <2>4. todo' = [todo EXCEPT ![p] = t]
    BY <1>8 DEF s
  <2> HIDE DEF t
  <2>5. Fetches' = Fetches \cup {<<cur, g>>}
    <3>1. Fetches' = {x \in Fetches : x[1] # p}
                      \cup {x \in Procs \X Pages : x[1] = p /\ IsFetch(t, x[2])}
      BY <1>1, <2>4, FetchesAfter
    <3>2. \A h : IsFetch(t, h) <=> h = g
      BY <2>2, <2>3 DEF IsFetch
    <3>3. {x \in Fetches : x[1] # p} = Fetches
      BY <1>3 DEF Fetches
    <3>4. {x \in Procs \X Pages : x[1] = p /\ IsFetch(t, x[2])} = {<<cur, g>>}
      BY <3>2, <2>1
    <3>5. QED
      BY <3>1, <3>3, <3>4
  <2>6. LiveSet' = LiveSet /\ M' = M
    BY <1>1, <1>2, <1>8 DEF LiveSet, Live, Dead, M
  <2>7. View'
    BY <2>1, <2>5, <2>6, <1>8 DEF View
  <2>8. QED
    BY <1>1, <1>8, <2>3, <2>4, <2>7, KernelStepIInv
<1>9. ASSUME NEW F, NEW fr, NEW n, n = [M EXCEPT !.frame = fr], NEW f, g \in Pages,
             f = pt'[cur][g], f # NoFrame, <<cur, g>> \notin F, F = Fetches,
             ViewRight(cur, LiveSet, pt', free', n, mem, F), MapPage(p, g, f, a, fr),
             todo' = [todo EXCEPT ![p] = rest], st' = st, mem' = mem
      PROVE  IInv'
  <2>1. ViewRight(cur, LiveSet, pt', free', M', mem, F) /\ tlb_index' \in 1 .. TlbSize
    BY <1>1, <1>2, <1>9, MapPageKeeps
  <2>2. LiveSet' = LiveSet
    BY <1>9 DEF LiveSet, Live
  <2>3. Fetches' = Fetches
    BY <1>1, <1>9, FetchesStay
  <2>4. View'
    BY <2>1, <2>2, <2>3, <1>9 DEF View
  <2>5. st' = [st EXCEPT ![p] = "kernel"]
    BY <1>1, <1>9
  <2>6. QED
    BY <1>9, <2>1, <2>4, <2>5, KernelStepIInv
<1>10. CASE /\ g # Outside /\ pt[p][g] = NoFrame /\ free # <<>> /\ ~InFile(g)
            /\ pt' = [pt EXCEPT ![p][g] = Head(free)] /\ free' = Tail(free) /\ mem' = mem
            /\ MapPage(p, g, Head(free), a, frame_init(g, Head(free)))
            /\ todo' = [todo EXCEPT ![p] = rest] /\ st' = st
  <2> DEFINE f == Head(free)
             fr == frame_init(g, f)
             n == [M EXCEPT !.frame = fr]
             F == Fetches \cup {<<cur, g>>}
  <2>1. ViewRight(cur, LiveSet, pt', free', M, mem, F)
        /\ g \in Pages /\ pt'[cur][g] = f /\ f \in Frames
    BY <1>7, <1>10
  <2>2. f # NoFrame
    BY <2>1, NumbersOK
  <2>3. Image(cur, g) = 0 /\ fr = [frame EXCEPT ![f] = 0]
    BY <1>10 DEF frame_init, InFile, Image
  <2> HIDE DEF f
  <2>4. n = [M EXCEPT !.frame[pt'[cur][g]] = Image(cur, g)]
    BY <2>1, <2>3 DEF M
  <2>5. ViewRight(cur, LiveSet, pt', free', [M EXCEPT !.frame[pt'[cur][g]] = Image(cur, g)], mem,
                  F \ {<<cur, g>>})
    BY <2>1, FillKeeps
  <2>6. F \ {<<cur, g>>} = Fetches /\ <<cur, g>> \notin Fetches
    BY <1>3, <2>1
  <2>7. ViewRight(cur, LiveSet, pt', free', n, mem, Fetches)
    BY <2>4, <2>5, <2>6
  <2>8. MapPage(p, g, f, a, fr)
    BY <1>10 DEF f
  <2> HIDE DEF fr, n, F
  <2>9. n = [M EXCEPT !.frame = fr]
    BY DEF n
  <2>10. QED
    BY <1>9, <1>10, <2>1, <2>2, <2>6, <2>7, <2>8, <2>9
<1>11. CASE /\ g # Outside /\ pt[p][g] # NoFrame
            /\ MapPage(p, g, pt[p][g], a, frame)
            /\ todo' = [todo EXCEPT ![p] = rest] /\ UNCHANGED <<st, pt, free, mem>>
  <2>1. M = [M EXCEPT !.frame = frame] /\ g \in Pages
    BY <1>11 DEF M
  <2>2. <<cur, g>> \notin Fetches
    BY <1>3, <2>1
  <2>3. QED
    BY <1>1, <1>9, <1>11, <2>1, <2>2
<1>12. QED
  BY <1>5, <1>6, <1>8, <1>10, <1>11 DEF proc_pagefault

-----------------------------------------------------------------------------
(* The invariant is inductive.                                             *)

\* At the start all frames are free and no process lives.
LEMMA InitIInv ==
    ASSUME PagingConstants, Init
    PROVE  IInv
<1>1. NFrames \in Nat /\ Frames = 1 .. NFrames /\ 1 \in 1 .. TlbSize /\ Frames \subseteq Nat
      /\ Kernel \in Nat
  BY NumbersOK DEF Frames
<1>2. LiveSet = {} /\ Fetches = {}
  BY DEF Init, LiveSet, Live, Dead, Fetches, Fetching
<1>3. free \in Seq(Frames) /\ Distinct(free) /\ \A f \in Frames : Has(free, f)
  <2>1. free \in [1 .. NFrames -> Frames] /\ \A i \in Frames : free[i] = i
    BY <1>1 DEF Init
  <2>2. free \in Seq(Frames)
    BY <1>1, <2>1, SeqDef
  <2>3. QED
    BY <1>1, <2>1, <2>2 DEF Distinct, Has
<1>4. NoEntry \in TlbEntry /\ NoEntry.phys = NoFrame
  BY DEF NoEntry, TlbEntry
<1>5. /\ M \in Machine /\ M.tlb = tlb /\ M.window = window /\ M.frame = frame
      /\ \A i \in 1 .. TlbSize : M.tlb[i] = NoEntry
  <2>1. /\ tlb \in [1 .. TlbSize -> TlbEntry] /\ frame \in [Frames -> Nat]
        /\ window \in [Pages -> Nat] /\ \A i \in 1 .. TlbSize : tlb[i] = NoEntry
    BY <1>4 DEF Init
  <2>2. QED
    BY <2>1 DEF M, Machine
<1>6. mem \in [Procs -> [Pages -> Nat]]
  <2>1. \A p \in Procs : [g \in Pages |-> Image(p, g)] \in [Pages -> Nat]
    BY ImageNat
  <2>2. QED
    BY <2>1 DEF Init
<1>7. ViewType(cur, {}, pt, free, M, mem, {})
  BY <1>3, <1>5, <1>6 DEF ViewType, Init
<1>8. FramesApart({}, pt, free) /\ FramesFound({}, pt, free)
  BY <1>3 DEF FramesApart, FramesFound
<1>9. EntriesRight(cur, {}, pt, M)
  BY <1>4, <1>5 DEF EntriesRight, Mapped
<1>10. View
  BY <1>2, <1>7, <1>8, <1>9 DEF View, ViewRight, FetchRight, ContentsRight
<1>11. Types
  <2>1. None \in Accesses /\ <<Kernel, 0>> \in Contexts /\ "none" \in Modes
        /\ <<>> \in Seq(Steps)
    BY DEF None, Accesses, Contexts, Modes, Dead
  <2>2. QED
    BY <1>1, <2>1 DEF Types, Init
<1>12. TodosRight /\ ContextsRight
  BY DEF TodosRight, TodoRight, ContextsRight, Init, Dead
<1>13. QED
  BY <1>10, <1>11, <1>12 DEF IInv

\* Steps that change nothing but counters.
LEMMA StutterIInv ==
    ASSUME IInv, UNCHANGED <<cur, st, todo, acc, vm, cpu, saved, ran>>
    PROVE  IInv'
<1>1. M' = M /\ Fetches' = Fetches /\ LiveSet' = LiveSet /\ pt' = pt /\ free' = free
      /\ mem' = mem /\ tlb_index' = tlb_index /\ st' = st /\ todo' = todo /\ cur' = cur
  BY DEF vm, M, Fetches, Fetching, LiveSet, Live
<1>2. QED
  BY <1>1 DEF IInv, View, Types, TodosRight, ContextsRight

\* Steps that leave the memory alone.
LEMMA SameView ==
    ASSUME IInv, UNCHANGED <<cur, vm>>, LiveSet' = LiveSet, Fetches' = Fetches
    PROVE  View' /\ tlb_index' \in 1 .. TlbSize
  BY DEF IInv, View, Types, vm, M

\* The program decides what to do next.
LEMMA DecideIInv ==
    ASSUME PagingConstants, IInv, NEW p \in Procs, Decide(p)
    PROVE  IInv'
<1>1. acc' \in [Procs -> Accesses]
  <2>1. acc \in [Procs -> Accesses]
    BY DEF IInv, Types
  <2>2. ASSUME NEW op \in {"r", "x"}, NEW g \in Pages \cup {Outside}
        PROVE  [page |-> g, op |-> op, val |-> 0] \in Accesses
    BY DEF Accesses
  <2>3. ASSUME NEW g \in Pages, NEW v \in 1 .. NVals
        PROVE  [page |-> g, op |-> "w", val |-> Value(p, v)] \in Accesses
    <3>1. Value(p, v) \in Nat
      BY NumbersOK DEF Value
    <3>2. QED
      BY <3>1 DEF Accesses
  <2>4. QED
    BY <2>1, <2>2, <2>3 DEF Decide
<1>2. UNCHANGED <<cur, st, todo, vm, cpu, saved, ran>>
  BY DEF Decide
<1>3. LiveSet' = LiveSet /\ Fetches' = Fetches
  BY <1>2 DEF LiveSet, Live, Fetches, Fetching
<1>4. View' /\ tlb_index' \in 1 .. TlbSize
  BY <1>2, <1>3, SameView
<1>5. QED
  BY <1>1, <1>2, <1>4 DEF IInv, Types, TodosRight, ContextsRight

\* An access that the TLB allows.
LEMMA PerformIInv ==
    ASSUME PagingConstants, IInv, NEW p \in Procs, Perform(p)
    PROVE  IInv'
<1>1. /\ cur = p /\ st[p] = "user" /\ acc \in [Procs -> Accesses] /\ ran \in [Procs -> Nat]
      /\ acc[p] \in Accesses /\ ran[p] \in Nat /\ cpu = <<p, ran[p]>>
  BY DEF IInv, Types, ContextsRight, Perform, Running
<1>2. UNCHANGED <<cur, st, todo, pt, frame, free, tlb, tlb_index, saved>>
  BY DEF Perform
<1>3. LiveSet' = LiveSet /\ Fetches' = Fetches
  BY <1>2 DEF LiveSet, Live, Fetches, Fetching
<1>4. View'
  <2>1. CASE acc[p].op = "w"
    <3> DEFINE g == acc[p].page
               v == acc[p].val
    <3>1. PICK i \in Entries(tlb, g) : "w" \in tlb[i].prot
      BY <2>1 DEF Perform, Prot, tlb_get_entry
    <3>2. M.tlb = tlb /\ M \in Machine /\ mem \in [Procs -> [Pages -> Nat]]
          /\ ViewRight(cur, LiveSet, pt, free, M, mem, Fetches)
      BY DEF IInv, View, ViewRight, ViewType, M
    <3>3. g \in Pages /\ v \in Nat
      <4>1. i \in 1 .. TlbSize /\ Mapped(M, i) /\ M.tlb[i].virt = g
        BY <3>1, <3>2 DEF Entries, Mapped
      <4>2. QED
        BY <4>1, <3>2, <1>1 DEF ViewRight, EntriesRight, Accesses
    <3> HIDE DEF g, v
    <3>4. ViewRight(cur, LiveSet, pt, free, [M EXCEPT !.window[g] = v], [mem EXCEPT ![cur][g] = v],
                    Fetches)
      BY <3>1, <3>2, <3>3, StoreKeeps
    <3>5. M' = [M EXCEPT !.window[g] = v] /\ mem' = [mem EXCEPT ![cur][g] = v]
      BY <2>1, <1>1, <1>2 DEF Perform, M, g, v
    <3>6. QED
      BY <3>4, <3>5, <1>2, <1>3 DEF View
  <2>2. CASE acc[p].op # "w"
    <3>1. UNCHANGED <<cur, vm>>
      BY <2>2, <1>2 DEF Perform, vm
    <3>2. QED
      BY <3>1, <1>3, SameView
  <2>3. QED
    BY <2>1, <2>2
<1>5. None \in Accesses
  BY DEF None, Accesses
<1>6. acc' = [acc EXCEPT ![p] = None] /\ ran' = [ran EXCEPT ![p] = @ + 1]
      /\ cpu' = <<cpu[1], cpu[2] + 1>>
  BY DEF Perform
<1>7. cpu' = <<p, ran'[p]>> /\ ran'[p] \in Nat /\ ran' \in [Procs -> Nat]
      /\ \A q \in Procs : q # p => ran'[q] = ran[q]
  BY <1>1, <1>6
<1>8. Types'
  BY <1>1, <1>2, <1>5, <1>6, <1>7 DEF IInv, Types, Contexts
<1>9. TodosRight' /\ ContextsRight'
  <2>1. ContextsRight'
    <3> SUFFICES ASSUME NEW q \in Procs
                 PROVE  /\ st'[q] = "user" => cur' = q /\ cpu' = <<q, ran'[q]>>
                        /\ st'[q] \in {"kernel", "wait", "yield"} => saved'[q] = <<q, ran'[q]>>
      BY DEF ContextsRight
    <3>1. QED
      BY <1>1, <1>2, <1>7 DEF IInv, ContextsRight
  <2>2. QED
    BY <2>1, <1>2 DEF IInv, TodosRight
<1>10. QED
  BY <1>4, <1>8, <1>9 DEF IInv

\* A page fault, an interrupt or a system call of the program: the context is
\* saved and the TLB is synced.
LEMMA HandlerIInv ==
    ASSUME PagingConstants, IInv, NEW p \in Procs, Running(p),
           NEW context \in Contexts, NEW where \in {"kernel", "yield"}, NEW steps \in Seq(Steps),
           TodoRight(steps), steps # <<>> => Head(steps).op # "fetch",
           where = "yield" => steps = <<>>,
           acc' \in [Procs -> Accesses], ran' \in [Procs -> Nat], context = <<p, ran'[p]>>,
           \A q \in Procs : q # p => ran'[q] = ran[q],
           intr_handler(p, context, where, steps)
    PROVE  IInv'
<1>1. /\ st \in [Procs -> Modes] /\ todo \in [Procs -> Seq(Steps)] /\ saved \in [Procs -> Contexts]
      /\ cur = p /\ st[p] = "user" /\ todo[p] = <<>> /\ where \in Modes
  BY DEF IInv, Types, TodosRight, Running, Modes
<1>2. /\ saved' = [saved EXCEPT ![p] = context] /\ st' = [st EXCEPT ![p] = where]
      /\ todo' = [todo EXCEPT ![p] = steps] /\ Put(tlb_sync(M))
      /\ UNCHANGED <<cur, pt, free, tlb_index, mem, cpu>>
  BY DEF intr_handler
<1>3. ViewRight(cur, LiveSet, pt, free, tlb_sync(M), mem, Fetches)
  <2>1. ViewRight(cur, LiveSet, pt, free, M, mem, Fetches) /\ 1 .. TlbSize \in SUBSET (1 .. TlbSize)
    BY DEF IInv, View
  <2>2. ViewRight(cur, LiveSet, pt, free, tlb_sync_entry(M, 1 .. TlbSize), mem, Fetches)
    BY <2>1, SyncKeeps
  <2>3. QED
    BY <2>2 DEF tlb_sync
<1>4. M' = tlb_sync(M)
  <2>1. tlb_sync(M) \in Machine
    BY <1>3 DEF ViewRight, ViewType
  <2>2. QED
    BY <2>1, <1>2, PutMachine
<1>5. Fetches' = Fetches
  BY <1>1, <1>2, FetchesStay DEF IInv
<1>6. LiveSet' = LiveSet
  BY <1>1, <1>2 DEF LiveSet, Live, Dead
<1>7. View'
  BY <1>2, <1>3, <1>4, <1>5, <1>6 DEF View
<1>8. Types'
  BY <1>1, <1>2 DEF IInv, Types
<1>9. TodosRight'
  <2> SUFFICES ASSUME NEW q \in Procs
               PROVE  /\ st'[q] \in Dead \cup {"user", "yield"} => todo'[q] = <<>>
                      /\ TodoRight(todo'[q])
    BY DEF TodosRight, Dead
  <2>1. CASE q = p
    BY <2>1, <1>1, <1>2 DEF Dead
  <2>2. CASE q # p
    BY <2>2, <1>1, <1>2 DEF IInv, TodosRight
  <2>3. QED
    BY <2>1, <2>2
<1>10. ContextsRight'
  <2> SUFFICES ASSUME NEW q \in Procs
               PROVE  /\ st'[q] = "user" => cur' = q /\ cpu' = <<q, ran'[q]>>
                      /\ st'[q] \in {"kernel", "wait", "yield"} => saved'[q] = <<q, ran'[q]>>
    BY DEF ContextsRight
  <2>1. CASE q = p
    BY <2>1, <1>1, <1>2
  <2>2. CASE q # p
    BY <2>2, <1>1, <1>2 DEF IInv, ContextsRight
  <2>3. QED
    BY <2>1, <2>2
<1>11. QED
  BY <1>7, <1>8, <1>9, <1>10 DEF IInv

\* Page faults and interrupts of a program.
LEMMA FaultInterruptIInv ==
    ASSUME PagingConstants, IInv, NEW p \in Procs, PageFault(p) \/ Interrupt(p)
    PROVE  IInv'
<1>1. Running(p) /\ UNCHANGED <<acc, ran>>
  BY DEF PageFault, Interrupt
<1>2. /\ cpu \in Contexts /\ cpu = <<p, ran[p]>> /\ acc \in [Procs -> Accesses]
      /\ ran \in [Procs -> Nat] /\ acc[p] \in Accesses
  BY <1>1 DEF IInv, Types, ContextsRight, Running
<1>3. CASE Interrupt(p)
  <2>1. intr_handler(p, cpu, "yield", <<>>)
    BY <1>3 DEF Interrupt
  <2>2. <<>> \in Seq(Steps) /\ TodoRight(<<>>)
    BY DEF TodoRight
  <2>3. QED
    BY <1>1, <1>2, <2>1, <2>2, HandlerIInv
<1>4. CASE PageFault(p)
  <2> DEFINE s == Step("fault", acc[p].page, 0)
  <2>1. intr_handler(p, cpu, "kernel", <<s>>)
    BY <1>4 DEF PageFault
  <2>2. s \in Steps /\ s.op = "fault"
    BY <1>2 DEF Step, Steps, Accesses
  <2> HIDE DEF s
  <2>3. <<s>> \in Seq(Steps) /\ TodoRight(<<s>>) /\ Head(<<s>>).op # "fetch"
    BY <2>2 DEF TodoRight, StepRight
  <2>4. QED
    BY <1>1, <1>2, <2>1, <2>3, HandlerIInv
<1>5. QED
  BY <1>3, <1>4

\* Every step of a system call is in S when those it is made of are.
LEMMA SysCallSteps ==
    ASSUME NEW S, NEW X, NEW buf \in Seq(X), NEW v,
           NEW call \in {"exit", "send", "recv", "rpc", "gettime"},
           Step("from", Stack, 0) \in S, Step("to", Stack, v) \in S,
           Do("sync") \in S, Do("wait") \in S, Do("exit") \in S,
           \A i \in DOMAIN buf : Step("from", buf[i], 0) \in S /\ Step("to", buf[i], v) \in S
    PROVE  SysCall(call, buf, v) \in Seq(S)
<1>1. Copies("from", buf, 0) \in Seq(S) /\ Copies("to", buf, v) \in Seq(S)
  <2>1. Len(buf) \in Nat /\ DOMAIN buf = 1 .. Len(buf)
    OBVIOUS
  <2>2. /\ Copies("from", buf, 0) \in [1 .. Len(buf) -> S]
        /\ Copies("to", buf, v) \in [1 .. Len(buf) -> S]
    BY <2>1 DEF Copies
  <2>3. QED
    BY <2>1, <2>2, SeqDef
<1> DEFINE A == Copies("from", buf, 0)
           B == Copies("to", buf, v)
           R == Return(v)
           h == <<Step("from", Stack, 0)>>
           w == <<Do("wait")>>
           y == <<Do("sync")>>
           x == <<Do("exit")>>
<1>2. R \in Seq(S) /\ h \in Seq(S) /\ w \in Seq(S) /\ y \in Seq(S) /\ x \in Seq(S)
  BY DEF Return
<1>3. SysCall(call, buf, v) = h \o
        CASE call = "exit"              -> x
          [] call \in {"send", "print"} -> A \o R
          [] call = "recv"              -> w \o B \o y \o R
          [] call = "rpc"               -> A \o w \o B \o y \o R
          [] call = "gettime"           -> R
  BY DEF SysCall
<1> HIDE DEF A, B, R, h, w, y, x
<1>4. A \in Seq(S) /\ B \in Seq(S)
  BY <1>1 DEF A, B
<1>5. A \o R \in Seq(S) /\ w \o B \in Seq(S) /\ A \o w \in Seq(S)
  BY <1>2, <1>4
<1>6. w \o B \o y \in Seq(S) /\ A \o w \o B \in Seq(S)
  BY <1>2, <1>4, <1>5
<1>7. w \o B \o y \o R \in Seq(S) /\ A \o w \o B \o y \in Seq(S)
  BY <1>2, <1>6
<1>8. A \o w \o B \o y \o R \in Seq(S)
  BY <1>2, <1>7
<1>9. CASE call = "exit"
  BY <1>2, <1>3, <1>9
<1>10. CASE call = "send"
  BY <1>2, <1>3, <1>5, <1>10
<1>11. CASE call = "recv"
  BY <1>2, <1>3, <1>7, <1>11
<1>12. CASE call = "rpc"
  BY <1>2, <1>3, <1>8, <1>12
<1>13. CASE call = "gettime"
  BY <1>2, <1>3, <1>13
<1>14. QED
  BY <1>9, <1>10, <1>11, <1>12, <1>13

PlainSteps == [op : {"from", "to", "sync", "wait", "exit"}, page : Pages \cup {Outside}, val : Nat]

\* Steps that are neither faults nor fetches.
LEMMA PlainTodo ==
    ASSUME NEW t \in Seq(PlainSteps)
    PROVE  t \in Seq(Steps) /\ TodoRight(t) /\ (t # <<>> => Head(t).op # "fetch")
<1>1. PlainSteps \subseteq Steps
  BY DEF PlainSteps, Steps
<1>2. t \in Seq(Steps)
  BY <1>1, SeqMonotonic
<1>3. \A i \in DOMAIN t : t[i] \in PlainSteps
  OBVIOUS
<1>4. \A s \in PlainSteps : StepRight(s, TRUE) /\ StepRight(s, FALSE) /\ s.op # "fetch"
  BY DEF PlainSteps, StepRight
<1>5. TodoRight(t)
  BY <1>3, <1>4 DEF TodoRight, StepRight
<1>6. t # <<>> => Head(t) \in PlainSteps
  OBVIOUS
<1>7. QED
  BY <1>2, <1>4, <1>5, <1>6

\* The buffers of system calls are lists of pages of CopyPages.
LEMMA BufferPages ==
    ASSUME PagingConstants, NEW buf \in Buffers
    PROVE  buf \in Seq(CopyPages) /\ 1 \in DOMAIN buf /\ buf[1] \in CopyPages
           /\ ((\E i \in DOMAIN buf : buf[i] = Outside) => buf[1] = Outside)
<1>1. CASE \E g \in CopyPages : buf = <<g>>
  BY <1>1
<1>2. CASE \E g \in {h \in CopyPages : h # Outside /\ h + 1 \in CopyPages} : buf = <<g, g + 1>>
  <2>1. PICK g \in CopyPages : g # Outside /\ g + 1 \in CopyPages /\ buf = <<g, g + 1>>
    BY <1>2
  <2>2. buf \in Seq(CopyPages) /\ DOMAIN buf = {1, 2} /\ buf[1] = g /\ buf[2] = g + 1
    BY <2>1
  <2>3. g \in Nat /\ g + 1 # Outside
    <3>1. CopyPages \subseteq Pages \cup {Outside} /\ Pages \subseteq Nat /\ Outside = 0
      BY DEF PagingConstants, Outside
    <3>2. QED
      BY <2>1, <3>1
  <2>4. QED
    BY <2>1, <2>2, <2>3
<1>3. QED
  BY <1>1, <1>2 DEF Buffers

\* System calls of a program.
LEMMA SyscallIInv ==
    ASSUME PagingConstants, IInv, NEW p \in Procs, proc_syscall(p)
    PROVE  IInv'
<1>1. PICK call \in {"exit", "send", "recv", "rpc", "gettime"}, v \in 1 .. NVals, buf \in Buffers :
          /\ acc' = [acc EXCEPT ![p] = [page |-> buf[1], op |-> "sys", val |-> 0]]
          /\ intr_handler(p, <<cpu[1], cpu[2] + 1>>, "kernel", SysCall(call, buf, Value(p, v)))
  BY DEF proc_syscall
<1>2. Running(p) /\ ran' = [ran EXCEPT ![p] = @ + 1]
  BY DEF proc_syscall
<1>3. /\ cpu = <<p, ran[p]>> /\ ran \in [Procs -> Nat] /\ acc \in [Procs -> Accesses]
  BY <1>2 DEF IInv, Types, ContextsRight, Running
<1>4. buf \in Seq(CopyPages) /\ 1 \in DOMAIN buf /\ buf[1] \in CopyPages
      /\ CopyPages \subseteq Pages \cup {Outside} /\ Stack \in Pages
  <2>1. CopyPages \subseteq Pages \cup {Outside}
    BY DEF PagingConstants
  <2>2. Stack \in Pages
    BY NumbersOK
  <2>3. QED
    BY <2>1, <2>2, BufferPages
<1>5. acc' \in [Procs -> Accesses]
  <2>1. [page |-> buf[1], op |-> "sys", val |-> 0] \in Accesses
    BY <1>4 DEF Accesses
  <2>2. QED
    BY <1>1, <1>3, <2>1
<1>6. Value(p, v) \in Nat
  BY NumbersOK DEF Value
<1>7. SysCall(call, buf, Value(p, v)) \in Seq(PlainSteps)
  <2>1. /\ Step("from", Stack, 0) \in PlainSteps /\ Step("to", Stack, Value(p, v)) \in PlainSteps
        /\ Do("sync") \in PlainSteps /\ Do("wait") \in PlainSteps /\ Do("exit") \in PlainSteps
    BY <1>4, <1>6 DEF PlainSteps, Step, Do
  <2>2. ASSUME NEW i \in DOMAIN buf
        PROVE  Step("from", buf[i], 0) \in PlainSteps /\ Step("to", buf[i], Value(p, v)) \in PlainSteps
    <3>1. buf[i] \in Pages \cup {Outside}
      BY <1>4
    <3>2. QED
      BY <3>1, <1>6 DEF PlainSteps, Step
  <2>3. QED
    BY <2>1, <2>2, <1>4, SysCallSteps
<1> DEFINE t == SysCall(call, buf, Value(p, v))
           context == <<cpu[1], cpu[2] + 1>>
<1>8. t \in Seq(Steps) /\ TodoRight(t) /\ (t # <<>> => Head(t).op # "fetch")
  BY <1>7, PlainTodo
<1>9. context \in Contexts /\ context = <<p, ran'[p]>> /\ ran' \in [Procs -> Nat]
      /\ \A q \in Procs : q # p => ran'[q] = ran[q]
  BY <1>2, <1>3 DEF Contexts
<1>10. intr_handler(p, context, "kernel", t)
  BY <1>1
<1> HIDE DEF t, context
<1>11. QED
  BY <1>2, <1>5, <1>8, <1>9, <1>10, HandlerIInv

\* What is known of a process in the kernel that has a step to do.
LEMMA InKernelFacts ==
    ASSUME IInv, NEW p \in Procs, NEW op, InKernel(p, op)
    PROVE  /\ cur = p /\ st[p] = "kernel" /\ todo[p] # <<>> /\ Head(todo[p]).op = op
           /\ todo[p] \in Seq(Steps) /\ TodoRight(todo[p])
           /\ Head(todo[p]) \in Steps /\ StepRight(Head(todo[p]), TRUE)
           /\ Tail(todo[p]) \in Seq(Steps) /\ TodoRight(Tail(todo[p]))
           /\ Tail(todo[p]) # <<>> => Head(Tail(todo[p])).op \notin {"fault", "fetch"}
           /\ st = [st EXCEPT ![p] = "kernel"] /\ Live(p)
           /\ todo \in [Procs -> Seq(Steps)] /\ st \in [Procs -> Modes]
<1>1. /\ cur = p /\ st[p] = "kernel" /\ todo[p] # <<>> /\ Head(todo[p]).op = op
      /\ todo[p] \in Seq(Steps) /\ TodoRight(todo[p])
      /\ todo \in [Procs -> Seq(Steps)] /\ st \in [Procs -> Modes]
  BY DEF InKernel, IInv, Types, TodosRight
<1>2. st = [st EXCEPT ![p] = "kernel"] /\ Live(p)
  BY <1>1 DEF Live, Dead
<1>3. QED
  BY <1>1, <1>2, TailTodo

\* The fault of a program, in the kernel.
LEMMA FaultIInv ==
    ASSUME PagingConstants, IInv, NEW p \in Procs, Fault(p)
    PROVE  IInv'
<1>1. InKernel(p, "fault") /\ proc_pagefault(p, Head(todo[p]).page, "?", Tail(todo[p]))
      /\ UNCHANGED <<cur, acc, cpu, saved, ran>>
  BY DEF Fault
<1>2. Head(todo[p]).page \in Pages \cup {Outside}
  BY <1>1, InKernelFacts DEF Steps
<1>3. QED
  BY <1>1, <1>2, InKernelFacts, PagefaultIInv

\* The rest of a page fault when the file server has answered.
LEMMA FetchedIInv ==
    ASSUME PagingConstants, IInv, NEW p \in Procs, Fetched(p)
    PROVE  IInv'
<1>1. InKernel(p, "fetch") /\ UNCHANGED <<cur, st, acc, pt, free, mem, cpu, saved, ran>>
  BY DEF Fetched
<1> DEFINE g == Head(todo[p]).page
           f == pt[p][g]
           fr == [frame EXCEPT ![f] = Image(p, g)]
           a == Head(todo[p]).val
<1>2. CASE MapPage(p, g, f, a, fr) /\ todo' = [todo EXCEPT ![p] = Tail(@)]
  <2> DEFINE n == [M EXCEPT !.frame = fr]
             F == Fetches \ {<<cur, g>>}
  <2>1. g \in Pages /\ cur = p /\ cur \in LiveSet
    BY <1>1, InKernelFacts DEF StepRight, LiveSet
  <2>2. <<cur, g>> \in Fetches
    BY <2>1, <1>1, InKernelFacts DEF Fetches, Fetching
  <2>3. ViewRight(cur, LiveSet, pt, free, M, mem, Fetches) /\ tlb_index \in 1 .. TlbSize
    BY DEF IInv, View, Types
  <2>4. ViewRight(cur, LiveSet, pt, free, [M EXCEPT !.frame[pt[cur][g]] = Image(cur, g)], mem, F)
    BY <2>1, <2>2, <2>3, FillKeeps
  <2>5. n = [M EXCEPT !.frame[pt[cur][g]] = Image(cur, g)]
    BY <2>1 DEF M
  <2>6. f = pt[cur][g] /\ f # NoFrame /\ <<cur, g>> \notin F
    <3>1. <<cur, g>>[1] = cur /\ <<cur, g>>[2] = g
      OBVIOUS
    <3>2. QED
      BY <3>1, <2>1, <2>2, <2>3 DEF ViewRight, FetchRight
  <2>7. ViewRight(cur, LiveSet, pt, free, n, mem, F) /\ n = [M EXCEPT !.frame = fr]
    BY <2>4, <2>5
  <2> HIDE DEF n, F, f, fr, a
  <2>8. ViewRight(cur, LiveSet, pt, free, M', mem, F) /\ tlb_index' \in 1 .. TlbSize
    BY <1>2, <2>1, <2>3, <2>6, <2>7, MapPageKeeps
  <2>9. todo' = [todo EXCEPT ![p] = Tail(todo[p])]
    BY <1>1, <1>2, InKernelFacts
  <2>10. Fetches' = F
    <3>1. Fetches' = {x \in Fetches : x[1] # p}
                      \cup {x \in Procs \X Pages : x[1] = p /\ IsFetch(Tail(todo[p]), x[2])}
      BY <2>9, FetchesAfter DEF IInv
    <3>2. \A h : ~IsFetch(Tail(todo[p]), h)
      BY <1>1, InKernelFacts DEF IsFetch
    <3>3. {x \in Fetches : x[1] # p} = F
      BY <1>1, <2>1, InKernelFacts DEF F, Fetches, Fetching, g
    <3>4. QED
      BY <3>1, <3>2, <3>3
  <2>11. LiveSet' = LiveSet
    BY <1>1 DEF LiveSet, Live
  <2>12. View'
    BY <1>1, <2>8, <2>10, <2>11 DEF View
  <2>13. st' = [st EXCEPT ![p] = "kernel"]
    BY <1>1, InKernelFacts
  <2>14. QED
    BY <1>1, <2>8, <2>9, <2>12, <2>13, InKernelFacts, KernelStepIInv
<1>3. CASE UNCHANGED <<todo, tlb, frame, window, tlb_index>>
  <2>1. UNCHANGED <<cur, st, todo, acc, vm, cpu, saved, ran>>
    BY <1>1, <1>3 DEF vm
  <2>2. QED
    BY <2>1, StutterIInv
<1>4. QED
  BY <1>2, <1>3 DEF Fetched

\* A page copied between user space and the kernel.
LEMMA CopyIInv ==
    ASSUME PagingConstants, IInv, NEW p \in Procs, NEW op \in {"from", "to"}, copy_user(p, op)
    PROVE  IInv'
<1>1. InKernel(p, op) /\ UNCHANGED <<cur, acc, cpu, saved, ran>>
  BY DEF copy_user
<1> DEFINE s == Head(todo[p])
           g == s.page
<1>2. g \in Pages \cup {Outside} /\ (op = "to" => s.val \in Nat)
  BY <1>1, InKernelFacts DEF Steps, StepRight
<1>3. CASE proc_pagefault(p, g, IF op = "to" THEN "w" ELSE "r", todo[p])
  <2> DEFINE access == IF op = "to" THEN "w" ELSE "r"
  <2>1. access \in {"?", "r", "w"}
    OBVIOUS
  <2>2. proc_pagefault(p, g, access, todo[p])
    BY <1>3
  <2>3. Head(todo[p]).op \notin {"fault", "fetch"}
    BY <1>1, InKernelFacts
  <2> HIDE DEF access, g
  <2>4. cur = p /\ st[p] = "kernel" /\ todo[p] # <<>> /\ todo[p] \in Seq(Steps) /\ TodoRight(todo[p])
    BY <1>1, InKernelFacts
  <2>5. QED
    BY <1>1, <1>2, <2>1, <2>2, <2>3, <2>4, PagefaultIInv
<1>4. CASE /\ Accessible(op, g)
           /\ IF op = "to" THEN /\ window' = [window EXCEPT ![g] = s.val]
                                /\ mem' = [mem EXCEPT ![p][g] = s.val]
              ELSE UNCHANGED <<window, mem>>
           /\ todo' = [todo EXCEPT ![p] = Tail(@)]
           /\ UNCHANGED <<st, pt, frame, free, tlb, tlb_index>>
  <2>1. /\ ViewRight(cur, LiveSet, pt, free, M, mem, Fetches) /\ M.tlb = tlb
        /\ tlb_index \in 1 .. TlbSize
    BY DEF IInv, View, Types, M
  <2>2. ViewRight(cur, LiveSet, pt, free, M', mem', Fetches)
    <3>1. CASE op = "to"
      <4>1. PICK i \in Entries(tlb, g) : "w" \in tlb[i].prot
        BY <1>4, <3>1 DEF Accessible, Prot, tlb_get_entry
      <4>2. g \in Pages
        <5>1. i \in 1 .. TlbSize /\ Mapped(M, i) /\ M.tlb[i].virt = g
          BY <4>1, <2>1 DEF Entries, Mapped
        <5>2. QED
          BY <5>1, <2>1 DEF ViewRight, EntriesRight
      <4> DEFINE v == s.val
      <4>3. v \in Nat
        BY <1>2, <3>1
      <4>4. M' = [M EXCEPT !.window[g] = v] /\ mem' = [mem EXCEPT ![cur][g] = v]
        <5>1. cur = p
          BY <1>1, InKernelFacts
        <5>2. QED
          BY <1>4, <3>1, <5>1 DEF M
      <4> HIDE DEF v, g
      <4>5. ViewRight(cur, LiveSet, pt, free, [M EXCEPT !.window[g] = v],
                      [mem EXCEPT ![cur][g] = v], Fetches)
        BY <2>1, <4>1, <4>2, <4>3, StoreKeeps
      <4>6. QED
        BY <4>4, <4>5
    <3>2. CASE op # "to"
      BY <1>4, <2>1, <3>2 DEF M
    <3>3. QED
      BY <3>1, <3>2
  <2>3. todo' = [todo EXCEPT ![p] = Tail(todo[p])]
    BY <1>1, <1>4, InKernelFacts
  <2>4. Fetches' = Fetches
    <3>1. Head(todo[p]).op # "fetch" /\ (Tail(todo[p]) # <<>> => Head(Tail(todo[p])).op # "fetch")
      BY <1>1, InKernelFacts
    <3>2. QED
      BY <2>3, <3>1, FetchesStay DEF IInv
  <2>5. LiveSet' = LiveSet
    BY <1>4 DEF LiveSet, Live
  <2>6. View'
    BY <1>1, <1>4, <2>2, <2>4, <2>5 DEF View
  <2>7. st' = [st EXCEPT ![p] = "kernel"] /\ tlb_index' \in 1 .. TlbSize
    BY <1>1, <1>4, <2>1, InKernelFacts
  <2>8. QED
    BY <1>1, <2>3, <2>6, <2>7, InKernelFacts, KernelStepIInv
<1>5. QED
  BY <1>3, <1>4 DEF copy_user

\* tlb_sync at the end of a copy to user space.
LEMMA SyncIInv ==
    ASSUME PagingConstants, IInv, NEW p \in Procs, SyncTlb(p)
    PROVE  IInv'
<1>1. InKernel(p, "sync") /\ Put(tlb_sync(M)) /\ todo' = [todo EXCEPT ![p] = Tail(@)]
      /\ UNCHANGED <<cur, st, acc, pt, free, tlb_index, mem, cpu, saved, ran>>
  BY DEF SyncTlb
<1>2. ViewRight(cur, LiveSet, pt, free, tlb_sync(M), mem, Fetches)
  <2>1. ViewRight(cur, LiveSet, pt, free, M, mem, Fetches) /\ 1 .. TlbSize \in SUBSET (1 .. TlbSize)
    BY DEF IInv, View
  <2>2. ViewRight(cur, LiveSet, pt, free, tlb_sync_entry(M, 1 .. TlbSize), mem, Fetches)
    BY <2>1, SyncKeeps
  <2>3. QED
    BY <2>2 DEF tlb_sync
<1>3. M' = tlb_sync(M)
  <2>1. tlb_sync(M) \in Machine
    BY <1>2 DEF ViewRight, ViewType
  <2>2. QED
    BY <2>1, <1>1, PutMachine
<1>4. todo' = [todo EXCEPT ![p] = Tail(todo[p])]
  BY <1>1, InKernelFacts
<1>5. Fetches' = Fetches
  <2>0. /\ Head(todo[p]).op \in {"sync", "wait"}
        /\ Tail(todo[p]) # <<>> => Head(Tail(todo[p])).op \notin {"fault", "fetch"}
    BY <1>1, InKernelFacts
  <2>1. Head(todo[p]).op # "fetch" /\ (Tail(todo[p]) # <<>> => Head(Tail(todo[p])).op # "fetch")
    BY <2>0
  <2>2. QED
    BY <1>4, <2>1, FetchesStay DEF IInv
<1>6. LiveSet' = LiveSet
  BY <1>1 DEF LiveSet, Live
<1>7. View'
  BY <1>1, <1>2, <1>3, <1>5, <1>6 DEF View
<1>8. st' = [st EXCEPT ![p] = "kernel"] /\ tlb_index' \in 1 .. TlbSize
  BY <1>1, InKernelFacts DEF IInv, Types
<1>9. QED
  BY <1>1, <1>4, <1>7, <1>8, InKernelFacts, KernelStepIInv

\* Waiting for a message.
LEMMA WaitIInv ==
    ASSUME PagingConstants, IInv, NEW p \in Procs, Wait(p)
    PROVE  IInv'
<1>1. InKernel(p, "wait") /\ todo' = [todo EXCEPT ![p] = Tail(@)] /\ st' = [st EXCEPT ![p] = "wait"]
      /\ UNCHANGED <<cur, acc, vm, cpu, saved, ran>>
  BY DEF Wait
<1>2. todo' = [todo EXCEPT ![p] = Tail(todo[p])]
  BY <1>1, InKernelFacts
<1>3. Fetches' = Fetches
  <2>0. /\ Head(todo[p]).op \in {"sync", "wait"}
        /\ Tail(todo[p]) # <<>> => Head(Tail(todo[p])).op \notin {"fault", "fetch"}
    BY <1>1, InKernelFacts
  <2>1. Head(todo[p]).op # "fetch" /\ (Tail(todo[p]) # <<>> => Head(Tail(todo[p])).op # "fetch")
    BY <2>0
  <2>2. QED
    BY <1>2, <2>1, FetchesStay DEF IInv
<1>4. LiveSet' = LiveSet
  BY <1>1, InKernelFacts DEF LiveSet, Live, Dead
<1>5. View' /\ tlb_index' \in 1 .. TlbSize
  BY <1>1, <1>3, <1>4, SameView
<1>6. QED
  BY <1>1, <1>2, <1>5, InKernelFacts, KernelStepIInv

\* sys_exit, and a kill.
LEMMA EndIInv ==
    ASSUME PagingConstants, IInv, NEW p \in Procs, sys_exit(p) \/ proc_kill(p)
    PROVE  IInv'
<1>1. "exited" \in Dead /\ "killed" \in Dead
  BY DEF Dead
<1>2. CASE sys_exit(p)
  <2>1. InKernel(p, "exit") /\ proc_term(p, "exited") /\ todo' = [todo EXCEPT ![p] = <<>>]
        /\ UNCHANGED <<cur, acc, cpu, saved, ran>>
    BY <1>2 DEF sys_exit
  <2>2. QED
    BY <1>1, <2>1, InKernelFacts, TermIInv
<1>3. CASE proc_kill(p)
  <2>1. Live(p) /\ proc_term(p, "killed") /\ todo' = [todo EXCEPT ![p] = <<>>]
        /\ UNCHANGED <<cur, acc, cpu, saved, ran>>
    BY <1>3 DEF proc_kill
  <2>2. QED
    BY <1>1, <2>1, TermIInv
<1>4. QED
  BY <1>2, <1>3

\* The return to user mode.
LEMMA ToUserIInv ==
    ASSUME PagingConstants, IInv, NEW p \in Procs, ToUser(p)
    PROVE  IInv'
<1>1. /\ cur = p /\ st[p] \in {"kernel", "yield"} /\ todo[p] = <<>>
      /\ st' = [st EXCEPT ![p] = "user"] /\ cpu' = saved[p]
      /\ acc' = [acc EXCEPT ![p] = IF @.op = "sys" THEN None ELSE @]
      /\ UNCHANGED <<cur, todo, vm, saved, ran>>
  BY DEF ToUser, Context
<1>2. /\ st \in [Procs -> Modes] /\ acc \in [Procs -> Accesses] /\ saved \in [Procs -> Contexts]
      /\ "user" \in Modes /\ None \in Accesses
  BY DEF IInv, Types, Modes, None, Accesses
<1>3. LiveSet' = LiveSet /\ Fetches' = Fetches
  BY <1>1, <1>2 DEF LiveSet, Live, Dead, Fetches, Fetching
<1>4. View' /\ tlb_index' \in 1 .. TlbSize
  BY <1>1, <1>3, SameView
<1>5. acc' \in [Procs -> Accesses] /\ cpu' \in Contexts /\ st' \in [Procs -> Modes]
  BY <1>1, <1>2
<1>6. Types'
  BY <1>1, <1>4, <1>5 DEF IInv, Types
<1>7. TodosRight'
  BY <1>1, <1>2 DEF IInv, TodosRight
<1>8. ContextsRight'
  BY <1>1, <1>2 DEF IInv, ContextsRight
<1>9. QED
  BY <1>4, <1>6, <1>7, <1>8 DEF IInv

\* A switch to another process.
LEMMA SwitchIInv ==
    ASSUME PagingConstants, IInv, NEW q \in Procs \cup {Kernel}, proc_after_switch(q)
    PROVE  IInv'
<1>1. /\ Yielding /\ (q # Kernel => st[q] \in {"kernel", "yield"}) /\ cur' = q
      /\ st' = (IF q = Kernel THEN st ELSE [st EXCEPT ![q] = "kernel"])
      /\ Put(tlb_flush(M)) /\ UNCHANGED <<todo, acc, pt, free, tlb_index, mem, cpu, saved, ran>>
  BY DEF proc_after_switch, Runnable
<1>2. st \in [Procs -> Modes] /\ "kernel" \in Modes /\ Kernel \notin Procs
  BY NumbersOK DEF IInv, Types, Modes
<1>3. ViewRight(q, LiveSet, pt, free, tlb_flush(M), mem, Fetches)
  BY SwitchKeeps DEF IInv, View
<1>4. M' = tlb_flush(M)
  <2>1. tlb_flush(M) \in Machine
    BY <1>3 DEF ViewRight, ViewType
  <2>2. QED
    BY <2>1, <1>1, PutMachine
<1>5. \A p \in Procs : st'[p] = IF p = q THEN "kernel" ELSE st[p]
  BY <1>1, <1>2
<1>6. LiveSet' = LiveSet
  BY <1>1, <1>2, <1>5 DEF LiveSet, Live, Dead
<1>7. Fetches' = Fetches
  BY <1>1 DEF Fetches, Fetching
<1>8. View'
  BY <1>1, <1>3, <1>4, <1>6, <1>7 DEF View
<1>9. st' \in [Procs -> Modes]
  BY <1>1, <1>2
<1>10. Types'
  BY <1>1, <1>9 DEF IInv, Types
<1>11. TodosRight'
  <2> SUFFICES ASSUME NEW p \in Procs
               PROVE  /\ st'[p] \in Dead \cup {"user", "yield"} => todo'[p] = <<>>
                      /\ TodoRight(todo'[p])
    BY DEF TodosRight, Dead
  <2>1. QED
    BY <1>1, <1>5 DEF IInv, TodosRight, Dead
<1>12. \A p \in Procs : st[p] # "user"
  <2> SUFFICES ASSUME NEW p \in Procs, st[p] = "user" PROVE FALSE
    OBVIOUS
  <2>1. cur = p
    BY DEF IInv, ContextsRight
  <2>2. QED
    BY <1>1, <1>2, <2>1 DEF Yielding, Dead
<1>13. ContextsRight'
  <2> SUFFICES ASSUME NEW p \in Procs
               PROVE  /\ st'[p] = "user" => cur' = p /\ cpu' = <<p, ran'[p]>>
                      /\ st'[p] \in {"kernel", "wait", "yield"} => saved'[p] = <<p, ran'[p]>>
    BY DEF ContextsRight
  <2>1. QED
    BY <1>1, <1>2, <1>5, <1>12 DEF IInv, ContextsRight
<1>14. QED
  BY <1>8, <1>10, <1>11, <1>13 DEF IInv

\* A message for a process that waits.
LEMMA WakeupIInv ==
    ASSUME PagingConstants, IInv, NEW p \in Procs, proc_wakeup(p)
    PROVE  IInv'
<1>1. st[p] = "wait" /\ st' = [st EXCEPT ![p] = "kernel"]
      /\ UNCHANGED <<cur, todo, acc, vm, cpu, saved, ran>>
  BY DEF proc_wakeup
<1>2. st \in [Procs -> Modes] /\ todo \in [Procs -> Seq(Steps)] /\ todo[p] \in Seq(Steps)
      /\ TodoRight(todo[p]) /\ todo' = [todo EXCEPT ![p] = todo[p]]
  BY <1>1 DEF IInv, Types, TodosRight
<1>3. LiveSet' = LiveSet /\ Fetches' = Fetches
  BY <1>1, <1>2 DEF LiveSet, Live, Dead, Fetches, Fetching
<1>4. View' /\ tlb_index' \in 1 .. TlbSize
  BY <1>1, <1>3, SameView
<1>5. QED
  BY <1>1, <1>2, <1>4, KernelStepIInv

\* A new process.
LEMMA UserProcIInv ==
    ASSUME PagingConstants, IInv, NEW p \in Procs, user_proc(p)
    PROVE  IInv'
<1> DEFINE t == <<Do("wait"), Step("to", Stack, Value(p, 0)), Do("sync")>>
<1>1. /\ cur = Kernel /\ st[p] \in Dead /\ st' = [st EXCEPT ![p] = "kernel"]
      /\ todo' = [todo EXCEPT ![p] = t] /\ acc' = [acc EXCEPT ![p] = None]
      /\ pt' = [pt EXCEPT ![p] = [g \in Pages |-> NoFrame]]
      /\ saved' = [saved EXCEPT ![p] = <<p, 0>>]
      /\ mem' = [mem EXCEPT ![p] = [g \in Pages |-> Image(p, g)]]
      /\ ran' = [ran EXCEPT ![p] = 0]
      /\ UNCHANGED <<cur, frame, free, tlb, tlb_index, window, cpu>>
  BY DEF user_proc
<1>2. /\ st \in [Procs -> Modes] /\ todo \in [Procs -> Seq(Steps)] /\ todo[p] = <<>>
      /\ acc \in [Procs -> Accesses] /\ saved \in [Procs -> Contexts] /\ ran \in [Procs -> Nat]
      /\ "kernel" \in Modes /\ None \in Accesses /\ <<p, 0>> \in Contexts
  BY <1>1 DEF IInv, Types, TodosRight, Modes, None, Accesses, Contexts
<1>3. t \in Seq(PlainSteps)
  <2>1. Value(p, 0) \in Nat /\ Stack \in Pages
    BY NumbersOK DEF Value
  <2>2. Do("wait") \in PlainSteps /\ Step("to", Stack, Value(p, 0)) \in PlainSteps
        /\ Do("sync") \in PlainSteps
    BY <2>1 DEF PlainSteps, Step, Do
  <2>3. QED
    BY <2>2
<1>4. t \in Seq(Steps) /\ TodoRight(t) /\ (t # <<>> => Head(t).op # "fetch")
  BY <1>3, PlainTodo
<1> HIDE DEF t
<1>5. p \notin LiveSet /\ LiveSet' = LiveSet \cup {p}
  BY <1>1, <1>2 DEF LiveSet, Live, Dead
<1>6. ViewRight(cur, LiveSet \cup {p}, [pt EXCEPT ![p] = [g \in Pages |-> NoFrame]], free, M,
                [mem EXCEPT ![p] = [g \in Pages |-> Image(p, g)]], Fetches)
  <2>1. ViewRight(cur, LiveSet, pt, free, M, mem, Fetches)
    BY DEF IInv, View
  <2>2. QED
    BY <1>5, <2>1, SpawnKeeps
<1>7. Fetches' = Fetches
  BY <1>1, <1>2, <1>4, FetchesStay DEF IInv
<1>8. M' = M
  BY <1>1 DEF M
<1>9. View'
  BY <1>1, <1>5, <1>6, <1>7, <1>8 DEF View
<1>10. Types'
  BY <1>1, <1>2, <1>4 DEF IInv, Types
<1>11. TodosRight'
  <2> SUFFICES ASSUME NEW q \in Procs
               PROVE  /\ st'[q] \in Dead \cup {"user", "yield"} => todo'[q] = <<>>
                      /\ TodoRight(todo'[q])
    BY DEF TodosRight, Dead
  <2>1. CASE q = p
    BY <2>1, <1>1, <1>2, <1>4 DEF Dead
  <2>2. CASE q # p
    BY <2>2, <1>1, <1>2 DEF IInv, TodosRight
  <2>3. QED
    BY <2>1, <2>2
<1>12. ContextsRight'
  <2> SUFFICES ASSUME NEW q \in Procs
               PROVE  /\ st'[q] = "user" => cur' = q /\ cpu' = <<q, ran'[q]>>
                      /\ st'[q] \in {"kernel", "wait", "yield"} => saved'[q] = <<q, ran'[q]>>
    BY DEF ContextsRight
  <2>1. CASE q = p
    BY <2>1, <1>1, <1>2
  <2>2. CASE q # p
    BY <2>2, <1>1, <1>2 DEF IInv, ContextsRight
  <2>3. QED
    BY <2>1, <2>2
<1>13. QED
  BY <1>9, <1>10, <1>11, <1>12 DEF IInv

\* Every step keeps the invariant.
LEMMA NextIInv ==
    ASSUME PagingConstants, IInv, [Next]_vars
    PROVE  IInv'
<1>1. CASE UNCHANGED <<cur, st, todo, acc, vm, cpu, saved, ran>>
  BY <1>1, StutterIInv
<1>2. ASSUME NEW p \in Procs,
             \/ Decide(p) \/ Perform(p) \/ PageFault(p) \/ Interrupt(p)
             \/ proc_syscall(p) \/ Trap(p) \/ proc_wakeup(p) \/ user_proc(p) \/ proc_kill(p)
      PROVE  IInv'
  BY <1>2, DecideIInv, PerformIInv, FaultInterruptIInv, SyscallIInv, FaultIInv, FetchedIInv,
     CopyIInv, SyncIInv, WaitIInv, EndIInv, ToUserIInv, WakeupIInv, UserProcIInv DEF Trap
<1>3. ASSUME NEW q \in Procs \cup {Kernel}, proc_after_switch(q) PROVE IInv'
  BY <1>3, SwitchIInv
<1>4. QED
  BY <1>1, <1>2, <1>3 DEF Next, Stopped, Idle, vars

-----------------------------------------------------------------------------
(* What the invariant says.                                                *)

\* The invariant gives each of the properties that do not depend on which
\* pages system calls name.
LEMMA IInvMemory ==
    ASSUME PagingConstants, IInv
    PROVE  MemoryRight
<1> SUFFICES ASSUME NEW p \in Procs, Live(p), NEW g \in Pages
             PROVE  Contents(p, g) = mem[p][g]
  BY DEF MemoryRight
<1>1. Holds(cur, pt, M, Fetches, p, g) = mem[p][g]
  BY DEF IInv, View, ViewRight, ContentsRight, LiveSet
<1>2. <<p, g>> \in Fetches <=> Fetching(p, g)
  BY DEF Fetches
<1>3. QED
  BY <1>1, <1>2 DEF Holds, Contents, M, tlb_get_entry

\* Each frame has one owner, by the uniqueness and the existence parts of the
\* view.
LEMMA IInvFrames ==
    ASSUME PagingConstants, IInv
    PROVE  FramesExact
<1> SUFFICES ASSUME NEW f \in Frames
             PROVE  Cardinality({x \in Procs \X Pages : Live(x[1]) /\ pt[x[1]][x[2]] = f})
                    + Cardinality({i \in DOMAIN free : free[i] = f}) = 1
  BY DEF FramesExact
<1> DEFINE A == {x \in Procs \X Pages : Live(x[1]) /\ pt[x[1]][x[2]] = f}
           B == {i \in DOMAIN free : free[i] = f}
<1>1. f # NoFrame
  BY NumbersOK
<1>2. FramesApart(LiveSet, pt, free) /\ FramesFound(LiveSet, pt, free)
  BY DEF IInv, View, ViewRight
<1>3. CASE Has(free, f)
  <2>1. PICK i \in DOMAIN free : free[i] = f
    BY <1>3 DEF Has
  <2>2. B = {i}
    BY <2>1, <1>2 DEF FramesApart, Distinct
  <2>3. A = {}
    BY <1>2, <1>3 DEF FramesApart, LiveSet
  <2>4. Cardinality(A) = 0 /\ Cardinality(B) = 1
    BY <2>2, <2>3, FS_EmptySet, FS_Singleton
  <2>5. QED
    BY <2>4
<1>4. CASE ~Has(free, f)
  <2>1. PICK p \in LiveSet, g \in Pages : pt[p][g] = f
    BY <1>2, <1>4 DEF FramesFound
  <2>2. B = {}
    BY <1>4 DEF Has
  <2>3. <<p, g>> \in A
    BY <2>1 DEF LiveSet
  <2>4. ASSUME NEW x \in A PROVE x = <<p, g>>
    <3>1. x = <<x[1], x[2]>> /\ x[1] \in LiveSet /\ x[2] \in Pages /\ pt[x[1]][x[2]] = f
      BY DEF LiveSet
    <3>2. x[1] = p /\ x[2] = g
      BY <3>1, <2>1, <1>1, <1>2 DEF FramesApart
    <3>3. QED
      BY <3>1, <3>2
  <2>5. A = {<<p, g>>}
    BY <2>3, <2>4
  <2>6. Cardinality(A) = 1 /\ Cardinality(B) = 0
    BY <2>2, <2>5, FS_EmptySet, FS_Singleton
  <2>7. QED
    BY <2>6
<1>5. QED
  BY <1>3, <1>4

\* The entries of the TLB are pages of the current process, each once.
LEMMA IInvTlb ==
    ASSUME PagingConstants, IInv
    PROVE  TlbRight
<1> SUFFICES ASSUME NEW i \in 1 .. TlbSize, tlb[i].phys # NoFrame
             PROVE  /\ cur # Kernel /\ Live(cur)
                    /\ pt[cur][tlb[i].virt] = tlb[i].phys
                    /\ Entries(tlb, tlb[i].virt) = {i}
  BY DEF TlbRight
<1>1. EntriesRight(cur, LiveSet, pt, M) /\ M.tlb = tlb /\ Mapped(M, i)
  BY DEF IInv, View, ViewRight, M, Mapped
<1>2. cur \in LiveSet /\ pt[cur][tlb[i].virt] = tlb[i].phys
  BY <1>1 DEF EntriesRight
<1>3. \A j \in 1 .. TlbSize : tlb[j].phys # NoFrame /\ tlb[j].virt = tlb[i].virt => j = i
  BY <1>1 DEF EntriesRight, Mapped
<1>4. cur # Kernel /\ Live(cur)
  BY <1>2, NumbersOK DEF LiveSet
<1>5. QED
  BY <1>2, <1>3, <1>4 DEF Entries

\* The types of Paging.
LEMMA IInvTypes ==
    ASSUME PagingConstants, IInv
    PROVE  TypeOK
<1>1. /\ cur \in Procs \cup {Kernel} /\ pt \in [Procs -> [Pages -> Frames \cup {NoFrame}]]
      /\ free \in Seq(Frames) /\ M \in Machine
  BY DEF IInv, View, ViewRight, ViewType
<1>2. tlb \in [1 .. TlbSize -> TlbEntry]
  BY <1>1 DEF M, Machine
<1>3. \A i \in 1 .. TlbSize : tlb[i].virt \in Pages \cup {Outside}
  BY <1>2 DEF TlbEntry
<1>4. Range(free) \subseteq Frames
  BY <1>1 DEF Range
<1>5. QED
  BY <1>1, <1>3, <1>4 DEF TypeOK, IInv, Types, Modes

\* The invariant holds in every state.
LEMMA Inductive ==
    ASSUME PagingConstants
    PROVE  Spec => []IInv
<1>1. Init => IInv
  BY InitIInv
<1>2. IInv /\ [Next]_vars => IInv'
  BY NextIInv
<1>3. QED
  BY <1>1, <1>2, PTL DEF Spec

\* Virtual memory is right whatever pages the programs access and name in
\* their system calls: the pages of a process hold what was stored there last,
\* a frame has one owner, the TLB maps the pages of the current process only
\* and each process runs in its own context (proc_pagefault, proc_after_switch,
\* proc_term, tlb_flush_entry, intr_handler).
THEOREM MemoryStaysRight ==
    ASSUME PagingConstants
    PROVE  Spec => [](TypeOK /\ MemoryRight /\ FramesExact /\ TlbRight /\ ContextRight)
<1>1. IInv => TypeOK /\ MemoryRight /\ FramesExact /\ TlbRight
  BY IInvTypes, IInvMemory, IInvFrames, IInvTlb
<1>2. IInv => ContextRight
  BY DEF IInv, ContextsRight, ContextRight
<1>3. QED
  BY <1>1, <1>2, Inductive, PTL

-----------------------------------------------------------------------------
(* Legal accesses.                                                         *)

\* No process has a page fault to handle that is not the current one, in the
\* kernel: the steps of the others stay legal.
LEMMA OthersLegal ==
    ASSUME LegalSteps, NEW q \in Procs, todo'[q] = todo[q], acc'[q] = acc[q],
           cur # q \/ st[q] # "kernel"
    PROVE  \A i \in DOMAIN todo'[q] : Quiet(acc'[q], todo'[q][i]) /\ todo'[q][i].op # "fault"
  BY DEF LegalSteps, LegalStep

\* A step of p that leaves it no page fault to handle.
LEMMA StepsLegal ==
    ASSUME IInv, LegalSteps, NEW p \in Procs, NEW t \in Seq(Steps), todo' = [todo EXCEPT ![p] = t],
           \A i \in DOMAIN t : Quiet(acc'[p], t[i]) /\ t[i].op # "fault",
           \A q \in Procs : q # p => acc'[q] = acc[q] /\ (cur # q \/ st[q] # "kernel")
    PROVE  LegalSteps'
<1>1. todo \in [Procs -> Seq(Steps)]
  BY DEF IInv, Types
<1> SUFFICES ASSUME NEW q \in Procs
             PROVE  \A i \in DOMAIN todo'[q] : Quiet(acc'[q], todo'[q][i]) /\ todo'[q][i].op # "fault"
  BY DEF LegalSteps, LegalStep, Quiet
<1>2. CASE q = p
  BY <1>1, <1>2
<1>3. CASE q # p
  <2>1. todo'[q] = todo[q] /\ acc'[q] = acc[q] /\ (cur # q \/ st[q] # "kernel")
    BY <1>1, <1>3
  <2>2. QED
    BY <2>1, OthersLegal
<1>4. QED
  BY <1>2, <1>3

\* The text and the accesses of the processes other than p are as before.
LEMMA RestLegal ==
    ASSUME TextKept, IllmemDeserved, NEW p \in Procs,
           \A q \in Procs : q # p => acc'[q] = acc[q] /\ st'[q] = st[q] /\ mem'[q] = mem[q],
           st'[p] = "illmem" => Deserved(acc'[p]),
           st'[p] \notin Dead => \A g \in Text : mem'[p][g] = Image(p, g)
    PROVE  TextKept' /\ IllmemDeserved'
<1>1. TextKept'
  <2> SUFFICES ASSUME NEW q \in Procs, st'[q] \notin Dead, NEW g \in Text
               PROVE  mem'[q][g] = Image(q, g)
    BY DEF TextKept, Live, Dead, Image
  <2>1. QED
    BY DEF TextKept, Live
<1>2. IllmemDeserved'
  BY DEF IllmemDeserved, Deserved
<1>3. QED
  BY <1>1, <1>2

\* Flushed and synced entries.
LEMMA FlushLegal ==
    ASSUME LegalEntries, NEW S, tlb' = tlb_flush_entry(M, S).tlb
    PROVE  LegalEntries'
<1>1. \A i \in 1 .. TlbSize : tlb'[i] = NoEntry \/ tlb'[i] = tlb[i]
  BY DEF tlb_flush_entry, tlb_sync_entry, M
<1>2. LegalEntry(NoEntry)
  BY DEF LegalEntry, NoEntry
<1>3. QED
  BY <1>1, <1>2 DEF LegalEntries, LegalEntry

\* tlb_sync leaves the entries alone.
LEMMA SyncLegal ==
    ASSUME Put(tlb_sync(M))
    PROVE  tlb' = tlb
  BY DEF Put, tlb_sync, tlb_sync_entry, M

\* A page of the text is mapped for reading and executing, another one for
\* reading or writing.
LEMMA MapLegal ==
    ASSUME LegalEntries, NEW p, NEW g, NEW f, NEW a, NEW fr, MapPage(p, g, f, a, fr),
           g \in Text => a # "w"
    PROVE  LegalEntries'
<1>1. PICK i : Put(tlb_map([M EXCEPT !.frame = fr], i, g, f, ProtFor(g, a)))
  BY DEF MapPage
<1> DEFINE e == [virt |-> g, phys |-> f, prot |-> ProtFor(g, a)]
<1>2. LegalEntry(e)
  BY DEF LegalEntry, ProtFor
<1>3. LegalEntry(NoEntry)
  BY DEF LegalEntry, NoEntry
<1> HIDE DEF e
<1>4. \A j \in 1 .. TlbSize : tlb'[j] = e \/ tlb'[j] = NoEntry \/ tlb'[j] = tlb[j]
  BY <1>1 DEF Put, tlb_map, tlb_flush_entry, tlb_sync_entry, M, e
<1>5. QED
  BY <1>2, <1>3, <1>4 DEF LegalEntries, LegalEntry

\* What the entries of a page allow: at most one protection.
LEMMA ProtLegal ==
    ASSUME PagingConstants, IInv, LegalEntries, NEW g
    PROVE  /\ g \in Text => Prot(g) \in {{}, {"r", "x"}}
           /\ g \notin Text => Prot(g) \in {{}, {"r"}, {"r", "w"}}
           /\ tlb_get_entry(g) # {} => Prot(g) # {}
<1>1. CASE tlb_get_entry(g) = {}
  BY <1>1 DEF Prot
<1>2. CASE tlb_get_entry(g) # {}
  <2>1. PICK i : i \in tlb_get_entry(g)
    BY <1>2
  <2>2. i \in 1 .. TlbSize /\ tlb[i].phys # NoFrame /\ tlb[i].virt = g
    BY <2>1 DEF tlb_get_entry, Entries
  <2>3. tlb_get_entry(g) = {i}
    BY <2>2, IInvTlb DEF TlbRight, tlb_get_entry
  <2>4. Prot(g) = tlb[i].prot
    BY <2>3 DEF Prot
  <2>5. LegalEntry(tlb[i])
    BY <2>2 DEF LegalEntries
  <2>6. QED
    BY <2>2, <2>4, <2>5 DEF LegalEntry
<1>3. QED
  BY <1>1, <1>2

\* A process ends, because it wants to, was killed or made an illegal access.
LEMMA TermLegal ==
    ASSUME IInv, Legal, NEW p \in Procs, NEW why \in Dead, proc_term(p, why),
           todo' = [todo EXCEPT ![p] = <<>>], acc' = acc,
           why = "illmem" => Deserved(acc[p]),
           \A q \in Procs : q # p => cur # q \/ st[q] # "kernel"
    PROVE  Legal'
<1>1. /\ st \in [Procs -> Modes] /\ st' = [st EXCEPT ![p] = why] /\ mem' = mem
      /\ tlb' = tlb_unmap(M, Held(p)).tlb
  BY DEF IInv, Types, proc_term, Put
<1>2. LegalSteps'
  <2>1. <<>> \in Seq(Steps) /\ \A i \in DOMAIN <<>> : FALSE
    OBVIOUS
  <2>2. QED
    BY <2>1, StepsLegal DEF Legal
<1>3. LegalEntries'
  BY <1>1, FlushLegal DEF Legal, tlb_unmap
<1>4. TextKept' /\ IllmemDeserved'
  <2>1. TextKept /\ IllmemDeserved /\ st'[p] = why
        /\ \A q \in Procs : q # p => st'[q] = st[q]
    BY <1>1 DEF Legal
  <2>2. QED
    BY <1>1, <2>1, RestLegal
<1>5. QED
  BY <1>2, <1>3, <1>4 DEF Legal

\* A step of a process that leaves the TLB legal, while no other process has a
\* page fault to handle.
LEMMA KernelStepLegal ==
    ASSUME IInv, Legal, NEW p \in Procs, Live(p), NEW t \in Seq(Steps),
           \A q \in Procs : q # p => cur # q \/ st[q] # "kernel",
           todo' = [todo EXCEPT ![p] = t],
           \A i \in DOMAIN t : Quiet(acc'[p], t[i]) /\ t[i].op # "fault",
           LegalEntries', \A q \in Procs : q # p => acc'[q] = acc[q] /\ mem'[q] = mem[q],
           NEW w, w \notin Dead, st' = [st EXCEPT ![p] = w],
           \A g \in Text : mem'[p][g] = mem[p][g]
    PROVE  Legal'
<1>1. st \in [Procs -> Modes]
  BY DEF IInv, Types
<1>2. LegalSteps'
  BY StepsLegal DEF Legal
<1>3. TextKept' /\ IllmemDeserved'
  <2>1. TextKept /\ IllmemDeserved /\ st'[p] = w /\ w # "illmem"
        /\ \A q \in Procs : q # p => st'[q] = st[q]
    BY <1>1 DEF Legal, Dead
  <2>2. \A g \in Text : mem'[p][g] = Image(p, g)
    BY DEF Legal, TextKept
  <2>3. QED
    BY <2>1, <2>2, RestLegal
<1>4. QED
  BY <1>2, <1>3 DEF Legal

\* proc_pagefault.
LEMMA PagefaultLegal ==
    ASSUME PagingConstants, IInv, Legal, NEW p \in Procs, cur = p, st[p] = "kernel",
           NEW g \in Pages \cup {Outside}, NEW access \in {"?", "r", "w"},
           NEW rest \in Seq(Steps),
           \A i \in DOMAIN rest : Quiet(acc[p], rest[i]) /\ rest[i].op # "fault",
           g = Outside \/ Refused(g, access) => Deserved(acc[p]),
           g \in Text /\ ~Refused(g, access) => Access(g, access) = "r",
           proc_pagefault(p, g, access, rest), acc' = acc, cur' = cur
    PROVE  Legal'
<1> DEFINE a == Access(g, access)
<1>1. Live(p) /\ st \in [Procs -> Modes] /\ st = [st EXCEPT ![p] = "kernel"] /\ a \in {"r", "w"}
  BY DEF Live, Dead, IInv, Types, Access
<1>2. CASE (g = Outside \/ Refused(g, access)) /\ proc_term(p, "illmem")
           /\ todo' = [todo EXCEPT ![p] = <<>>]
  <2>1. "illmem" \in Dead
    BY DEF Dead
  <2>2. QED
    BY <1>2, <2>1, TermLegal
<1>3. CASE UNCHANGED <<st, todo, vm>>
  <2>1. UNCHANGED <<cur, st, todo, acc, tlb, mem>>
    BY <1>3 DEF vm
  <2>2. QED
    BY <2>1 DEF Legal, LegalSteps, LegalStep, LegalEntries, TextKept, IllmemDeserved, Live,
                Prot, tlb_get_entry
<1>4. CASE /\ g # Outside /\ ~Refused(g, access) /\ mem' = mem
           /\ st' = [st EXCEPT ![p] = "wait"]
           /\ todo' = [todo EXCEPT ![p] = <<Step("fetch", g, a)>> \o rest]
           /\ UNCHANGED <<tlb, frame, window, tlb_index>>
  <2> DEFINE s == Step("fetch", g, a)
             t == <<s>> \o rest
  <2>1. s \in Steps /\ Quiet(acc[p], s) /\ s.op # "fault"
    BY <1>1, <1>4 DEF Step, Steps, Quiet
  <2>2. todo' = [todo EXCEPT ![p] = t]
    BY <1>4
  <2> HIDE DEF s
  <2>3. t \in Seq(Steps) /\ \A i \in DOMAIN t : t[i] = s \/ \E j \in DOMAIN rest : t[i] = rest[j]
    <3>1. t \in Seq(Steps) /\ Len(t) = Len(rest) + 1 /\ t[1] = s
          /\ \A j \in 1 .. Len(rest) : t[j + 1] = rest[j]
      BY <2>1
    <3>2. ASSUME NEW i \in DOMAIN t, i # 1 PROVE \E j \in DOMAIN rest : t[i] = rest[j]
      <4>1. i - 1 \in 1 .. Len(rest) /\ DOMAIN rest = 1 .. Len(rest) /\ i = (i - 1) + 1
        BY <3>1, <3>2
      <4>2. QED
        BY <3>1, <4>1
    <3>3. QED
      BY <3>1, <3>2
  <2> HIDE DEF t
  <2>4. \A i \in DOMAIN t : Quiet(acc'[p], t[i]) /\ t[i].op # "fault"
    BY <2>1, <2>3
  <2>5. LegalEntries'
    BY <1>4 DEF Legal, LegalEntries
  <2>6. "wait" \notin Dead
    BY DEF Dead
  <2>7. QED
    BY <1>1, <1>4, <2>2, <2>3, <2>4, <2>5, <2>6, KernelStepLegal
<1>5. ASSUME NEW f, NEW fr, ~Refused(g, access), MapPage(p, g, f, a, fr), mem' = mem,
             todo' = [todo EXCEPT ![p] = rest], st' = st
      PROVE  Legal'
  <2>1. LegalEntries'
    BY <1>5, MapLegal DEF Legal
  <2>2. st' = [st EXCEPT ![p] = "kernel"] /\ "kernel" \notin Dead
    BY <1>1, <1>5 DEF Dead
  <2>3. QED
    BY <1>1, <1>5, <2>1, <2>2, KernelStepLegal
<1>6. QED
  BY <1>2, <1>3, <1>4, <1>5 DEF proc_pagefault

\* The processor in user mode: the program decides on its next access.
LEMMA DecideLegal ==
    ASSUME PagingConstants, IInv, Legal, NEW p \in Procs, Decide(p)
    PROVE  Legal'
<1>1. cur = p /\ st[p] = "user" /\ UNCHANGED <<cur, st, todo, tlb, mem>>
  BY DEF Decide, Running, vm
<1>2. /\ \A q \in Procs : q # p => acc'[q] = acc[q]
      /\ todo[p] = <<>> /\ todo \in [Procs -> Seq(Steps)] /\ st \in [Procs -> Modes]
  BY <1>1 DEF Decide, IInv, Types, TodosRight
<1>3. /\ Live(p) /\ "user" \notin Dead /\ st' = [st EXCEPT ![p] = "user"]
      /\ todo' = [todo EXCEPT ![p] = <<>>] /\ <<>> \in Seq(Steps) /\ \A i \in DOMAIN <<>> : FALSE
  BY <1>1, <1>2 DEF Live, Dead
<1>4. LegalEntries'
  BY <1>1 DEF Legal, LegalEntries
<1>5. QED
  BY <1>1, <1>2, <1>3, <1>4, KernelStepLegal

\* An access that the TLB allows does not write to the text.
LEMMA PerformLegal ==
    ASSUME PagingConstants, IInv, Legal, NEW p \in Procs, Perform(p)
    PROVE  Legal'
<1>1. cur = p /\ st[p] = "user" /\ UNCHANGED <<cur, st, todo, tlb>>
      /\ acc' = [acc EXCEPT ![p] = None] /\ acc[p].op \in Prot(acc[p].page)
  BY DEF Perform, Running
<1>2. /\ acc \in [Procs -> Accesses] /\ mem \in [Procs -> [Pages -> Nat]]
      /\ todo[p] = <<>> /\ todo \in [Procs -> Seq(Steps)] /\ st \in [Procs -> Modes]
  BY <1>1 DEF IInv, Types, TodosRight, View, ViewRight, ViewType
<1>3. /\ Live(p) /\ "user" \notin Dead /\ st' = [st EXCEPT ![p] = "user"]
      /\ todo' = [todo EXCEPT ![p] = <<>>] /\ <<>> \in Seq(Steps) /\ \A i \in DOMAIN <<>> : FALSE
  BY <1>1, <1>2 DEF Live, Dead
<1>4. LegalEntries'
  BY <1>1 DEF Legal, LegalEntries
<1>5. (\A q \in Procs : q # p => mem'[q] = mem[q]) /\ \A g \in Text : mem'[p][g] = mem[p][g]
  <2>1. CASE acc[p].op = "w"
    <3>1. acc[p].page \notin Text
      <4>1. acc[p].page \in Text => Prot(acc[p].page) \in {{}, {"r", "x"}}
        BY ProtLegal DEF Legal
      <4>2. QED
        BY <1>1, <2>1, <4>1
    <3>2. mem' = [mem EXCEPT ![p][acc[p].page] = acc[p].val]
      BY <2>1 DEF Perform
    <3>3. QED
      BY <1>2, <3>1, <3>2
  <2>2. CASE acc[p].op # "w"
    BY <2>2 DEF Perform
  <2>3. QED
    BY <2>1, <2>2
<1>6. \A q \in Procs : q # p => acc'[q] = acc[q]
  BY <1>1
<1>7. QED
  BY <1>1, <1>3, <1>4, <1>5, <1>6, KernelStepLegal

\* The access of a program in user mode is none, or one of an instruction.
AccessesRight ==
    \A p \in Procs : /\ acc[p].op = "none" => acc[p] = None
                     /\ st[p] = "user" => acc[p].op # "sys"

\* Only a return from the kernel brings a process to user mode.
LEMMA NextAccesses ==
    ASSUME IInv, AccessesRight, [Next]_vars
    PROVE  AccessesRight'
<1>1. st \in [Procs -> Modes] /\ acc \in [Procs -> Accesses]
  BY DEF IInv, Types
<1>2. ASSUME acc' = acc, \A q \in Procs : st'[q] = "user" => st[q] = "user"
      PROVE  AccessesRight'
  BY <1>2 DEF AccessesRight
<1>3. ASSUME NEW p \in Procs, NEW w, w # "user", st' = [st EXCEPT ![p] = w]
      PROVE  \A q \in Procs : st'[q] = "user" => st[q] = "user"
  BY <1>1, <1>3
<1>4. ASSUME NEW p \in Procs, NEW why \in Dead, proc_term(p, why), acc' = acc
      PROVE  AccessesRight'
  <2>1. st' = [st EXCEPT ![p] = why] /\ why # "user"
    BY <1>4 DEF proc_term, Dead
  <2>2. QED
    BY <2>1, <1>2, <1>3, <1>4
<1>5. ASSUME NEW p \in Procs, NEW g, NEW access, NEW rest, proc_pagefault(p, g, access, rest),
             acc' = acc
      PROVE  AccessesRight'
  <2>1. CASE proc_term(p, "illmem")
    BY <1>4, <1>5, <2>1 DEF Dead
  <2>2. CASE st' = st
    BY <1>2, <1>5, <2>2
  <2>3. CASE st' = [st EXCEPT ![p] = "wait"]
    BY <1>2, <1>3, <1>5, <2>3
  <2>4. QED
    BY <1>5, <2>1, <2>2, <2>3 DEF proc_pagefault
<1>6. CASE acc' = acc /\ st' = st
  BY <1>2, <1>6
<1>7. ASSUME NEW p \in Procs, Decide(p) \/ Perform(p) PROVE AccessesRight'
  <2>1. PICK x : acc' = [acc EXCEPT ![p] = x] /\ (x.op = "none" => x = None) /\ x.op # "sys"
    <3>1. None.op = "none"
      BY DEF None
    <3>2. QED
      BY <1>7, <3>1 DEF Decide, Perform
  <2>2. st' = st
    BY <1>7 DEF Decide, Perform
  <2>3. QED
    BY <1>1, <2>1, <2>2 DEF AccessesRight
<1>8. ASSUME NEW p \in Procs, PageFault(p) \/ Interrupt(p) PROVE AccessesRight'
  <2>1. acc' = acc /\ (st' = [st EXCEPT ![p] = "kernel"] \/ st' = [st EXCEPT ![p] = "yield"])
    BY <1>8 DEF PageFault, Interrupt, intr_handler
  <2>2. QED
    BY <2>1, <1>2, <1>3
<1>9. ASSUME NEW p \in Procs, proc_syscall(p) PROVE AccessesRight'
  <2>1. PICK buf \in Buffers : acc' = [acc EXCEPT ![p] = [page |-> buf[1], op |-> "sys", val |-> 0]]
    BY <1>9 DEF proc_syscall
  <2>2. st' = [st EXCEPT ![p] = "kernel"]
    BY <1>9 DEF proc_syscall, intr_handler
  <2>3. QED
    BY <1>1, <2>1, <2>2 DEF AccessesRight
<1>10. ASSUME NEW p \in Procs, ToUser(p) PROVE AccessesRight'
  <2>1. st' = [st EXCEPT ![p] = "user"]
        /\ acc' = [acc EXCEPT ![p] = IF acc[p].op = "sys" THEN None ELSE acc[p]]
    BY <1>10 DEF ToUser
  <2>2. None.op = "none"
    BY DEF None
  <2>3. QED
    BY <1>1, <2>1, <2>2 DEF AccessesRight
<1>11. ASSUME NEW p \in Procs, user_proc(p) PROVE AccessesRight'
  <2>1. st' = [st EXCEPT ![p] = "kernel"] /\ acc' = [acc EXCEPT ![p] = None]
    BY <1>11 DEF user_proc
  <2>2. QED
    BY <1>1, <2>1 DEF AccessesRight
<1>12. ASSUME NEW p \in Procs, Fault(p) \/ Fetched(p) \/ (\E op \in {"from", "to"} : copy_user(p, op))
                                \/ SyncTlb(p) \/ Wait(p) \/ sys_exit(p)
       PROVE  AccessesRight'
  <2>1. CASE Fault(p)
    BY <1>5, <2>1 DEF Fault
  <2>2. CASE \E op \in {"from", "to"} : copy_user(p, op)
    <3>1. acc' = acc /\ (st' = st \/ \E g, access, rest : proc_pagefault(p, g, access, rest))
      BY <2>2 DEF copy_user
    <3>2. QED
      BY <1>5, <1>6, <3>1
  <2>3. CASE Fetched(p) \/ SyncTlb(p)
    BY <1>6, <2>3 DEF Fetched, SyncTlb
  <2>4. CASE Wait(p)
    BY <1>2, <1>3, <2>4 DEF Wait
  <2>5. CASE sys_exit(p)
    BY <1>4, <2>5 DEF sys_exit, Dead
  <2>6. QED
    BY <1>12, <2>1, <2>2, <2>3, <2>4, <2>5
<1>13. ASSUME NEW p \in Procs, proc_wakeup(p) \/ proc_kill(p) PROVE AccessesRight'
  <2>1. CASE proc_wakeup(p)
    BY <1>2, <1>3, <2>1 DEF proc_wakeup
  <2>2. CASE proc_kill(p)
    BY <1>4, <2>2 DEF proc_kill, Dead
  <2>3. QED
    BY <1>13, <2>1, <2>2
<1>14. ASSUME NEW q \in Procs \cup {Kernel}, proc_after_switch(q) PROVE AccessesRight'
  <2>1. acc' = acc /\ (st' = st \/ (q \in Procs /\ st' = [st EXCEPT ![q] = "kernel"]))
    BY <1>14 DEF proc_after_switch
  <2>2. QED
    BY <2>1, <1>2, <1>3, <1>6
<1>15. CASE UNCHANGED vars
  BY <1>6, <1>15 DEF vars
<1>16. QED
  BY <1>7, <1>8, <1>9, <1>10, <1>11, <1>12, <1>13, <1>14, <1>15 DEF Next, Trap, Stopped, Idle

\* An interrupt leaves nothing to do in the kernel.
LEMMA InterruptLegal ==
    ASSUME PagingConstants, IInv, Legal, NEW p \in Procs, Interrupt(p)
    PROVE  Legal'
<1>1. /\ cur = p /\ st[p] = "user" /\ st' = [st EXCEPT ![p] = "yield"] /\ acc' = acc /\ mem' = mem
      /\ todo' = [todo EXCEPT ![p] = <<>>] /\ Put(tlb_sync(M))
  BY DEF Interrupt, Running, intr_handler
<1>2. LegalEntries'
  BY <1>1, SyncLegal DEF Legal, LegalEntries
<1>3. /\ Live(p) /\ "yield" \notin Dead /\ <<>> \in Seq(Steps) /\ \A i \in DOMAIN <<>> : FALSE
  BY <1>1 DEF Live, Dead
<1>4. QED
  BY <1>1, <1>2, <1>3, KernelStepLegal

\* A page fault is of the access that the program makes.
LEMMA PageFaultLegal ==
    ASSUME PagingConstants, IInv, Legal, AccessesRight, NEW p \in Procs, PageFault(p)
    PROVE  Legal'
<1> DEFINE s == Step("fault", acc[p].page, 0)
<1>1. /\ cur = p /\ st[p] = "user" /\ st' = [st EXCEPT ![p] = "kernel"] /\ acc' = acc /\ mem' = mem
      /\ todo' = [todo EXCEPT ![p] = <<s>>] /\ Put(tlb_sync(M)) /\ cur' = cur
      /\ acc[p] # None /\ acc[p].op \notin Prot(acc[p].page)
  BY DEF PageFault, Running, intr_handler
<1>2. /\ acc \in [Procs -> Accesses] /\ st \in [Procs -> Modes] /\ todo \in [Procs -> Seq(Steps)]
      /\ acc[p].op \in {"none", "r", "w", "x", "sys"}
  BY DEF IInv, Types, Accesses
<1>3. tlb' = tlb /\ LegalEntries'
  BY <1>1, SyncLegal DEF Legal, LegalEntries
<1>4. acc[p].op \in {"r", "w", "x"}
  BY <1>1, <1>2 DEF AccessesRight
<1>5. LegalSteps'
  <2> SUFFICES ASSUME NEW q \in Procs, NEW i \in DOMAIN todo'[q]
               PROVE  LegalStep(q, todo[q][i])'
    BY DEF LegalSteps
  <2>1. CASE q # p
    <3>1. todo'[q] = todo[q] /\ acc'[q] = acc[q] /\ cur # q
      BY <1>1, <1>2, <2>1
    <3>2. Quiet(acc'[q], todo'[q][i]) /\ todo'[q][i].op # "fault"
      BY <3>1, OthersLegal DEF Legal
    <3>3. QED
      BY <3>2 DEF LegalStep
  <2>2. CASE q = p
    <3>1. todo'[q] = <<s>> /\ i = 1 /\ todo'[q][i] = s
      BY <1>1, <1>2, <2>2
    <3>2. s.op = "fault" /\ s.page = acc[p].page
      BY DEF Step
    <3>3. Prot(s.page)' = Prot(acc[p].page)
      BY <1>1, <1>3, <3>2 DEF Prot, tlb_get_entry
    <3>4. st'[p] = "kernel" /\ cur' = p
      BY <1>1, <1>2
    <3> HIDE DEF s
    <3>5. Quiet(acc'[p], s)
      BY <3>2 DEF Quiet
    <3>6. QED
      BY <1>1, <1>3, <1>4, <2>2, <3>1, <3>2, <3>4, <3>5 DEF LegalStep, Prot, tlb_get_entry
  <2>3. QED
    BY <2>1, <2>2
<1>6. TextKept' /\ IllmemDeserved'
  <2>1. TextKept /\ IllmemDeserved /\ st'[p] # "illmem" /\ \A q \in Procs : q # p => st'[q] = st[q]
    BY <1>1, <1>2 DEF Legal
  <2>2. \A g \in Text : mem'[p][g] = Image(p, g)
    BY <1>1, <2>1 DEF TextKept, Live, Dead
  <2>3. QED
    BY <1>1, <2>1, <2>2, RestLegal
<1>7. QED
  BY <1>3, <1>5, <1>6 DEF Legal

\* A system call copies to pages outside the text.
LEMMA SyscallLegal ==
    ASSUME PagingConstants, BuffersOutsideText, IInv, Legal, NEW p \in Procs, proc_syscall(p)
    PROVE  Legal'
<1>1. PICK call \in {"exit", "send", "recv", "rpc", "gettime"}, v \in 1 .. NVals, buf \in Buffers :
          /\ acc' = [acc EXCEPT ![p] = [page |-> buf[1], op |-> "sys", val |-> 0]]
          /\ intr_handler(p, <<cpu[1], cpu[2] + 1>>, "kernel", SysCall(call, buf, Value(p, v)))
  BY DEF proc_syscall
<1> DEFINE t == SysCall(call, buf, Value(p, v))
           S == {s \in PlainSteps : Quiet(acc'[p], s)}
<1>2. /\ cur = p /\ st[p] = "user" /\ st' = [st EXCEPT ![p] = "kernel"] /\ mem' = mem
      /\ todo' = [todo EXCEPT ![p] = t] /\ Put(tlb_sync(M))
  BY <1>1 DEF proc_syscall, Running, intr_handler
<1>3. buf \in Seq(CopyPages) /\ 1 \in DOMAIN buf /\ buf[1] \in CopyPages
      /\ ((\E i \in DOMAIN buf : buf[i] = Outside) => buf[1] = Outside)
  BY BufferPages
<1>4. /\ CopyPages \subseteq Pages \cup {Outside} /\ CopyPages \cap Text = {}
      /\ Stack \in Pages /\ Stack \notin Text /\ Stack # Outside
  <2>1. CopyPages \subseteq Pages \cup {Outside} /\ CopyPages \cap Text = {} /\ Stack \notin Text
    BY DEF PagingConstants, BuffersOutsideText
  <2>2. Stack \in Pages /\ Outside \notin Pages
    BY NumbersOK
  <2>3. QED
    BY <2>1, <2>2
<1>5. acc \in [Procs -> Accesses] /\ acc'[p].page = buf[1] /\ \A q \in Procs : q # p => acc'[q] = acc[q]
  BY <1>1 DEF IInv, Types
<1>6. Value(p, v) \in Nat
  BY NumbersOK DEF Value
<1>7. t \in Seq(S)
  <2>1. /\ Step("from", Stack, 0) \in S /\ Step("to", Stack, Value(p, v)) \in S
        /\ Do("sync") \in S /\ Do("wait") \in S /\ Do("exit") \in S
    BY <1>4, <1>6 DEF PlainSteps, Step, Do, Quiet
  <2>2. ASSUME NEW i \in DOMAIN buf
        PROVE  Step("from", buf[i], 0) \in S /\ Step("to", buf[i], Value(p, v)) \in S
    <3>1. buf[i] \in Pages \cup {Outside} /\ buf[i] \notin Text /\ (buf[i] = Outside => buf[1] = Outside)
      BY <1>3, <1>4
    <3>2. QED
      BY <3>1, <1>5, <1>6 DEF PlainSteps, Step, Quiet
  <2> HIDE DEF S
  <2>3. QED
    BY <2>1, <2>2, <1>3, SysCallSteps
<1> HIDE DEF t
<1>8. \A i \in DOMAIN t : t[i] \in S
  BY <1>7
<1>9. \A i \in DOMAIN t : Quiet(acc'[p], t[i]) /\ t[i].op # "fault"
  BY <1>8 DEF PlainSteps
<1>10. t \in Seq(Steps)
  <2>1. t \in Seq(PlainSteps)
    <3>1. S \subseteq PlainSteps
      OBVIOUS
    <3>2. QED
      BY <1>7, <3>1, SeqMonotonic
  <2>2. QED
    BY <2>1, PlainTodo
<1>11. LegalEntries'
  BY <1>2, SyncLegal DEF Legal, LegalEntries
<1>12. Live(p) /\ "kernel" \notin Dead
  BY <1>2 DEF Live, Dead
<1>13. QED
  BY <1>2, <1>5, <1>9, <1>10, <1>11, <1>12, KernelStepLegal

\* What is known of the steps that a process in the kernel has to do.
LEMMA StepsQuiet ==
    ASSUME IInv, Legal, NEW p \in Procs, NEW op, InKernel(p, op)
    PROVE  /\ LegalStep(p, Head(todo[p]))
           /\ \A i \in DOMAIN Tail(todo[p]) :
                Quiet(acc[p], Tail(todo[p])[i]) /\ Tail(todo[p])[i].op # "fault"
           /\ op # "fault" => \A i \in DOMAIN todo[p] :
                Quiet(acc[p], todo[p][i]) /\ todo[p][i].op # "fault"
<1> DEFINE t == todo[p]
<1>1. t \in Seq(Steps) /\ t # <<>> /\ TodoRight(t) /\ Head(t).op = op
  BY InKernelFacts
<1>2. \A i \in DOMAIN t : LegalStep(p, t[i])
  BY DEF Legal, LegalSteps
<1> HIDE DEF t
<1>3. \A i \in DOMAIN t : i # 1 => t[i].op # "fault"
  BY <1>1 DEF TodoRight, StepRight
<1>4. /\ Head(t) = t[1] /\ Len(t) \in Nat /\ Len(t) > 0 /\ DOMAIN t = 1 .. Len(t)
      /\ DOMAIN Tail(t) = 1 .. Len(t) - 1 /\ \A i \in 1 .. Len(t) - 1 : Tail(t)[i] = t[i + 1]
  <2>1. Len(Tail(t)) = Len(t) - 1 /\ DOMAIN Tail(t) = 1 .. Len(Tail(t))
        /\ \A i \in 1 .. Len(Tail(t)) : Tail(t)[i] = t[i + 1]
    BY <1>1, HeadTailProperties
  <2>2. QED
    BY <1>1, <2>1
<1>5. \A i \in DOMAIN Tail(t) : i + 1 \in DOMAIN t /\ i + 1 # 1 /\ Tail(t)[i] = t[i + 1]
  BY <1>4
<1>6. LegalStep(p, Head(t)) /\ 1 \in DOMAIN t
  BY <1>2, <1>4
<1>7. \A i \in DOMAIN t : Quiet(acc[p], t[i])
  BY <1>2 DEF LegalStep
<1>8. \A i \in DOMAIN Tail(t) : Quiet(acc[p], Tail(t)[i]) /\ Tail(t)[i].op # "fault"
  BY <1>3, <1>5, <1>7
<1>9. op # "fault" => \A i \in DOMAIN t : t[i].op # "fault"
  BY <1>1, <1>3, <1>4
<1>10. QED
  BY <1>6, <1>7, <1>8, <1>9 DEF t

\* A fault of unknown kind ends the process only if the access was illegal.
LEMMA FaultLegal ==
    ASSUME PagingConstants, IInv, Legal, NEW p \in Procs, Fault(p)
    PROVE  Legal'
<1> DEFINE s == Head(todo[p])
           g == s.page
           rest == Tail(todo[p])
<1>1. InKernel(p, "fault") /\ proc_pagefault(p, g, "?", rest) /\ acc' = acc /\ cur' = cur
  BY DEF Fault
<1>2. /\ cur = p /\ st[p] = "kernel" /\ s.op = "fault" /\ s \in Steps /\ rest \in Seq(Steps)
      /\ g \in Pages \cup {Outside}
  BY <1>1, InKernelFacts DEF Steps
<1>3. /\ LegalStep(p, s)
      /\ \A i \in DOMAIN rest : Quiet(acc[p], rest[i]) /\ rest[i].op # "fault"
  BY <1>1, StepsQuiet
<1>4. g = acc[p].page /\ acc[p].op \in {"r", "w", "x"} /\ acc[p].op \notin Prot(g)
  BY <1>2, <1>3 DEF LegalStep
<1>5. /\ g \in Text => Prot(g) \in {{}, {"r", "x"}}
      /\ g \notin Text => Prot(g) \in {{}, {"r"}, {"r", "w"}}
      /\ tlb_get_entry(g) # {} => Prot(g) # {}
  BY ProtLegal DEF Legal
<1> HIDE DEF g, rest
<1>6. ASSUME Refused(g, "?") PROVE Deserved(acc[p])
  <2>1. tlb_get_entry(g) # {} /\ (g \in Text \/ "w" \in Prot(g))
    BY <1>6 DEF Refused, Writable
  <2>2. CASE g \in Text
    <3>1. Prot(g) = {"r", "x"}
      BY <1>5, <2>1, <2>2
    <3>2. QED
      BY <1>4, <2>2, <3>1 DEF Deserved
  <2>3. CASE g \notin Text
    <3>1. Prot(g) = {"r", "w"}
      BY <1>5, <2>1, <2>3
    <3>2. QED
      BY <1>4, <2>3, <3>1 DEF Deserved
  <2>4. QED
    BY <2>2, <2>3
<1>7. g = Outside \/ Refused(g, "?") => Deserved(acc[p])
  BY <1>4, <1>6 DEF Deserved
<1>8. g \in Text /\ ~Refused(g, "?") => Access(g, "?") = "r"
  BY DEF Refused, Writable, Access
<1>9. QED
  BY <1>1, <1>2, <1>3, <1>7, <1>8, PagefaultLegal

\* The rest of a page fault when the file server has answered.
LEMMA FetchedLegal ==
    ASSUME PagingConstants, IInv, Legal, NEW p \in Procs, Fetched(p)
    PROVE  Legal'
<1> DEFINE s == Head(todo[p])
           g == s.page
           f == pt[p][g]
<1>1. InKernel(p, "fetch") /\ UNCHANGED <<cur, st, acc, mem>>
  BY DEF Fetched
<1>2. cur = p /\ Live(p) /\ s.op = "fetch" /\ st = [st EXCEPT ![p] = "kernel"]
      /\ Tail(todo[p]) \in Seq(Steps) /\ "kernel" \notin Dead
  BY <1>1, InKernelFacts DEF Dead
<1>3. /\ LegalStep(p, s)
      /\ \A i \in DOMAIN Tail(todo[p]) : Quiet(acc[p], Tail(todo[p])[i]) /\ Tail(todo[p])[i].op # "fault"
  BY <1>1, StepsQuiet
<1>4. CASE /\ MapPage(p, g, f, s.val, [frame EXCEPT ![f] = Image(p, g)])
           /\ todo' = [todo EXCEPT ![p] = Tail(@)]
  <2>1. g \in Text => s.val # "w"
    BY <1>2, <1>3 DEF LegalStep, Quiet
  <2>2. LegalEntries'
    BY <1>4, <2>1, MapLegal DEF Legal
  <2>3. todo' = [todo EXCEPT ![p] = Tail(todo[p])]
    BY <1>4
  <2>4. QED
    BY <1>1, <1>2, <1>3, <2>2, <2>3, KernelStepLegal
<1>5. CASE UNCHANGED <<todo, tlb>>
  BY <1>1, <1>5 DEF Legal, LegalSteps, LegalStep, LegalEntries, TextKept, IllmemDeserved, Live,
                    Prot, tlb_get_entry
<1>6. QED
  BY <1>4, <1>5 DEF Fetched

\* A page copied between user space and the kernel.
LEMMA CopyLegal ==
    ASSUME PagingConstants, IInv, Legal, NEW p \in Procs, NEW op \in {"from", "to"}, copy_user(p, op)
    PROVE  Legal'
<1> DEFINE s == Head(todo[p])
           g == s.page
           access == IF op = "to" THEN "w" ELSE "r"
<1>1. InKernel(p, op) /\ cur' = cur /\ acc' = acc
  BY DEF copy_user
<1>2. /\ cur = p /\ Live(p) /\ s.op = op /\ st[p] = "kernel" /\ st = [st EXCEPT ![p] = "kernel"]
      /\ Tail(todo[p]) \in Seq(Steps) /\ "kernel" \notin Dead /\ todo[p] \in Seq(Steps)
      /\ s \in Steps
  BY <1>1, InKernelFacts DEF Dead
<1>3. /\ LegalStep(p, s)
      /\ \A i \in DOMAIN Tail(todo[p]) : Quiet(acc[p], Tail(todo[p])[i]) /\ Tail(todo[p])[i].op # "fault"
      /\ \A i \in DOMAIN todo[p] : Quiet(acc[p], todo[p][i]) /\ todo[p][i].op # "fault"
  <2>1. op # "fault"
    OBVIOUS
  <2>2. QED
    BY <1>1, <2>1, StepsQuiet
<1>4. /\ op = "to" => g \notin Text
      /\ g = Outside => acc[p].page = Outside
      /\ g \in Pages \cup {Outside}
  BY <1>2, <1>3 DEF LegalStep, Quiet, Steps
<1>5. CASE proc_pagefault(p, g, access, todo[p])
  <2>1. ~Refused(g, access) /\ Access(g, access) = access /\ access \in {"?", "r", "w"}
    BY DEF Refused, Access
  <2>2. g = Outside \/ Refused(g, access) => Deserved(acc[p])
    BY <1>4, <2>1 DEF Deserved
  <2>3. g \in Text /\ ~Refused(g, access) => Access(g, access) = "r"
    BY <1>4, <2>1
  <2> HIDE DEF g, access
  <2>4. QED
    BY <1>1, <1>2, <1>3, <1>4, <1>5, <2>1, <2>2, <2>3, PagefaultLegal
<1>6. CASE /\ IF op = "to" THEN /\ window' = [window EXCEPT ![g] = s.val]
                                /\ mem' = [mem EXCEPT ![p][g] = s.val]
              ELSE UNCHANGED <<window, mem>>
           /\ todo' = [todo EXCEPT ![p] = Tail(@)]
           /\ UNCHANGED <<st, tlb>>
  <2>1. mem \in [Procs -> [Pages -> Nat]]
    BY DEF IInv, View, ViewRight, ViewType
  <2>2. (\A q \in Procs : q # p => mem'[q] = mem[q]) /\ \A h \in Text : mem'[p][h] = mem[p][h]
    <3>1. CASE op = "to"
      <4>1. g \notin Text /\ mem' = [mem EXCEPT ![p][g] = s.val]
        BY <1>4, <1>6, <3>1
      <4> HIDE DEF g
      <4>2. QED
        BY <4>1, <2>1
    <3>2. CASE op # "to"
      BY <1>6, <3>2
    <3>3. QED
      BY <3>1, <3>2
  <2>3. LegalEntries' /\ todo' = [todo EXCEPT ![p] = Tail(todo[p])]
    BY <1>6 DEF Legal, LegalEntries
  <2>4. QED
    BY <1>1, <1>2, <1>3, <1>6, <2>2, <2>3, KernelStepLegal
<1>7. QED
  BY <1>5, <1>6 DEF copy_user

\* tlb_sync after a copy, and waiting for a message.
LEMMA SyncWaitLegal ==
    ASSUME PagingConstants, IInv, Legal, NEW p \in Procs, SyncTlb(p) \/ Wait(p)
    PROVE  Legal'
<1>1. PICK op : InKernel(p, op)
  BY DEF SyncTlb, Wait
<1>2. /\ cur = p /\ Live(p) /\ st = [st EXCEPT ![p] = "kernel"] /\ Tail(todo[p]) \in Seq(Steps)
  BY <1>1, InKernelFacts
<1>3. \A i \in DOMAIN Tail(todo[p]) : Quiet(acc[p], Tail(todo[p])[i]) /\ Tail(todo[p])[i].op # "fault"
  BY <1>1, StepsQuiet
<1>4. acc' = acc /\ mem' = mem /\ todo' = [todo EXCEPT ![p] = Tail(todo[p])]
  BY DEF SyncTlb, Wait, vm
<1>5. LegalEntries'
  <2>1. tlb' = tlb
    BY SyncLegal DEF SyncTlb, Wait, vm
  <2>2. QED
    BY <2>1 DEF Legal, LegalEntries
<1>6. PICK w \in {"kernel", "wait"} : st' = [st EXCEPT ![p] = w]
  BY <1>2 DEF SyncTlb, Wait
<1>7. w \notin Dead
  BY DEF Dead
<1>8. QED
  BY <1>2, <1>3, <1>4, <1>5, <1>6, <1>7, KernelStepLegal

\* Nobody has a page fault to handle while the scheduler runs.
LEMMA YieldingFacts ==
    ASSUME PagingConstants, Yielding, NEW q \in Procs
    PROVE  cur # q \/ st[q] # "kernel"
<1>1. q # Kernel
  BY NumbersOK
<1>2. QED
  BY <1>1 DEF Yielding, Dead

\* sys_exit, and a kill.
LEMMA EndLegal ==
    ASSUME PagingConstants, IInv, Legal, NEW p \in Procs, sys_exit(p) \/ proc_kill(p)
    PROVE  Legal'
<1>1. PICK why \in {"exited", "killed"} : proc_term(p, why)
  BY DEF sys_exit, proc_kill
<1>2. why \in Dead /\ why # "illmem"
  BY DEF Dead
<1>3. todo' = [todo EXCEPT ![p] = <<>>] /\ acc' = acc
  BY DEF sys_exit, proc_kill
<1>4. \A q \in Procs : q # p => cur # q \/ st[q] # "kernel"
  <2>1. CASE sys_exit(p)
    BY <2>1 DEF sys_exit, InKernel
  <2>2. CASE proc_kill(p)
    BY <2>2, YieldingFacts DEF proc_kill
  <2>3. QED
    BY <2>1, <2>2
<1>5. QED
  BY <1>1, <1>2, <1>3, <1>4, TermLegal

\* The return to user mode.
LEMMA ToUserLegal ==
    ASSUME PagingConstants, IInv, Legal, NEW p \in Procs, ToUser(p)
    PROVE  Legal'
<1>1. /\ cur = p /\ st[p] \in {"kernel", "yield"} /\ todo[p] = <<>> /\ st' = [st EXCEPT ![p] = "user"]
      /\ UNCHANGED <<todo, tlb, mem>>
  BY DEF ToUser, vm
<1>2. acc \in [Procs -> Accesses] /\ todo \in [Procs -> Seq(Steps)]
  BY DEF IInv, Types
<1>3. \A q \in Procs : q # p => acc'[q] = acc[q]
  BY <1>2 DEF ToUser
<1>4. /\ Live(p) /\ "user" \notin Dead /\ todo' = [todo EXCEPT ![p] = <<>>]
      /\ <<>> \in Seq(Steps) /\ \A i \in DOMAIN <<>> : FALSE
  BY <1>1, <1>2 DEF Live, Dead
<1>5. LegalEntries'
  BY <1>1 DEF Legal, LegalEntries
<1>6. QED
  BY <1>1, <1>3, <1>4, <1>5, KernelStepLegal

\* A switch flushes the TLB.
LEMMA SwitchLegal ==
    ASSUME PagingConstants, IInv, Legal, NEW q \in Procs \cup {Kernel}, proc_after_switch(q)
    PROVE  Legal'
<1>1. /\ Yielding /\ Put(tlb_flush(M)) /\ UNCHANGED <<todo, acc, mem>>
      /\ st' = IF q = Kernel THEN st ELSE [st EXCEPT ![q] = "kernel"]
      /\ q # Kernel => Runnable(q)
  BY DEF proc_after_switch
<1>2. st \in [Procs -> Modes]
  BY DEF IInv, Types
<1>3. LegalEntries'
  BY <1>1, FlushLegal DEF Legal, Put, tlb_flush
<1>4. LegalSteps'
  <2> SUFFICES ASSUME NEW r \in Procs
               PROVE  \A i \in DOMAIN todo'[r] : Quiet(acc'[r], todo'[r][i]) /\ todo'[r][i].op # "fault"
    BY DEF LegalSteps, LegalStep, Quiet
  <2>1. cur # r \/ st[r] # "kernel"
    BY <1>1, YieldingFacts
  <2>2. QED
    BY <1>1, <2>1, OthersLegal DEF Legal
<1>5. \A r \in Procs : /\ st'[r] = "illmem" => st[r] = "illmem"
                       /\ st'[r] \notin Dead => st[r] \notin Dead
  BY <1>1, <1>2 DEF Runnable, Dead
<1>6. TextKept' /\ IllmemDeserved'
  BY <1>1, <1>5 DEF Legal, TextKept, IllmemDeserved, Live, Image, Dead
<1>7. QED
  BY <1>3, <1>4, <1>6 DEF Legal

\* A message arrives.
LEMMA WakeupLegal ==
    ASSUME PagingConstants, IInv, Legal, NEW p \in Procs, proc_wakeup(p)
    PROVE  Legal'
<1>1. Yielding /\ st[p] = "wait" /\ st' = [st EXCEPT ![p] = "kernel"] /\ UNCHANGED <<todo, acc, tlb, mem>>
  BY DEF proc_wakeup, vm
<1>2. todo \in [Procs -> Seq(Steps)] /\ todo[p] \in Seq(Steps) /\ todo' = [todo EXCEPT ![p] = todo[p]]
  BY <1>1 DEF IInv, Types
<1>3. \A i \in DOMAIN todo[p] : Quiet(acc'[p], todo[p][i]) /\ todo[p][i].op # "fault"
  BY <1>1, OthersLegal DEF Legal
<1>4. LegalEntries' /\ Live(p) /\ "kernel" \notin Dead
  BY <1>1 DEF Legal, LegalEntries, Live, Dead
<1>5. \A q \in Procs : q # p => cur # q \/ st[q] # "kernel"
  BY <1>1, YieldingFacts
<1>6. QED
  BY <1>1, <1>2, <1>3, <1>4, <1>5, KernelStepLegal

\* A new process has the text of its executable.
LEMMA UserProcLegal ==
    ASSUME PagingConstants, IInv, Legal, NEW p \in Procs, user_proc(p)
    PROVE  Legal'
<1> DEFINE t == <<Do("wait"), Step("to", Stack, Value(p, 0)), Do("sync")>>
<1>1. /\ cur = Kernel /\ st' = [st EXCEPT ![p] = "kernel"] /\ todo' = [todo EXCEPT ![p] = t]
      /\ acc' = [acc EXCEPT ![p] = None] /\ mem' = [mem EXCEPT ![p] = [g \in Pages |-> Image(p, g)]]
      /\ tlb' = tlb
  BY DEF user_proc
<1>2. /\ acc \in [Procs -> Accesses] /\ st \in [Procs -> Modes] /\ mem \in [Procs -> [Pages -> Nat]]
  BY DEF IInv, Types, View, ViewRight, ViewType
<1>3. /\ Stack \in Pages /\ Stack # Outside /\ Stack \notin Text /\ Value(p, 0) \in Nat /\ Kernel \notin Procs
      /\ Text \subseteq Pages
  <2>1. Stack \notin Text
    BY DEF PagingConstants
  <2>2. QED
    BY <2>1, NumbersOK DEF Value, Pages
<1>4. /\ Do("wait") \in Steps /\ Step("to", Stack, Value(p, 0)) \in Steps /\ Do("sync") \in Steps
      /\ \A s \in {Do("wait"), Step("to", Stack, Value(p, 0)), Do("sync")} :
            Quiet(acc'[p], s) /\ s.op # "fault"
  BY <1>3 DEF Do, Step, Steps, Quiet
<1>5. /\ t \in Seq(Steps)
      /\ \A i \in DOMAIN t : t[i] \in {Do("wait"), Step("to", Stack, Value(p, 0)), Do("sync")}
  BY <1>4
<1> HIDE DEF t
<1>6. LegalSteps'
  <2>1. \A i \in DOMAIN t : Quiet(acc'[p], t[i]) /\ t[i].op # "fault"
    BY <1>4, <1>5
  <2>2. \A q \in Procs : q # p => acc'[q] = acc[q] /\ (cur # q \/ st[q] # "kernel")
    BY <1>1, <1>2, <1>3
  <2>3. QED
    BY <1>1, <1>5, <2>1, <2>2, StepsLegal DEF Legal
<1>7. TextKept' /\ IllmemDeserved'
  <2>1. TextKept /\ IllmemDeserved /\ st'[p] # "illmem"
        /\ \A q \in Procs : q # p => acc'[q] = acc[q] /\ st'[q] = st[q] /\ mem'[q] = mem[q]
    BY <1>1, <1>2 DEF Legal
  <2>2. \A g \in Text : mem'[p][g] = Image(p, g)
    BY <1>1, <1>2, <1>3
  <2>3. QED
    BY <2>1, <2>2, RestLegal
<1>8. QED
  BY <1>1, <1>6, <1>7 DEF Legal, LegalEntries

\* At the start there is nothing to do and nobody is dead.
LEMMA InitLegal ==
    ASSUME PagingConstants, Init
    PROVE  Legal /\ AccessesRight
<1>1. LegalSteps
  BY DEF Init, LegalSteps
<1>2. LegalEntries
  BY DEF Init, LegalEntries, LegalEntry, NoEntry
<1>3. TextKept /\ IllmemDeserved /\ AccessesRight
  BY DEF Init, TextKept, IllmemDeserved, AccessesRight, Live, Dead
<1>4. QED
  BY <1>1, <1>2, <1>3 DEF Legal

\* Every step keeps accesses legal.
LEMMA NextLegal ==
    ASSUME PagingConstants, BuffersOutsideText, IInv, Legal, AccessesRight, [Next]_vars
    PROVE  Legal'
<1>1. CASE UNCHANGED vars
  <2>1. UNCHANGED <<cur, st, todo, acc, tlb, mem>>
    BY <1>1 DEF vars, vm
  <2>2. QED
    BY <2>1 DEF Legal, LegalSteps, LegalStep, LegalEntries, TextKept, IllmemDeserved, Live,
                Prot, tlb_get_entry
<1>2. ASSUME NEW p \in Procs,
             \/ Decide(p) \/ Perform(p) \/ PageFault(p) \/ Interrupt(p)
             \/ proc_syscall(p) \/ Trap(p) \/ proc_wakeup(p) \/ user_proc(p) \/ proc_kill(p)
      PROVE  Legal'
  BY <1>2, DecideLegal, PerformLegal, PageFaultLegal, InterruptLegal, SyscallLegal, FaultLegal,
     FetchedLegal, CopyLegal, SyncWaitLegal, EndLegal, ToUserLegal, WakeupLegal, UserProcLegal
     DEF Trap
<1>3. ASSUME NEW q \in Procs \cup {Kernel}, proc_after_switch(q) PROVE Legal'
  BY <1>3, SwitchLegal
<1>4. QED
  BY <1>1, <1>2, <1>3 DEF Next, Stopped, Idle

\* When the programs name only pages outside the text as the buffers of their
\* system calls, the text of a process stays that of its executable and a
\* process ends by an illegal access only if it made one, although
\* proc_pagefault guesses what kind of access failed.  Together with
\* MemoryStaysRight, this is all that is required of virtual memory.
THEOREM PagingStaysRight ==
    ASSUME PagingConstants, BuffersOutsideText
    PROVE  Spec => []PagingRight
<1>1. Init => Legal /\ AccessesRight
  BY InitLegal
<1>2. IInv /\ Legal /\ AccessesRight /\ [Next]_vars => Legal' /\ AccessesRight'
  BY NextLegal, NextAccesses
<1>3. IInv /\ Legal => IllmemDeserved /\ TextKept
  BY DEF Legal
<1>4. Spec => [](IllmemDeserved /\ TextKept)
  BY <1>1, <1>2, <1>3, Inductive, PTL DEF Spec
<1>5. /\ TypeOK /\ MemoryRight /\ FramesExact /\ TlbRight /\ ContextRight
      /\ IllmemDeserved /\ TextKept
      => PagingRight
  BY DEF PagingRight
<1>6. QED
  BY <1>4, <1>5, MemoryStaysRight, PTL
=================================================================================
