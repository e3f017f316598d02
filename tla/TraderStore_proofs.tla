-------------------------- MODULE TraderStore_proofs --------------------------
(***************************************************************************)
(* TypeOK, RecordedOnce and SavedStays for any Traders and orders.         *)
(*                                                                         *)
(* The invariant is taken apart by Trader.  A step of a Trader that is not *)
(* saving leaves the files alone and can only disturb its own part         *)
(* (OneTraderMoves); the two steps of a save, the exceptions within it and *)
(* crashes are dealt with one by one.                                      *)
(***************************************************************************)
EXTENDS TraderStore, TLAPS

-----------------------------------------------------------------------------
(* The parts of the invariant that speak of Trader t. *)

HolderPart(t) ==
    /\ Pc(t) \in {"resolve", "trade", "wait", "wrote", "report"} => lock = t
    /\ Pc(t) = "balance" /\ act[t].kind # "manual" => lock = t
    /\ lock = t => Pc(t) \notin {"off", "reading", "made"}
    /\ t = Loop => act[t].kind \in {"loop", None} /\ Pc(t) # "balance"

NoticePart(t) == t = Loop => NoticeHeld

TodoPart(t) ==
    /\ act[t].todo \subseteq mem[t].pending \cup (IF t = Loop THEN crossed ELSE {})
    /\ Pc(t) \in {"off", "reading", "made"} => act[t].todo = {}

FilledPart(t) == \A o \in Orders : mem[t].ledger.has[o] > 0 => book[o] = "filled"

HalfPart(t) ==
    Pc(t) = "wrote" => /\ ledgerFile = mem[t].ledger
                       /\ staleSaves = 0 => t \notin stale

CoversPart(t) ==
    t \notin stale =>
        /\ Pc(t) = "reading" => mem[t].ledger = ledgerFile
        /\ Pc(t) \notin {"off", "reading"} =>
              \A o \in Orders :
                  /\ ledgerFile.has[o] <= mem[t].ledger.has[o]
                  /\ o \in pendingFile => \/ o \in mem[t].pending
                                          \/ mem[t].ledger.has[o] > 0
                                          \/ book[o] = "cancelled"

OncePart(t) ==
    /\ tornSaves = 0 /\ staleSaves = 0
    /\ t \notin stale
    /\ Pc(t) \notin {"off", "reading"}
    /\ Saving => Pc(t) = "wrote"
    => \A o \in Orders \ crossed : OnceIn(t, o)

Part(t) ==
    /\ HolderPart(t) /\ NoticePart(t) /\ TodoPart(t) /\ FilledPart(t)
    /\ HalfPart(t) /\ CoversPart(t) /\ OncePart(t)

(* And the part that speaks of the files. *)
FilePart ==
    /\ \A o \in Orders : ledgerFile.has[o] > 0 => book[o] = "filled"
    /\ tornSaves = 0 /\ staleSaves = 0 =>
          \A o \in Orders \ crossed : /\ ledgerFile.has[o] <= 1
                                      /\ ~Saving => Once(Files, o)

IInv == TypeOK /\ FilePart /\ \A t \in Traders : Part(t)

LEMMA InvIsNamed ==
    IInv <=> /\ TypeOK /\ OnlyHolder /\ NoticeHeld /\ TodoPending /\ FilledOnly
             /\ HalfSaved /\ FreshCovers /\ FreshOnce
<1>1. OnlyHolder <=> \A t \in Traders : HolderPart(t)
  BY DEF OnlyHolder, HolderPart
<1>2. TodoPending <=> \A t \in Traders : TodoPart(t)
  BY DEF TodoPending, TodoPart
<1>2a. NoticeHeld <=> \A t \in Traders : NoticePart(t)
  BY DEF NoticePart, Traders
<1>3. HalfSaved <=> \A t \in Traders : HalfPart(t)
  BY DEF HalfSaved, HalfPart
<1>4. FreshCovers <=> \A t \in Traders : CoversPart(t)
  BY DEF FreshCovers, CoversPart
<1>5. FilledOnly /\ FreshOnce
      <=> FilePart /\ \A t \in Traders : FilledPart(t) /\ OncePart(t)
  <2>1. FilledOnly
        <=> /\ \A o \in Orders : ledgerFile.has[o] > 0 => book[o] = "filled"
            /\ \A t \in Traders : FilledPart(t)
    BY DEF FilledOnly, FilledPart
  <2>2. FreshOnce
        <=> /\ tornSaves = 0 /\ staleSaves = 0 =>
                  \A o \in Orders \ crossed : /\ ledgerFile.has[o] <= 1
                                              /\ ~Saving => Once(Files, o)
            /\ \A t \in Traders : OncePart(t)
    <3> DEFINE InFile(o) == /\ ledgerFile.has[o] <= 1
                            /\ ~Saving => Once(Files, o)
               Reads(t) == /\ t \notin stale /\ Pc(t) \notin {"off", "reading"}
                           /\ Saving => Pc(t) = "wrote"
    <3>1. FreshOnce <=> (tornSaves = 0 /\ staleSaves = 0 =>
                            \A o \in Orders \ crossed :
                                InFile(o) /\ \A t \in Traders : Reads(t) => OnceIn(t, o))
      BY DEF FreshOnce
    <3>2. \A t \in Traders :
             OncePart(t) <=> (tornSaves = 0 /\ staleSaves = 0 =>
                                 (Reads(t) => \A o \in Orders \ crossed : OnceIn(t, o)))
      BY DEF OncePart
    <3> HIDE DEF InFile, Reads
    <3>3. FreshOnce <=> /\ tornSaves = 0 /\ staleSaves = 0 =>
                               \A o \in Orders \ crossed : InFile(o)
                        /\ \A t \in Traders : OncePart(t)
      BY <3>1, <3>2
    <3> QED
      BY <3>3 DEF InFile
  <2> QED
    BY <2>1, <2>2 DEF FilePart
<1> QED
  BY <1>1, <1>2, <1>2a, <1>3, <1>4, <1>5 DEF IInv, Part

-----------------------------------------------------------------------------
(* Effects of the steps *)

(* All Traders but t are as before. *)
Only(t) == \A u \in Traders : u # t => act'[u] = act[u] /\ mem'[u] = mem[u]

LEMMA MovesAct ==
    ASSUME TypeOK, NEW t \in Traders, NEW x \in ActType, Moves(t, x)
    PROVE  /\ act' \in [Traders -> ActType]
           /\ act'[t] = x
           /\ \A u \in Traders : u # t => act'[u] = act[u]
  BY DEF TypeOK, Moves

LEMMA HoldsCopy ==
    ASSUME TypeOK, NEW t \in Traders, NEW c \in Copy, Holds(t, c)
    PROVE  /\ mem' \in [Traders -> Copy]
           /\ mem'[t] = c
           /\ \A u \in Traders : u # t => mem'[u] = mem[u]
  BY DEF TypeOK, Holds

LEMMA FilledHas ==
    ASSUME NEW l \in Ledger, NEW o \in Orders
    PROVE  /\ Filled(l, o) \in Ledger
           /\ Filled(l, o).has[o] = l.has[o] + 1
           /\ \A p \in Orders : p # o => Filled(l, o).has[p] = l.has[p]
  BY DEF Ledger, Filled

(* A step of t that is neither part of a save nor touches the files.       *)
QuietStep(t) ==
    /\ Only(t)
    /\ UNCHANGED <<files, staleSaves, tornSaves>>
    /\ crossed \subseteq crossed' /\ (t # Loop => UNCHANGED noticeVars)
    /\ \A u \in Traders : u # t => (u \in stale <=> u \in stale')
    /\ \A o \in Orders : book[o] \in {"filled", "cancelled"} => book'[o] = book[o]
    /\ Pc(t) = "wrote" <=> Pc(t)' = "wrote"
    /\ lock' = lock \/ (lock \in {t, None} /\ lock' \in {t, None})

LEMMA QuietSaving ==
    ASSUME NEW t \in Traders, QuietStep(t)
    PROVE  Saving' <=> Saving
  BY DEF QuietStep, Only, Saving, Pc

LEMMA OneTraderMoves ==
    ASSUME IInv, TypeOK', NEW t \in Traders, QuietStep(t), Part(t)'
    PROVE  IInv'
<1>0. None \notin Traders
  BY ConstantsAssumption DEF Traders
<1>1. Saving' <=> Saving
  BY QuietSaving
<1>2. FilePart'
  BY <1>1 DEF IInv, TypeOK, FilePart, QuietStep, files, Files, Once, Ledger
<1>3. ASSUME NEW u \in Traders, u # t PROVE Part(u)'
  <2>1. Part(u) /\ act'[u] = act[u] /\ mem'[u] = mem[u] /\ Pc(u)' = Pc(u)
    BY <1>3 DEF IInv, QuietStep, Only, Pc
  <2>2. HolderPart(u)' /\ NoticePart(u)'
    <3>1. HolderPart(u)'
      BY <2>1, <1>3, <1>0 DEF Part, HolderPart, QuietStep, Pc
    <3>2. NoticePart(u)'
      <4> SUFFICES ASSUME u = Loop, notice # Idle PROVE NoticeHeld'
        BY <1>3 DEF NoticePart, NoticeHeld, QuietStep, noticeVars
      <4>1. NoticeHeld /\ UNCHANGED noticeVars /\ notice.order \in Orders
        BY <1>3, <2>1 DEF Part, NoticePart, QuietStep, IInv, TypeOK
      <4>2. book'[notice.order] = "filled"
        BY <4>1 DEF NoticeHeld, QuietStep
      <4>3. lock # Loop => lock' # Loop
        BY <1>3, <1>0 DEF QuietStep
      <4> QED
        BY <2>1, <4>1, <4>2, <4>3 DEF NoticeHeld, noticeVars
    <3> QED
      BY <3>1, <3>2
  <2>3. TodoPart(u)' /\ FilledPart(u)'
    BY <2>1, <1>3 DEF Part, TodoPart, FilledPart, QuietStep, Pc
  <2>4. HalfPart(u)' /\ CoversPart(u)'
    BY <2>1, <1>3 DEF Part, HalfPart, CoversPart, QuietStep, files
  <2>5. OncePart(u)'
    <3>1. \A o \in Orders \ crossed' : OnceIn(u, o) => OnceIn(u, o)'
      BY <2>1, <1>3 DEF OnceIn, Once, QuietStep, noticeVars
    <3> QED
      BY <2>1, <1>1, <1>3, <3>1 DEF Part, OncePart, QuietStep
  <2> QED
    BY <2>2, <2>3, <2>4, <2>5 DEF Part
<1> QED
  BY <1>2, <1>3 DEF IInv
-----------------------------------------------------------------------------
(* Quiet steps *)

LEMMA PartFacts ==
    ASSUME IInv, NEW t \in Traders
    PROVE  /\ act[t] \in ActType /\ mem[t] \in Copy
           /\ ledgerFile \in Ledger /\ pendingFile \subseteq Orders
           /\ Part(t) /\ TypeOK /\ FilePart
           /\ None \notin Traders
  BY ConstantsAssumption DEF IInv, TypeOK, Traders

(* While t has the lock, or nobody has it, nobody else is saving.          *)
LEMMA NobodySaves ==
    ASSUME IInv, NEW t \in Traders, lock \in {t, None}, Pc(t) # "wrote"
    PROVE  ~Saving
<1>1. ASSUME NEW u \in Traders, Pc(u) = "wrote" PROVE FALSE
  <2>1. Part(u) /\ None \notin Traders
    BY PartFacts
  <2> QED
    BY <1>1, <2>1 DEF Part, HolderPart
<1> QED
  BY <1>1 DEF Saving

(* t goes on to x with the copy c. *)
LEMMA Changes ==
    ASSUME IInv, TypeOK', NEW t \in Traders, NEW x \in ActType, NEW c \in Copy,
           Moves(t, x), Holds(t, c),
           UNCHANGED <<files, stale, staleSaves, tornSaves>>,
           crossed \subseteq crossed', t # Loop => UNCHANGED noticeVars,
           \A o \in Orders : book[o] \in {"filled", "cancelled"} => book'[o] = book[o],
           Pc(t) \notin {"off", "reading"},
           x.pc \notin {"off", "reading"},
           Pc(t) = "wrote" <=> x.pc = "wrote",
           x.pc = "wrote" => c.ledger = mem[t].ledger,
           lock' = lock \/ (lock \in {t, None} /\ lock' \in {t, None}),
           HolderPart(t)', NoticePart(t)',
           x.todo \subseteq c.pending \cup (IF t = Loop THEN crossed' ELSE {}),
           x.pc = "made" => x.todo = {},
           \A o \in Orders :
              /\ c.ledger.has[o] > 0 => book'[o] = "filled"
              /\ mem[t].ledger.has[o] <= c.ledger.has[o]
              /\ o \in mem[t].pending => \/ o \in c.pending
                                         \/ c.ledger.has[o] > 0
                                         \/ book'[o] = "cancelled"
              /\ o \notin crossed' => (OnceIn(t, o) => OnceIn(t, o)')
    PROVE  IInv'
<1>1. Part(t) /\ TypeOK /\ act[t] \in ActType /\ mem[t] \in Copy
  BY PartFacts
<1>2. act'[t] = x /\ mem'[t] = c /\ Only(t)
  BY <1>1, MovesAct, HoldsCopy DEF Only
<1>3. Pc(t)' = x.pc
  BY <1>2 DEF Pc
<1>4. QuietStep(t)
  BY <1>2, <1>3 DEF QuietStep
<1>5. Saving' <=> Saving
  BY <1>4, QuietSaving
<1>6. TodoPart(t)'
  BY <1>2, <1>3 DEF TodoPart, Pc
<1>7. FilledPart(t)'
  BY <1>2 DEF FilledPart
<1>8. HalfPart(t)'
  BY <1>1, <1>2, <1>3 DEF Part, HalfPart, files
<1>9. CoversPart(t)'
  <2> SUFFICES ASSUME t \notin stale, NEW o \in Orders
               PROVE  /\ ledgerFile.has[o] <= c.ledger.has[o]
                      /\ o \in pendingFile => \/ o \in c.pending
                                             \/ c.ledger.has[o] > 0
                                             \/ book'[o] = "cancelled"
    BY <1>2, <1>3 DEF CoversPart, files
  <2>1. /\ ledgerFile.has[o] <= mem[t].ledger.has[o]
        /\ o \in pendingFile => \/ o \in mem[t].pending
                                \/ mem[t].ledger.has[o] > 0
                                \/ book[o] = "cancelled"
    BY <1>1 DEF Part, CoversPart
  <2>2. /\ ledgerFile.has[o] \in Nat /\ mem[t].ledger.has[o] \in Nat
        /\ c.ledger.has[o] \in Nat
    BY <1>1 DEF TypeOK, Ledger, Copy
  <2> QED
    BY <2>1, <2>2
<1>10. OncePart(t)'
  BY <1>1, <1>2, <1>3, <1>5 DEF Part, OncePart
<1> QED
  BY <1>4, <1>6, <1>7, <1>8, <1>9, <1>10, OneTraderMoves DEF Part

(* t, not saving, stops, or begins to read the ledger file. *)
LEMMA Drops ==
    ASSUME IInv, TypeOK', NEW t \in Traders, NEW x \in ActType, NEW c \in Copy,
           Moves(t, x), Holds(t, c),
           UNCHANGED <<book, files, noticeVars, staleSaves, tornSaves>>,
           t = Loop => notice = Idle /\ x.kind \in {"loop", None},
           \A u \in Traders : u # t => (u \in stale <=> u \in stale'),
           Pc(t) # "wrote",
           x.pc = "off" \/ (x.pc = "reading" /\ c.ledger = ledgerFile),
           lock' = lock \/ (lock \in {t, None} /\ lock' \in {t, None}),
           lock' # t,
           x.todo = {},
           \A o \in Orders : c.ledger.has[o] > 0 => book[o] = "filled"
    PROVE  IInv'
<1>1. Part(t) /\ TypeOK /\ act[t] \in ActType /\ mem[t] \in Copy
  BY PartFacts
<1>2. act'[t] = x /\ mem'[t] = c /\ Only(t)
  BY <1>1, MovesAct, HoldsCopy DEF Only
<1>3. Pc(t)' = x.pc
  BY <1>2 DEF Pc
<1>4. QuietStep(t)
  BY <1>2, <1>3 DEF QuietStep, noticeVars
<1>5. HolderPart(t)' /\ NoticePart(t)' /\ TodoPart(t)' /\ FilledPart(t)'
  BY <1>2, <1>3
     DEF HolderPart, NoticePart, NoticeHeld, TodoPart, FilledPart, noticeVars
<1>6. HalfPart(t)' /\ CoversPart(t)' /\ OncePart(t)'
  BY <1>2, <1>3 DEF HalfPart, CoversPart, OncePart, files
<1> QED
  BY <1>4, <1>5, <1>6, OneTraderMoves DEF Part

LEMMA OffEmpty ==
    /\ Off \in ActType /\ Off.pc = "off" /\ Off.todo = {} /\ Off.kind = None
    /\ Empty \in Copy /\ Empty.pending = {}
    /\ \A o \in Orders : Empty.ledger.has[o] = 0
  BY DEF Off, Empty, ActType, Copy, Ledger

LEMMA LeavesType ==
    ASSUME TypeOK, NEW t \in Traders, Leaves(t)
    PROVE  act' \in [Traders -> ActType] /\ mem' \in [Traders -> Copy] /\ lock' = None
<1>1. CASE t = Loop /\ mem' = mem
  <2> DEFINE x == [Off EXCEPT !.pc = "made", !.kind = "loop"]
  <2>1. x \in ActType
    BY DEF Off, ActType
  <2>2. CASE Moves(t, x)
    <3> HIDE DEF x
    <3> QED
      BY <1>1, <2>1, <2>2, MovesAct DEF TypeOK, Leaves
  <2>3. CASE ~Moves(t, x)
    BY <1>1, <2>3 DEF Leaves
  <2> QED
    BY <2>2, <2>3
<1>2. CASE t # Loop /\ Moves(t, Off) /\ Holds(t, Empty)
  BY <1>2, OffEmpty, MovesAct, HoldsCopy DEF Leaves
<1> QED
  BY <1>1, <1>2 DEF Leaves

(* A Trader that is not saving leaves. *)
LEMMA LeavesQuietly ==
    ASSUME IInv, TypeOK', NEW t \in Traders, Leaves(t),
           UNCHANGED <<book, files, noticeVars, stale, staleSaves, tornSaves>>,
           Pc(t) \notin {"off", "reading", "wrote"},
           lock \in {t, None}
    PROVE  IInv'
<1>0. None \notin Traders /\ mem[t] \in Copy /\ TypeOK
  BY PartFacts
<1>1. CASE t = Loop /\ UNCHANGED mem
  <2>1. PICK x \in ActType : Moves(t, x) /\ x.pc = "made" /\ x.todo = {} /\ x.kind = "loop"
    <3> DEFINE y == [Off EXCEPT !.pc = "made", !.kind = "loop"]
    <3>1. y \in ActType /\ y.pc = "made" /\ y.todo = {} /\ y.kind = "loop"
      BY DEF Off, ActType
    <3>2. Moves(t, y)
      BY <1>1, <1>0 DEF Leaves
    <3> HIDE DEF y
    <3> QED
      BY <3>1, <3>2
  <2>2. Holds(t, mem[t])
    BY <1>0, <1>1 DEF TypeOK, Holds
  <2>3. lock' = None
    BY DEF Leaves
  <2>4. act'[t] = x
    BY <2>1, <1>0, MovesAct
  <2>5. HolderPart(t)' /\ NoticePart(t)'
    BY <2>1, <2>3, <2>4, <1>0, <1>1, PartFacts
       DEF HolderPart, Part, NoticePart, NoticeHeld, Pc, noticeVars
  <2>7. \A o \in Orders : OnceIn(t, o) => OnceIn(t, o)'
    BY <1>1 DEF OnceIn, Once, noticeVars
  <2>6. \A o \in Orders : /\ mem[t].ledger.has[o] \in Nat
                          /\ mem[t].ledger.has[o] > 0 => book'[o] = "filled"
    BY <1>0, PartFacts DEF Part, FilledPart, Copy, Ledger
  <2> QED
    BY <1>0, <2>1, <2>2, <2>3, <2>5, <2>6, <2>7, Changes DEF noticeVars
<1>2. CASE t # Loop /\ Moves(t, Off) /\ Holds(t, Empty)
  <2>1. lock' = None
    BY DEF Leaves
  <2> QED
    BY <1>0, <1>2, <2>1, OffEmpty, Drops
<1> QED
  BY <1>1, <1>2 DEF Leaves
-----------------------------------------------------------------------------
(* Type correctness *)

LEMMA FilesCopy ==
    ASSUME TypeOK
    PROVE  Files \in Copy /\ [Empty EXCEPT !.ledger = ledgerFile] \in Copy
  BY OffEmpty DEF Files, TypeOK, Copy

LEMMA SendsType ==
    ASSUME TypeOK, NEW t \in Traders, NEW o \in Orders, Sends(t, o)
    PROVE  TypeOK'
<1>1. mem' \in [Traders -> Copy]
  <2>1. CASE UNCHANGED mem
    BY <2>1 DEF TypeOK
  <2>2. CASE Holds(t, [mem[t] EXCEPT !.pending = @ \cup {o}])
    <3> DEFINE c == [mem[t] EXCEPT !.pending = @ \cup {o}]
    <3>1. c \in Copy
      BY DEF TypeOK, Copy
    <3> HIDE DEF c
    <3> QED
      BY <2>2, <3>1, HoldsCopy DEF c
  <2> QED
    BY <2>1, <2>2 DEF Sends
<1> QED
  BY <1>1 DEF Sends, TypeOK, files, noticeVars, bounds, saveVars

LEMMA NextType ==
    ASSUME TypeOK, [Next]_vars
    PROVE  TypeOK'
<1> USE DEF TypeOK
<1>1. ASSUME NEW t \in Traders, JobReadsLedger(t) PROVE TypeOK'
  <2>1. PICK k \in {"cycle", "manual"} :
            Moves(t, [Off EXCEPT !.pc = "reading", !.kind = k])
    BY <1>1 DEF JobReadsLedger
  <2>2. [Off EXCEPT !.pc = "reading", !.kind = k] \in ActType
    BY DEF Off, ActType
  <2> QED
    BY <1>1, <2>1, <2>2, FilesCopy, MovesAct, HoldsCopy
       DEF JobReadsLedger, kisVars, files, noticeVars, bounds
<1>2. ASSUME LoopReadsLedger PROVE TypeOK'
  <2>1. [Off EXCEPT !.pc = "reading", !.kind = "loop"] \in ActType /\ Loop \in Traders
    BY DEF Off, ActType, Traders
  <2> QED
    BY <1>2, <2>1, FilesCopy, MovesAct, HoldsCopy
       DEF LoopReadsLedger, kisVars, files, noticeVars, bounds
<1>3. ASSUME NEW t \in Traders, ReadsPending(t) PROVE TypeOK'
  <2>1. /\ [act[t] EXCEPT !.pc = "made"] \in ActType
        /\ [mem[t] EXCEPT !.pending = pendingFile] \in Copy
    BY DEF ActType, Copy
  <2> QED
    BY <1>3, <2>1, MovesAct, HoldsCopy
       DEF ReadsPending, kisVars, files, noticeVars, bounds, saveVars
<1>4. ASSUME LoopStops PROVE TypeOK'
  <2>1. Loop \in Traders
    BY DEF Traders
  <2> QED
    BY <1>4, <2>1, OffEmpty, MovesAct, HoldsCopy
       DEF LoopStops, kisVars, files, noticeVars, bounds, saveVars
<1>5. ASSUME NEW o \in Orders, LoopMatches(o) \/ LoopApplies(o) \/ LoopRemoves(o)
      PROVE TypeOK'
  <2>1. Loop \in Traders /\ notice' \in [pc : {"matched", "applied"}, order : Orders] \cup {Idle}
    BY <1>5 DEF Traders, LoopMatches, LoopApplies, LoopRemoves
  <2>2. mem' \in [Traders -> Copy]
    <3>1. CASE LoopMatches(o)
      BY <3>1 DEF LoopMatches
    <3>2. CASE LoopApplies(o)
      <4>1. [mem[Loop] EXCEPT !.ledger = Filled(@, o)] \in Copy
        BY <2>1, FilledHas DEF Copy
      <4> QED
        BY <2>1, <3>2, <4>1, HoldsCopy DEF LoopApplies
    <3>3. CASE LoopRemoves(o)
      <4>1. [mem[Loop] EXCEPT !.pending = @ \ {o}] \in Copy
        BY <2>1 DEF Copy
      <4> QED
        BY <2>1, <3>3, <4>1, HoldsCopy DEF LoopRemoves
    <3> QED
      BY <1>5, <3>1, <3>2, <3>3
  <2> QED
    BY <1>5, <2>1, <2>2
       DEF LoopMatches, LoopApplies, LoopRemoves, kisVars, files, bounds, saveVars
<1>5a. ASSUME NEW o \in Orders, ResolvesGone(o) PROVE TypeOK'
  <2> DEFINE x == [Off EXCEPT !.pc = "made", !.kind = "loop"]
             c == [mem[Loop] EXCEPT !.ledger = Filled(@, o)]
  <2>1. x \in ActType /\ Loop \in Traders
    BY DEF Off, ActType, Traders
  <2>2. c \in Copy
    BY <2>1, FilledHas DEF Copy
  <2>3. Moves(Loop, x) /\ Holds(Loop, c)
    BY <1>5a DEF ResolvesGone
  <2> HIDE DEF x, c
  <2> QED
    BY <1>5a, <2>1, <2>2, <2>3, MovesAct, HoldsCopy
       DEF ResolvesGone, kisVars, files, noticeVars, bounds, saveVars
<1>6. ASSUME NEW o \in Orders, LoopSells(o) PROVE TypeOK'
  BY <1>6, SendsType DEF LoopSells, Traders
<1>7. ASSUME NEW t \in Traders, EntersCycle(t) PROVE TypeOK'
  <2>1. [act[t] EXCEPT !.pc = "resolve", !.todo = mem[t].pending] \in ActType
    BY DEF ActType, Copy
  <2>2. notice # Idle => notice.order \in Orders
    OBVIOUS
  <2> QED
    BY <1>7, <2>1, <2>2, MovesAct DEF EntersCycle, kisVars, files, noticeVars, bounds, saveVars
<1>8. ASSUME NEW t \in Traders, NEW o \in Orders, Resolves(t, o) PROVE TypeOK'
  <2>1. [act[t] EXCEPT !.todo = @ \ {o}] \in ActType
    BY DEF ActType
  <2>2. mem' \in [Traders -> Copy]
    <3>1. CASE Holds(t, [ledger |-> Filled(mem[t].ledger, o),
                         pending |-> mem[t].pending \ {o}])
      <4>1. [ledger |-> Filled(mem[t].ledger, o),
             pending |-> mem[t].pending \ {o}] \in Copy
        BY FilledHas DEF Copy
      <4> QED
        BY <3>1, <4>1, HoldsCopy
    <3>2. CASE Holds(t, [mem[t] EXCEPT !.pending = @ \ {o}])
      <4>1. [mem[t] EXCEPT !.pending = @ \ {o}] \in Copy
        BY DEF Copy
      <4> QED
        BY <3>2, <4>1, HoldsCopy
    <3> QED
      BY <1>8, <3>1, <3>2 DEF Resolves
  <2> QED
    BY <1>8, <2>1, <2>2, MovesAct DEF Resolves, kisVars, files, noticeVars, bounds, saveVars
<1>9. ASSUME NEW t \in Traders, ChecksHealth(t) PROVE TypeOK'
  <2>1. CASE Moves(t, [act[t] EXCEPT !.pc = "trade"]) /\ UNCHANGED <<lock, mem>>
    <3>1. [act[t] EXCEPT !.pc = "trade"] \in ActType
      BY DEF ActType
    <3> QED
      BY <1>9, <2>1, <3>1, MovesAct DEF ChecksHealth, kisVars, files, noticeVars, bounds, saveVars
  <2>2. CASE Leaves(t)
    BY <1>9, <2>2, LeavesType DEF ChecksHealth, kisVars, files, noticeVars, bounds, saveVars
  <2> QED
    BY <1>9, <2>1, <2>2 DEF ChecksHealth
<1>10. ASSUME NEW t \in Traders, NEW o \in Orders, Trades(t, o) PROVE TypeOK'
  BY <1>10, SendsType DEF Trades
<1>11. ASSUME NEW t \in Traders, WaitsPending(t) PROVE TypeOK'
  <2>1. [act[t] EXCEPT !.pc = "wait", !.todo = mem[t].pending] \in ActType
    BY DEF ActType, Copy
  <2> QED
    BY <1>11, <2>1, MovesAct DEF WaitsPending, kisVars, files, noticeVars, bounds, saveVars
<1>12. ASSUME NEW t \in Traders, SavesLedger(t) PROVE TypeOK'
  <2>1. [act[t] EXCEPT !.pc = "wrote"] \in ActType
    BY DEF ActType
  <2> QED
    BY <1>12, <2>1, MovesAct DEF SavesLedger, Outdates, kisVars, noticeVars, bounds, Copy
<1>13. ASSUME NEW t \in Traders, GoesToReport(t)
       PROVE /\ act' \in [Traders -> ActType] /\ mem' \in [Traders -> Copy]
             /\ lock' \in Traders \cup {None}
  <2>1. [act[t] EXCEPT !.pc = "report", !.kis = 0] \in ActType
    BY DEF ActType
  <2> QED
    BY <1>13, <2>1, MovesAct, LeavesType DEF GoesToReport
<1>14. ASSUME NEW t \in Traders, SavesPending(t) PROVE TypeOK'
  BY <1>13, <1>14 DEF SavesPending, Outdates, kisVars, noticeVars, bounds, Copy
<1>15. ASSUME NEW t \in Traders, Raises(t) PROVE TypeOK'
  BY <1>15, LeavesType DEF Raises, kisVars, files, noticeVars, bounds
<1>16. ASSUME NEW t \in Traders, EntersSettlement(t) PROVE TypeOK'
  <2>1. [Off EXCEPT !.pc = "resolve", !.kind = "settle", !.todo = pendingFile] \in ActType
    BY DEF Off, ActType
  <2> QED
    BY <1>16, <2>1, FilesCopy, MovesAct, HoldsCopy
       DEF EntersSettlement, kisVars, files, noticeVars, bounds
<1>17. ASSUME NEW t \in Traders, ReadsBalance(t) PROVE TypeOK'
  <2>1. [act[t] EXCEPT !.pc = "balance", !.kis = position] \in ActType
    BY DEF ActType
  <2> QED
    BY <1>17, <2>1, MovesAct DEF ReadsBalance, kisVars, files, noticeVars, bounds, saveVars
<1>18. ASSUME NEW t \in Traders, Deducts(t) PROVE TypeOK'
  <2>1. act[t].kis \in Nat /\ mem[t].ledger.qty \in Nat
    BY DEF ActType, Copy, Ledger
  <2>2. deducted' \in Nat
    BY <1>18, <2>1 DEF Deducts
  <2>3. [act[t] EXCEPT !.pc = "wait", !.kis = 0] \in ActType
    BY DEF ActType
  <2>4. [mem[t] EXCEPT !.ledger.qty = act[t].kis] \in Copy
    BY <2>1 DEF Copy, Ledger
  <2> QED
    BY <1>18, <2>2, <2>3, <2>4, MovesAct, HoldsCopy DEF Deducts, kisVars, files, noticeVars, bounds, saveVars
<1>19. ASSUME NEW t \in Traders, FindsNoOrphan(t) PROVE TypeOK'
  BY <1>13, <1>19 DEF FindsNoOrphan, kisVars, files, noticeVars, bounds, saveVars
<1>20. ASSUME NEW t \in Traders, Reports(t) PROVE TypeOK'
  BY <1>20, LeavesType DEF Reports, kisVars, files, noticeVars, bounds, saveVars
<1>21. ASSUME NEW o \in Orders, Executes(o) \/ OrderCancelled(o) PROVE TypeOK'
  BY <1>21 DEF Executes, OrderCancelled, files, noticeVars, bounds, saveVars
<1>22. ASSUME SellsByHand PROVE TypeOK'
  BY <1>22 DEF SellsByHand, files, noticeVars, saveVars
<1>23. ASSUME Crashes PROVE TypeOK'
  BY <1>23, OffEmpty DEF Crashes, kisVars, files
<1>24. ASSUME UNCHANGED vars PROVE TypeOK'
  BY <1>24 DEF vars, kisVars, files, noticeVars, bounds, saveVars
<1> QED
  BY <1>1, <1>2, <1>3, <1>4, <1>5, <1>5a, <1>6, <1>7, <1>8, <1>9, <1>10, <1>11, <1>12,
     <1>14, <1>15, <1>16, <1>17, <1>18, <1>19, <1>20, <1>21, <1>22, <1>23, <1>24
     DEF Next, TraderStep, LoopStep

LEMMA InitType == Init => TypeOK
  BY OffEmpty DEF Init, TypeOK, Ledger

(* Type correctness: whatever Traders read, change, save or lose, the      *)
(* files and the copies stay ledgers and sets of orders.                   *)
THEOREM TypeCorrect == Spec => []TypeOK
  BY InitType, NextType, PTL DEF Spec
-----------------------------------------------------------------------------
(* Steps outside of a save *)

(* What a step that keeps its copy c has to know of it. *)
LEMMA CopyKept ==
    ASSUME IInv, NEW t \in Traders
    PROVE  /\ mem' = mem => Holds(t, mem[t])
           /\ act' = act => Moves(t, act[t])
           /\ \A o \in Orders :
                 /\ mem[t].ledger.has[o] \in Nat
                 /\ mem[t].ledger.has[o] > 0 => book[o] = "filled"
                 /\ mem[t].ledger.has[o] <= mem[t].ledger.has[o]
<1>1. mem[t] \in Copy /\ Part(t) /\ TypeOK
  BY PartFacts
<1> QED
  BY <1>1 DEF Part, FilledPart, TypeOK, Holds, Moves, Copy, Ledger

(* t goes on to x under the same lock or after taking it. *)
LEMMA GoesOn ==
    ASSUME IInv, TypeOK', NEW t \in Traders, NEW x \in ActType,
           Moves(t, x), UNCHANGED <<book, files, mem, notice, stale, staleSaves, tornSaves>>,
           crossed \subseteq crossed', t # Loop => UNCHANGED crossed,
           t = Loop /\ lock # t /\ notice # Idle => notice.order \in crossed',
           x.kind = act[t].kind, t = Loop => x.pc # "balance",
           Pc(t) \notin {"off", "reading", "wrote"},
           x.pc \notin {"off", "reading", "made", "wrote"},
           lock' = lock \/ (lock = None /\ lock' = t),
           lock' = t \/ (x.pc = "balance" /\ x.kind = "manual"),
           x.todo \subseteq mem[t].pending \cup (IF t = Loop THEN crossed ELSE {})
    PROVE  IInv'
<1>1. mem[t] \in Copy /\ TypeOK /\ act[t] \in ActType
  BY PartFacts
<1>2. act'[t] = x
  BY <1>1, MovesAct
<1>3. HolderPart(t)'
  BY <1>2, PartFacts DEF Part, HolderPart, Pc
<1>4. NoticePart(t)'
  <2> SUFFICES ASSUME t = Loop, notice # Idle PROVE NoticeHeld'
    BY DEF NoticePart, NoticeHeld
  <2>1. NoticeHeld
    BY PartFacts DEF Part, NoticePart
  <2>2. notice.order \in crossed'
    BY <2>1 DEF NoticeHeld
  <2> QED
    BY <1>2, <2>1, <2>2 DEF NoticeHeld, Pc
<1>5. \A o \in Orders : OnceIn(t, o) => OnceIn(t, o)'
  BY DEF OnceIn, Once
<1> QED
  BY <1>1, <1>3, <1>4, <1>5, CopyKept, Changes DEF noticeVars

LEMMA SendsKeeps ==
    ASSUME IInv, TypeOK', NEW t \in Traders, NEW o \in Orders, Sends(t, o),
           Pc(t) \in {"made", "trade"}
    PROVE  IInv'
<1>1. /\ mem[t] \in Copy /\ TypeOK /\ act[t] \in ActType /\ Part(t)
  BY PartFacts
<1>2. Moves(t, act[t]) /\ HolderPart(t)'
  BY <1>1, CopyKept DEF Sends, Part, HolderPart, Pc
<1>2a. NoticePart(t)'
  <2> SUFFICES ASSUME t = Loop, notice # Idle PROVE NoticeHeld'
    BY DEF NoticePart, NoticeHeld, Sends, noticeVars
  <2>1. NoticeHeld /\ notice.order \in Orders
    BY <1>1 DEF Part, NoticePart, TypeOK
  <2>2. /\ mem'[Loop].ledger = mem[Loop].ledger
        /\ mem[Loop].pending \subseteq mem'[Loop].pending
        /\ book'[notice.order] = "filled"
    BY <1>1, <2>1 DEF Sends, Holds, TypeOK, Copy, NoticeHeld
  <2> QED
    BY <2>1, <2>2 DEF NoticeHeld, Sends, noticeVars, Pc
<1>3. /\ book[o] = "new"
      /\ \A p \in Orders : /\ p = o \/ book'[p] = book[p]
                           /\ book[p] \in {"filled", "cancelled"} => book'[p] = book[p]
  BY <1>1 DEF Sends, TypeOK
<1>4. mem[t].ledger.has[o] = 0
  BY <1>1, <1>3, CopyKept
<1>5. /\ act[t].todo \subseteq mem[t].pending \cup (IF t = Loop THEN crossed ELSE {})
      /\ act[t].pc = "made" => act[t].todo = {}
      /\ act[t].pc \in {"made", "trade"}
  BY <1>1 DEF Part, TodoPart, Pc
<1>6. UNCHANGED <<files, lock, notice, crossed, stale, staleSaves, tornSaves>>
  BY DEF Sends, saveVars, noticeVars
<1>7. CASE UNCHANGED mem
  <2>1. \A p \in Orders : mem[t].ledger.has[p] > 0 => book'[p] = "filled"
    BY <1>3, CopyKept
  <2>2. \A p \in Orders : OnceIn(t, p) => OnceIn(t, p)'
    BY <1>6, <1>7 DEF OnceIn, Once
  <2> QED
    BY <1>1, <1>2, <1>2a, <1>3, <1>5, <1>6, <1>7, <2>1, <2>2, CopyKept, Changes
       DEF noticeVars, Pc
<1>8. CASE Holds(t, [mem[t] EXCEPT !.pending = @ \cup {o}])
  <2> DEFINE c == [mem[t] EXCEPT !.pending = @ \cup {o}]
  <2>1. c \in Copy /\ c.ledger = mem[t].ledger /\ c.pending = mem[t].pending \cup {o}
    BY <1>1 DEF Copy
  <2>2. Holds(t, c)
    BY <1>8
  <2> HIDE DEF c
  <2>3. \A p \in Orders : c.ledger.has[p] > 0 => book'[p] = "filled"
    BY <1>3, <1>4, <2>1, CopyKept
  <2>4. \A p \in Orders : OnceIn(t, p) => OnceIn(t, p)'
    <3>1. mem'[t] = c
      BY <1>1, <2>1, <2>2, HoldsCopy
    <3> QED
      BY <1>4, <1>6, <2>1, <3>1 DEF OnceIn, Once
  <2> QED
    BY <1>1, <1>2, <1>2a, <1>3, <1>5, <1>6, <2>1, <2>2, <2>3, <2>4, CopyKept, Changes
       DEF noticeVars, Pc
<1> QED
  BY <1>7, <1>8 DEF Sends

(* The fill of an order that is still pending goes into the copy. *)
LEMMA FillsOnce ==
    ASSUME IInv, NEW t \in Traders, NEW o \in mem[t].pending, o \in Orders,
           book[o] = "filled",
           NEW c, c = [ledger |-> Filled(mem[t].ledger, o),
                       pending |-> mem[t].pending \ {o}]
    PROVE  /\ c \in Copy /\ c.pending = mem[t].pending \ {o}
           /\ \A p \in Orders :
                 /\ c.ledger.has[p] > 0 => book[p] = "filled"
                 /\ mem[t].ledger.has[p] <= c.ledger.has[p]
                 /\ p \in mem[t].pending => p \in c.pending \/ c.ledger.has[p] > 0
                 /\ Once(mem[t], p) => Once(c, p)
<1>1. mem[t] \in Copy /\ mem[t].ledger \in Ledger
  BY PartFacts DEF Copy
<1>2. /\ c.ledger \in Ledger
      /\ c.ledger.has[o] = mem[t].ledger.has[o] + 1
      /\ \A p \in Orders : p # o => c.ledger.has[p] = mem[t].ledger.has[p]
  BY <1>1, FilledHas
<1>3. c \in Copy /\ c.pending = mem[t].pending \ {o}
  BY <1>1, <1>2 DEF Copy
<1>4. ASSUME NEW p \in Orders
      PROVE  /\ c.ledger.has[p] > 0 => book[p] = "filled"
             /\ mem[t].ledger.has[p] <= c.ledger.has[p]
             /\ p \in mem[t].pending => p \in c.pending \/ c.ledger.has[p] > 0
             /\ Once(mem[t], p) => Once(c, p)
  BY <1>1, <1>2, <1>3, CopyKept DEF Once, Copy, Ledger
<1> QED
  BY <1>3, <1>4

LEMMA NoticeOrder ==
    ASSUME IInv, notice # Idle
    PROVE  notice.order \in Orders /\ NoticeHeld
<1>1. Loop \in Traders
  BY DEF Traders
<1> QED
  BY <1>1, PartFacts DEF IInv, TypeOK, Part, NoticePart

(* A cycle of t fills in what its copy has, with the notice left alone.    *)
LEMMA InLock ==
    ASSUME IInv, NEW t \in Traders, lock = t, UNCHANGED noticeVars,
           \A o \in Orders : Once(mem[t], o) => Once(mem'[t], o)
    PROVE  \A o \in Orders \ crossed : /\ OnceIn(t, o) <=> Once(mem[t], o)
                                       /\ OnceIn(t, o) => OnceIn(t, o)'
<1> SUFFICES ASSUME NEW o \in Orders \ crossed
             PROVE  /\ OnceIn(t, o) <=> Once(mem[t], o)
                    /\ OnceIn(t, o) => OnceIn(t, o)'
  OBVIOUS
<1>1. t = Loop => NoticeHeld
  BY PartFacts DEF Part, NoticePart
<1>2. ~(t = Loop /\ notice = [pc |-> "applied", order |-> o])
  BY <1>1 DEF NoticeHeld, Idle
<1>3. notice' = notice
  BY DEF noticeVars
<1>4. OnceIn(t, o) <=> Once(mem[t], o)
  BY <1>2 DEF OnceIn
<1>5. OnceIn(t, o)' <=> Once(mem'[t], o)
  BY <1>2, <1>3 DEF OnceIn, Once
<1> QED
  BY <1>4, <1>5

LEMMA ReadKeeps ==
    ASSUME IInv, TypeOK', NEW t \in Traders,
           JobReadsLedger(t) \/ (t = Loop /\ LoopReadsLedger)
    PROVE  IInv'
<1>1. PICK k \in {"cycle", "manual", "loop"} :
          Moves(t, [Off EXCEPT !.pc = "reading", !.kind = k])
  BY DEF JobReadsLedger, LoopReadsLedger
<1> DEFINE x == [Off EXCEPT !.pc = "reading", !.kind = k]
           c == [Empty EXCEPT !.ledger = ledgerFile]
<1>2. x \in ActType /\ x.pc = "reading" /\ x.todo = {}
  BY DEF Off, ActType
<1>3. c \in Copy /\ c.ledger = ledgerFile
  BY FilesCopy, PartFacts DEF Empty
<1>4. Moves(t, x) /\ Holds(t, c) /\ Pc(t) = "off"
  BY <1>1 DEF JobReadsLedger, LoopReadsLedger
<1>5. lock # t /\ (t = Loop => notice = Idle)
  BY <1>4, PartFacts DEF Part, HolderPart, NoticePart, NoticeHeld
<1>6. /\ UNCHANGED <<book, files, lock, noticeVars, staleSaves, tornSaves>>
      /\ stale' = stale \ {t}
  BY DEF JobReadsLedger, LoopReadsLedger, kisVars
<1>7. t = Loop => x.kind \in {"loop", None}
  <2>1. t = Loop => Moves(t, [Off EXCEPT !.pc = "reading", !.kind = "loop"])
    BY ConstantsAssumption DEF JobReadsLedger, LoopReadsLedger
  <2>2. [Off EXCEPT !.pc = "reading", !.kind = "loop"] \in ActType
    BY DEF Off, ActType
  <2>3. [Off EXCEPT !.pc = "reading", !.kind = "loop"].kind = "loop"
    BY DEF Off
  <2> HIDE DEF x
  <2>4. CASE t = Loop
    <3>1. act'[t] = x
      BY <1>2, <1>4, MovesAct, PartFacts
    <3>2. act'[t] = [Off EXCEPT !.pc = "reading", !.kind = "loop"]
      BY <2>1, <2>2, <2>4, MovesAct, PartFacts
    <3> QED
      BY <2>3, <3>1, <3>2
  <2> QED
    BY <2>4
<1> HIDE DEF x, c
<1> QED
  BY <1>2, <1>3, <1>4, <1>5, <1>6, <1>7, PartFacts, Drops DEF FilePart

LEMMA ReadsPendingKeeps ==
    ASSUME IInv, TypeOK', NEW t \in Traders, ReadsPending(t)
    PROVE  IInv'
<1> DEFINE x == [act[t] EXCEPT !.pc = "made"]
           c == [mem[t] EXCEPT !.pending = pendingFile]
<1>1. act[t] \in ActType /\ mem[t] \in Copy /\ Part(t) /\ TypeOK /\ FilePart
  BY PartFacts
<1>2. x \in ActType /\ x.pc = "made" /\ x.todo = act[t].todo /\ x.kind = act[t].kind
  BY <1>1 DEF ActType
<1>3. c \in Copy /\ c.ledger = mem[t].ledger /\ c.pending = pendingFile
  BY <1>1, PartFacts DEF Copy
<1>4. Moves(t, x) /\ Holds(t, c) /\ Pc(t) = "reading"
  BY DEF ReadsPending
<1> HIDE DEF x, c
<1>5. act'[t] = x /\ mem'[t] = c /\ Only(t) /\ Pc(t)' = "made"
  BY <1>1, <1>2, <1>3, <1>4, MovesAct, HoldsCopy DEF Only, Pc
<1>6. UNCHANGED <<book, files, lock, notice, crossed, stale, staleSaves, tornSaves>>
  BY DEF ReadsPending, kisVars, saveVars, noticeVars
<1>7. QuietStep(t)
  BY <1>4, <1>5, <1>6 DEF QuietStep, noticeVars
<1>8. HolderPart(t)' /\ NoticePart(t)' /\ (t = Loop => notice = Idle)
  BY <1>1, <1>2, <1>4, <1>5, <1>6 DEF Part, HolderPart, NoticePart, NoticeHeld
<1>9. TodoPart(t)' /\ FilledPart(t)' /\ HalfPart(t)'
  BY <1>1, <1>2, <1>3, <1>4, <1>5, <1>6
     DEF Part, TodoPart, FilledPart, HalfPart, Pc
<1>10. t \notin stale => mem[t].ledger = ledgerFile
  BY <1>1, <1>4 DEF Part, CoversPart
<1>11. CoversPart(t)'
  BY <1>1, <1>3, <1>5, <1>6, <1>10 DEF CoversPart, files, TypeOK, Ledger
<1>12. OncePart(t)'
  <2> SUFFICES ASSUME tornSaves = 0, staleSaves = 0, t \notin stale, ~Saving',
                      NEW o \in Orders \ crossed
               PROVE  Once(c, o)
    BY <1>5, <1>6, <1>8 DEF OncePart, OnceIn, Once, Idle
  <2>1. ~Saving
    BY <1>7, QuietSaving
  <2>2. Once(Files, o)
    BY <1>1, <1>6, <2>1 DEF FilePart
  <2> QED
    BY <1>3, <1>10, <2>2 DEF Once, Files
<1> QED
  BY <1>7, <1>8, <1>9, <1>11, <1>12, OneTraderMoves DEF Part

LEMMA SettlementKeeps ==
    ASSUME IInv, TypeOK', NEW t \in Traders, EntersSettlement(t)
    PROVE  IInv'
<1> DEFINE x == [Off EXCEPT !.pc = "resolve", !.kind = "settle", !.todo = pendingFile]
<1>1. act[t] \in ActType /\ mem[t] \in Copy /\ Part(t) /\ TypeOK /\ FilePart
      /\ pendingFile \subseteq Orders /\ ledgerFile \in Ledger
  BY PartFacts
<1>2. x \in ActType /\ x.pc = "resolve" /\ x.todo = pendingFile /\ x.kind = "settle"
  BY <1>1 DEF Off, ActType
<1>3. Files \in Copy /\ Files.ledger = ledgerFile /\ Files.pending = pendingFile
  BY <1>1, FilesCopy DEF Files
<1>4. /\ Moves(t, x) /\ Holds(t, Files) /\ Pc(t) = "off" /\ lock = None /\ lock' = t
      /\ t # Loop
  BY ConstantsAssumption DEF EntersSettlement
<1> HIDE DEF x
<1>5. act'[t] = x /\ mem'[t] = Files /\ Only(t) /\ Pc(t)' = "resolve"
  BY <1>1, <1>2, <1>3, <1>4, MovesAct, HoldsCopy DEF Only, Pc
<1>6. /\ UNCHANGED <<book, files, notice, crossed, staleSaves, tornSaves>>
      /\ stale' = stale \ {t}
  BY DEF EntersSettlement, kisVars, noticeVars
<1>7. QuietStep(t)
  BY <1>4, <1>5, <1>6 DEF QuietStep, noticeVars
<1>8. HolderPart(t)' /\ NoticePart(t)' /\ TodoPart(t)' /\ FilledPart(t)' /\ HalfPart(t)'
  BY <1>1, <1>2, <1>3, <1>4, <1>5, <1>6
     DEF FilePart, HolderPart, NoticePart, TodoPart, FilledPart, HalfPart, Pc
<1>9. CoversPart(t)'
  BY <1>1, <1>3, <1>5, <1>6 DEF CoversPart, files, Ledger
<1>10. OncePart(t)'
  <2>1. Saving' <=> Saving
    BY <1>7, QuietSaving
  <2> QED
    <3>1. \A o \in Orders : Once(Files, o) => OnceIn(t, o)'
      BY <1>4, <1>5 DEF OnceIn, Once
    <3>2. tornSaves = 0 /\ staleSaves = 0 /\ ~Saving =>
             \A o \in Orders \ crossed : Once(Files, o)
      BY <1>1 DEF FilePart
    <3> QED
      BY <1>5, <1>6, <2>1, <3>1, <3>2 DEF OncePart
<1> QED
  BY <1>7, <1>8, <1>9, <1>10, OneTraderMoves DEF Part

(* A notice is matched: the copy is as before. *)
LEMMA MatchesKeep ==
    ASSUME IInv, TypeOK', NEW o \in Orders, LoopMatches(o)
    PROVE  IInv'
<1>1. /\ Loop \in Traders /\ Part(Loop) /\ TypeOK /\ None \notin Traders
      /\ act[Loop] \in ActType /\ mem[Loop] \in Copy
  BY PartFacts DEF Traders
<1>2. /\ UNCHANGED <<book, files, lock, act, mem, stale, staleSaves, tornSaves>>
      /\ notice = Idle /\ notice' = [pc |-> "matched", order |-> o]
      /\ crossed \subseteq crossed' /\ (lock = Loop => o \in crossed')
      /\ Pc(Loop) \notin {"off", "reading"}
      /\ o \in mem[Loop].pending /\ book[o] = "filled"
  BY DEF LoopMatches, kisVars, saveVars
<1>3. Moves(Loop, act[Loop]) /\ Holds(Loop, mem[Loop])
  BY <1>1, <1>2, CopyKept
<1>4. HolderPart(Loop)' /\ NoticePart(Loop)'
  BY <1>1, <1>2 DEF Part, HolderPart, NoticePart, NoticeHeld, Pc
<1>5. \A p \in Orders : OnceIn(Loop, p) => OnceIn(Loop, p)'
  BY <1>2 DEF OnceIn, Once, Idle
<1>6. /\ act[Loop].todo \subseteq mem[Loop].pending \cup crossed'
      /\ act[Loop].pc = "made" => act[Loop].todo = {}
  BY <1>1, <1>2 DEF Part, TodoPart, Pc
<1> QED
  BY <1>1, <1>2, <1>3, <1>4, <1>5, <1>6, CopyKept, Changes DEF Pc

(* Its fill is added, while the order is pending. *)
LEMMA AppliesKeep ==
    ASSUME IInv, TypeOK', NEW o \in Orders, LoopApplies(o)
    PROVE  IInv'
<1> DEFINE c == [mem[Loop] EXCEPT !.ledger = Filled(@, o)]
<1>1. /\ Loop \in Traders /\ Part(Loop) /\ TypeOK /\ None \notin Traders
      /\ act[Loop] \in ActType /\ mem[Loop] \in Copy /\ mem[Loop].ledger \in Ledger
  BY PartFacts DEF Traders, Copy
<1>2. /\ UNCHANGED <<book, files, lock, act, crossed, stale, staleSaves, tornSaves>>
      /\ notice = [pc |-> "matched", order |-> o]
      /\ notice' = [pc |-> "applied", order |-> o]
      /\ Pc(Loop) = "made" /\ lock = None /\ Holds(Loop, c)
  BY DEF LoopApplies, kisVars, saveVars
<1>3. /\ c \in Copy /\ c.pending = mem[Loop].pending
      /\ c.ledger.has[o] = mem[Loop].ledger.has[o] + 1
      /\ \A p \in Orders : p # o => c.ledger.has[p] = mem[Loop].ledger.has[p]
      /\ \A p \in Orders : mem[Loop].ledger.has[p] \in Nat
  <2>1. Filled(mem[Loop].ledger, o) \in Ledger
    BY <1>1, FilledHas
  <2>2. c \in Copy /\ c.pending = mem[Loop].pending /\ c.ledger = Filled(mem[Loop].ledger, o)
    BY <1>1, <2>1 DEF Copy
  <2>3. \A p \in Orders : mem[Loop].ledger.has[p] \in Nat
    BY <1>1 DEF Ledger
  <2> QED
    BY <1>1, <2>2, <2>3, FilledHas
<1>4. Moves(Loop, act[Loop])
  BY <1>1, <1>2, CopyKept
<1> HIDE DEF c
<1>5. mem'[Loop] = c
  BY <1>1, <1>2, <1>3, HoldsCopy
<1>6. NoticeHeld /\ book[o] = "filled" /\ (o \notin crossed => o \in mem[Loop].pending)
  BY <1>1, <1>2 DEF Part, NoticePart, NoticeHeld, Idle
<1>7. HolderPart(Loop)' /\ NoticePart(Loop)'
  BY <1>1, <1>2, <1>3, <1>5, <1>6 DEF Part, HolderPart, NoticePart, NoticeHeld, Pc
<1>8. ASSUME NEW p \in Orders \ crossed, OnceIn(Loop, p) PROVE OnceIn(Loop, p)'
  <2>1. CASE p = o
    <3>1. Once(mem[Loop], o)
      BY <1>2, <1>8, <2>1 DEF OnceIn
    <3>2. mem[Loop].ledger.has[o] = 0
      BY <1>3, <1>6, <1>8, <2>1, <3>1 DEF Once
    <3> QED
      BY <1>2, <1>3, <1>5, <2>1, <3>2 DEF OnceIn
  <2>2. CASE p # o
    BY <1>2, <1>3, <1>5, <1>8, <2>2 DEF OnceIn, Once
  <2> QED
    BY <2>1, <2>2
<1>9. /\ act[Loop].todo \subseteq c.pending \cup crossed'
      /\ act[Loop].pc = "made" => act[Loop].todo = {}
  BY <1>1, <1>2, <1>3 DEF Part, TodoPart, Pc
<1>10. \A p \in Orders : /\ c.ledger.has[p] > 0 => book'[p] = "filled"
                         /\ mem[Loop].ledger.has[p] <= c.ledger.has[p]
  BY <1>1, <1>2, <1>3, <1>6, CopyKept
<1> QED
  BY <1>1, <1>2, <1>3, <1>4, <1>7, <1>8, <1>9, <1>10, Changes DEF Pc

(* The order is no longer pending; its fill is in the copy. *)
LEMMA RemovesKeep ==
    ASSUME IInv, TypeOK', NEW o \in Orders, LoopRemoves(o)
    PROVE  IInv'
<1> DEFINE c == [mem[Loop] EXCEPT !.pending = @ \ {o}]
<1>1. /\ Loop \in Traders /\ Part(Loop) /\ TypeOK /\ None \notin Traders
      /\ act[Loop] \in ActType /\ mem[Loop] \in Copy
  BY PartFacts DEF Traders
<1>2. /\ UNCHANGED <<book, files, lock, act, crossed, stale, staleSaves, tornSaves>>
      /\ notice = [pc |-> "applied", order |-> o] /\ notice' = Idle
      /\ Holds(Loop, c)
  BY DEF LoopRemoves, kisVars, saveVars
<1>3. c \in Copy /\ c.pending = mem[Loop].pending \ {o} /\ c.ledger = mem[Loop].ledger
  BY <1>1 DEF Copy
<1>4. Moves(Loop, act[Loop])
  BY <1>1, <1>2, CopyKept
<1> HIDE DEF c
<1>5. mem'[Loop] = c
  BY <1>1, <1>2, <1>3, HoldsCopy
<1>6. /\ Pc(Loop) \notin {"off", "reading"} /\ mem[Loop].ledger.has[o] > 0
      /\ o \notin crossed => lock # Loop
  BY <1>1, <1>2 DEF Part, NoticePart, NoticeHeld, Idle
<1>7. HolderPart(Loop)' /\ NoticePart(Loop)'
  BY <1>1, <1>2 DEF Part, HolderPart, NoticePart, NoticeHeld, Pc
<1>8. ASSUME NEW p \in Orders, OnceIn(Loop, p) PROVE OnceIn(Loop, p)'
  BY <1>2, <1>3, <1>5, <1>8 DEF OnceIn, Once, Idle
<1>9. /\ act[Loop].todo \subseteq c.pending \cup crossed'
      /\ act[Loop].pc = "made" => act[Loop].todo = {}
  <2>1. act[Loop].todo \subseteq mem[Loop].pending \cup crossed
    BY <1>1 DEF Part, TodoPart
  <2>2. lock # Loop => act[Loop].todo = {}
    BY <1>1, <1>6 DEF Part, HolderPart, TodoPart, ActType, Pc
  <2> QED
    BY <1>1, <1>2, <1>3, <1>6, <2>1, <2>2 DEF Part, TodoPart, Pc
<1>10. \A p \in Orders : /\ c.ledger.has[p] > 0 => book'[p] = "filled"
                         /\ mem[Loop].ledger.has[p] <= c.ledger.has[p]
                         /\ p \in mem[Loop].pending => \/ p \in c.pending
                                                       \/ c.ledger.has[p] > 0
  BY <1>1, <1>2, <1>3, <1>6, CopyKept
<1>11. /\ act[Loop].todo \subseteq c.pending \cup (IF Loop = Loop THEN crossed' ELSE {})
       /\ act[Loop].pc \notin {"off", "reading"} /\ crossed \subseteq crossed'
       /\ Pc(Loop) = "wrote" <=> act[Loop].pc = "wrote"
       /\ \A p \in Orders : book[p] \in {"filled", "cancelled"} => book'[p] = book[p]
  BY <1>2, <1>6, <1>9 DEF Pc
<1> HIDE DEF c
<1> QED
  BY <1>1, <1>2, <1>3, <1>4, <1>6, <1>7, <1>8, <1>9, <1>10, <1>11, Changes

(* The poll of a cycle meets an order that a notice has removed.           *)
LEMMA GoneKeeps ==
    ASSUME IInv, TypeOK', NEW o \in Orders, ResolvesGone(o)
    PROVE  IInv'
<1> DEFINE x == [Off EXCEPT !.pc = "made", !.kind = "loop"]
           c == [mem[Loop] EXCEPT !.ledger = Filled(@, o)]
<1>1. /\ Loop \in Traders /\ Part(Loop) /\ TypeOK /\ None \notin Traders
      /\ act[Loop] \in ActType /\ mem[Loop] \in Copy /\ mem[Loop].ledger \in Ledger
  BY PartFacts DEF Traders, Copy
<1>2. x \in ActType /\ x.pc = "made" /\ x.todo = {} /\ x.kind = "loop"
  BY DEF Off, ActType
<1>3. /\ UNCHANGED <<book, files, notice, crossed, stale, staleSaves, tornSaves>>
      /\ lock' = None /\ Pc(Loop) \in {"resolve", "wait"} /\ book[o] = "filled"
      /\ Moves(Loop, x) /\ Holds(Loop, c)
      /\ o \in act[Loop].todo /\ o \notin mem[Loop].pending
  BY DEF ResolvesGone, kisVars, saveVars, noticeVars
<1>4. /\ c \in Copy /\ c.pending = mem[Loop].pending
      /\ c.ledger.has[o] = mem[Loop].ledger.has[o] + 1
      /\ \A p \in Orders : p # o => c.ledger.has[p] = mem[Loop].ledger.has[p]
      /\ \A p \in Orders : mem[Loop].ledger.has[p] \in Nat
  <2>1. Filled(mem[Loop].ledger, o) \in Ledger
    BY <1>1, FilledHas
  <2>2. c \in Copy /\ c.pending = mem[Loop].pending /\ c.ledger = Filled(mem[Loop].ledger, o)
    BY <1>1, <2>1 DEF Copy
  <2>3. \A p \in Orders : mem[Loop].ledger.has[p] \in Nat
    BY <1>1 DEF Ledger
  <2> QED
    BY <1>1, <2>2, <2>3, FilledHas
<1> HIDE DEF x, c
<1>5. act'[Loop] = x /\ mem'[Loop] = c
  BY <1>1, <1>2, <1>3, <1>4, MovesAct, HoldsCopy
<1>6. lock = Loop /\ o \in crossed
  BY <1>1, <1>3 DEF Part, HolderPart, TodoPart
<1>7. HolderPart(Loop)' /\ NoticePart(Loop)'
  BY <1>1, <1>2, <1>3, <1>4, <1>5, <1>6, NoticeOrder
     DEF Part, HolderPart, NoticePart, NoticeHeld, Pc
<1>8. ASSUME NEW p \in Orders \ crossed, OnceIn(Loop, p) PROVE OnceIn(Loop, p)'
  BY <1>3, <1>4, <1>5, <1>6, <1>8 DEF OnceIn, Once
<1>9. \A p \in Orders : /\ c.ledger.has[p] > 0 => book'[p] = "filled"
                        /\ mem[Loop].ledger.has[p] <= c.ledger.has[p]
  BY <1>1, <1>3, <1>4, CopyKept
<1> QED
  BY <1>1, <1>2, <1>3, <1>4, <1>6, <1>7, <1>8, <1>9, Changes DEF noticeVars

LEMMA ResolutionKeeps ==
    ASSUME IInv, TypeOK', NEW t \in Traders, NEW o \in Orders, Resolves(t, o)
    PROVE  IInv'
<1> DEFINE x == [act[t] EXCEPT !.todo = @ \ {o}]
<1>1. act[t] \in ActType /\ mem[t] \in Copy /\ Part(t)
  BY PartFacts
<1>2. /\ x \in ActType /\ x.pc = act[t].pc /\ x.todo = act[t].todo \ {o}
      /\ x.kind = act[t].kind
  BY <1>1 DEF ActType
<1>3. /\ Moves(t, x) /\ act[t].pc \in {"resolve", "wait"} /\ o \in act[t].todo
      /\ UNCHANGED <<book, files, lock, notice, crossed, noticeVars,
                     stale, staleSaves, tornSaves>>
  BY DEF Resolves, Pc, kisVars, saveVars, noticeVars
<1> HIDE DEF x
<1>4. /\ lock = t
      /\ act[t].todo \subseteq mem[t].pending \cup (IF t = Loop THEN crossed ELSE {})
  BY <1>1, <1>3 DEF Part, HolderPart, TodoPart, Pc
<1>5. HolderPart(t)' /\ act'[t] = x
  BY <1>1, <1>2, <1>3, <1>4, PartFacts, MovesAct DEF Part, HolderPart, Pc
<1>5a. ASSUME \A p \in Orders : mem[t].ledger.has[p] <= mem'[t].ledger.has[p],
              mem'[t] \in Copy
       PROVE  NoticePart(t)'
  <2> SUFFICES ASSUME t = Loop, notice # Idle PROVE NoticeHeld'
    BY <1>3 DEF NoticePart, NoticeHeld
  <2>1. notice.order \in Orders /\ NoticeHeld
    BY <1>3, NoticeOrder
  <2>2. mem[Loop].ledger.has[notice.order] \in Nat /\ mem'[Loop].ledger.has[notice.order] \in Nat
    BY <1>1, <1>5a, <2>1 DEF Copy, Ledger
  <2> QED
    BY <1>2, <1>3, <1>4, <1>5, <1>5a, <2>1, <2>2 DEF NoticeHeld, Pc
<1>6. CASE /\ book[o] = "filled" /\ o \in mem[t].pending
           /\ Holds(t, [ledger |-> Filled(mem[t].ledger, o),
                                          pending |-> mem[t].pending \ {o}])
  <2> DEFINE c == [ledger |-> Filled(mem[t].ledger, o),
                   pending |-> mem[t].pending \ {o}]
  <2>1. /\ c \in Copy /\ c.pending = mem[t].pending \ {o}
        /\ \A p \in Orders :
              /\ c.ledger.has[p] > 0 => book[p] = "filled"
              /\ mem[t].ledger.has[p] <= c.ledger.has[p]
              /\ p \in mem[t].pending => p \in c.pending \/ c.ledger.has[p] > 0
              /\ Once(mem[t], p) => Once(c, p)
    BY <1>3, <1>4, <1>6, FillsOnce
  <2>2. Holds(t, c)
    BY <1>6
  <2> HIDE DEF c
  <2>3. mem'[t] = c
    BY <2>1, <2>2, PartFacts, HoldsCopy
  <2>4. NoticePart(t)' /\ \A p \in Orders \ crossed : OnceIn(t, p) => OnceIn(t, p)'
    BY <1>3, <1>4, <1>5a, <2>1, <2>3, InLock
  <2> QED
    BY <1>2, <1>3, <1>4, <1>5, <2>1, <2>2, <2>4, Changes DEF Pc
<1>7. CASE book[o] = "cancelled" /\ Holds(t, [mem[t] EXCEPT !.pending = @ \ {o}])
  <2> DEFINE c == [mem[t] EXCEPT !.pending = @ \ {o}]
  <2>1. c \in Copy /\ c.ledger = mem[t].ledger /\ c.pending = mem[t].pending \ {o}
    BY <1>1 DEF Copy
  <2>2. Holds(t, c)
    BY <1>7
  <2> HIDE DEF c
  <2>3. \A p \in Orders : Once(mem[t], p) => Once(c, p)
    BY <2>1 DEF Once
  <2>4. mem'[t] = c
    BY <2>1, <2>2, PartFacts, HoldsCopy
  <2>5. NoticePart(t)' /\ \A p \in Orders \ crossed : OnceIn(t, p) => OnceIn(t, p)'
    BY <1>3, <1>4, <1>5a, <2>1, <2>3, <2>4, CopyKept, InLock
  <2> QED
    BY <1>2, <1>3, <1>4, <1>5, <1>7, <2>1, <2>2, <2>5, CopyKept, Changes DEF Pc
<1>8. CASE UNCHANGED mem
  <2>1. NoticePart(t)' /\ \A p \in Orders \ crossed : OnceIn(t, p) => OnceIn(t, p)'
    BY <1>1, <1>3, <1>4, <1>5a, <1>8, CopyKept, InLock
  <2> QED
    BY <1>1, <1>2, <1>3, <1>4, <1>5, <1>8, <2>1, CopyKept, Changes DEF Pc
<1> QED
  BY <1>6, <1>7, <1>8 DEF Resolves

LEMMA DeductsKeeps ==
    ASSUME IInv, TypeOK', NEW t \in Traders, Deducts(t)
    PROVE  IInv'
<1> DEFINE x == [act[t] EXCEPT !.pc = "wait", !.kis = 0]
           c == [mem[t] EXCEPT !.ledger.qty = act[t].kis]
<1>1. act[t] \in ActType /\ mem[t] \in Copy /\ Part(t) /\ None \notin Traders /\ TypeOK
  BY PartFacts
<1>2. x \in ActType /\ x.pc = "wait" /\ x.todo = act[t].todo
  BY <1>1 DEF ActType
<1>3. /\ c \in Copy /\ c.pending = mem[t].pending
      /\ c.ledger.has = mem[t].ledger.has
  BY <1>1 DEF ActType, Copy, Ledger
<1>4. /\ Moves(t, x) /\ Holds(t, c) /\ Pc(t) = "balance"
      /\ UNCHANGED <<book, files, noticeVars, crossed, stale, staleSaves, tornSaves>>
      /\ lock \in {t, None} /\ lock' = t
  BY DEF Deducts, Compares, kisVars, saveVars, noticeVars
<1> HIDE DEF x, c
<1>5. HolderPart(t)' /\ NoticePart(t)' /\ t # Loop
  BY <1>1, <1>2, <1>4, MovesAct DEF Part, HolderPart, NoticePart, Pc
<1>6. act[t].todo \subseteq mem[t].pending
  BY <1>1, <1>5 DEF Part, TodoPart
<1>7. \A o \in Orders : OnceIn(t, o) => OnceIn(t, o)'
  BY <1>1, <1>3, <1>4, <1>5, HoldsCopy DEF OnceIn, Once
<1> QED
  BY <1>2, <1>3, <1>4, <1>5, <1>6, <1>7, CopyKept, Changes
-----------------------------------------------------------------------------
(* The two steps of a save *)

(* Only t is in its cycle, settlement or save when it has the lock. *)
LEMMA Alone ==
    ASSUME IInv, NEW t \in Traders, lock = t, NEW u \in Traders, u # t
    PROVE  Pc(u) \in {"off", "reading", "made", "balance"} /\ lock # u
<1>1. Part(u) /\ act[u] \in ActType
  BY PartFacts
<1> QED
  BY <1>1 DEF Part, HolderPart, ActType, Pc

LEMMA SavesLedgerKeeps ==
    ASSUME IInv, TypeOK', NEW t \in Traders, SavesLedger(t)
    PROVE  IInv'
<1> DEFINE x == [act[t] EXCEPT !.pc = "wrote"]
<1>1. /\ act[t] \in ActType /\ mem[t] \in Copy /\ Part(t) /\ TypeOK /\ FilePart
      /\ None \notin Traders
  BY PartFacts
<1>2. x \in ActType /\ x.pc = "wrote" /\ x.todo = act[t].todo
  BY <1>1 DEF ActType
<1>3. /\ Moves(t, x) /\ Pc(t) = "wait" /\ lock = t /\ lock' = t
      /\ UNCHANGED <<book, mem, notice, crossed, pendingFile, tornSaves>>
      /\ ledgerFile' = mem[t].ledger
      /\ stale' = stale \cup {u \in Traders \ {t} : Pc(u) # "off"}
  BY <1>1 DEF SavesLedger, Outdates, Part, HolderPart, Pc, kisVars, noticeVars
<1>4. /\ staleSaves' = 0 => staleSaves = 0 /\ t \notin stale
      /\ t \in stale' => t \in stale
  BY <1>1, <1>3 DEF SavesLedger, TypeOK
<1>5. ~Saving
  BY <1>3, NobodySaves
<1> HIDE DEF x
<1>6. /\ act'[t] = x /\ Pc(t)' = "wrote" /\ Saving'
      /\ \A u \in Traders : u # t => act'[u] = act[u]
  BY <1>1, <1>2, <1>3, MovesAct DEF Pc, Saving
<1>7. FilePart'
  <2>1. \A o \in Orders : ledgerFile'.has[o] > 0 => book'[o] = "filled"
    BY <1>1, <1>3 DEF Part, FilledPart
  <2>2. ASSUME tornSaves' = 0, staleSaves' = 0, NEW o \in Orders \ crossed
        PROVE  ledgerFile'.has[o] <= 1
    BY <1>1, <1>3, <1>4, <1>5, <2>2 DEF Part, OncePart, OnceIn, Once
  <2> QED
    BY <1>3, <1>6, <2>1, <2>2 DEF FilePart
<1>8. Part(t)'
  <2>1. /\ HolderPart(t)' /\ NoticePart(t)' /\ TodoPart(t)'
        /\ FilledPart(t)' /\ HalfPart(t)'
    <3>1. x.kind = act[t].kind
      BY <1>1 DEF x, ActType
    <3> QED
      BY <1>1, <1>2, <1>3, <1>4, <1>6, <3>1
         DEF Part, HolderPart, NoticePart, NoticeHeld, TodoPart, FilledPart, HalfPart, Pc
  <2>2. CoversPart(t)'
    BY <1>1, <1>3, <1>4, <1>6 DEF Part, CoversPart, Copy, Ledger
  <2>3. OncePart(t)'
    BY <1>1, <1>3, <1>4, <1>5, <1>6 DEF Part, OncePart, OnceIn, Once
  <2> QED
    BY <2>1, <2>2, <2>3 DEF Part
<1>9. ASSUME NEW u \in Traders, u # t PROVE Part(u)'
  <2>1. /\ Part(u) /\ act'[u] = act[u] /\ mem'[u] = mem[u] /\ Pc(u)' = Pc(u)
        /\ Pc(u) # "wrote"
    BY <1>3, <1>6, <1>9, PartFacts, Alone DEF Pc
  <2>2. /\ HolderPart(u)' /\ NoticePart(u)' /\ TodoPart(u)'
        /\ FilledPart(u)' /\ HalfPart(u)'
    BY <1>3, <2>1
       DEF Part, HolderPart, NoticePart, NoticeHeld, TodoPart, FilledPart, HalfPart, Pc
  <2>3. Pc(u) # "off" => u \in stale'
    BY <1>3, <1>9
  <2>4. CoversPart(u)' /\ OncePart(u)'
    BY <2>1, <2>3 DEF CoversPart, OncePart
  <2> QED
    BY <2>2, <2>4 DEF Part
<1> QED
  BY <1>7, <1>8, <1>9 DEF IInv

LEMMA SavesPendingKeeps ==
    ASSUME IInv, TypeOK', NEW t \in Traders, SavesPending(t)
    PROVE  IInv'
<1>1. /\ act[t] \in ActType /\ mem[t] \in Copy /\ Part(t) /\ TypeOK /\ FilePart
      /\ None \notin Traders
  BY PartFacts
<1>2. /\ Pc(t) = "wrote" /\ lock = t /\ ledgerFile = mem[t].ledger
      /\ staleSaves = 0 => t \notin stale
      /\ UNCHANGED <<book, ledgerFile, notice, crossed, staleSaves, tornSaves>>
      /\ pendingFile' = mem[t].pending
      /\ stale' = stale \cup {u \in Traders \ {t} : Pc(u) # "off"}
  BY <1>1 DEF SavesPending, Outdates, Part, HolderPart, HalfPart, kisVars, noticeVars
<1>3. PICK x \in ActType :
         /\ Moves(t, x) /\ (t = Loop => x.kind \in {"loop", None} /\ x.pc # "off")
         /\ \/ x.pc = "report" /\ x.todo = act[t].todo /\ UNCHANGED <<lock, mem>>
            \/ x.pc = "made" /\ x.todo = {} /\ lock' = None /\ UNCHANGED mem
            \/ x.pc = "off" /\ x.todo = {} /\ lock' = None /\ Holds(t, Empty)
  <2>1. CASE act[t].kind = "manual" /\ t = Loop
    <3> DEFINE y == [Off EXCEPT !.pc = "made", !.kind = "loop"]
    <3>1. y \in ActType /\ y.pc = "made" /\ y.todo = {} /\ y.kind = "loop"
      BY DEF Off, ActType
    <3>2. Moves(t, y) /\ lock' = None /\ UNCHANGED mem
      BY <2>1 DEF SavesPending, GoesToReport, Leaves
    <3> HIDE DEF y
    <3> QED
      BY <3>1, <3>2
  <2>2. CASE act[t].kind = "manual" /\ t # Loop
    BY <2>2, OffEmpty DEF SavesPending, GoesToReport, Leaves
  <2>3. CASE act[t].kind # "manual"
    <3> DEFINE y == [act[t] EXCEPT !.pc = "report", !.kis = 0]
    <3>1. /\ y \in ActType /\ y.pc = "report" /\ y.todo = act[t].todo
          /\ y.kind = act[t].kind
      BY <1>1 DEF ActType
    <3>2. Moves(t, y) /\ UNCHANGED <<lock, mem>>
      BY <2>3 DEF SavesPending, GoesToReport
    <3>3. t = Loop => act[t].kind \in {"loop", None}
      BY <1>1 DEF Part, HolderPart
    <3> HIDE DEF y
    <3> QED
      BY <3>1, <3>2, <3>3
  <2> QED
    BY <2>1, <2>2, <2>3
<1>4. /\ act'[t] = x /\ Pc(t)' = x.pc
      /\ \A u \in Traders : u # t => act'[u] = act[u] /\ mem'[u] = mem[u]
      /\ x.pc # "off" => mem'[t] = mem[t]
      /\ x.pc = "off" => mem'[t] = Empty
  BY <1>1, <1>3, OffEmpty, MovesAct, HoldsCopy DEF Pc
<1>5. ASSUME tornSaves = 0, staleSaves = 0, NEW o \in Orders \ crossed
      PROVE  OnceIn(t, o) /\ Once(mem[t], o)
  <2>1. OnceIn(t, o)
    BY <1>1, <1>2, <1>5 DEF Part, OncePart
  <2>2. ~(t = Loop /\ notice = [pc |-> "applied", order |-> o])
    BY <1>1, <1>2, <1>5 DEF Part, NoticePart, NoticeHeld, Idle
  <2> QED
    BY <2>1, <2>2 DEF OnceIn
<1>6. FilePart'
  BY <1>1, <1>2, <1>5 DEF FilePart, Files, Once
<1>7. Part(t)'
  <2>1. HolderPart(t)' /\ NoticePart(t)'
    BY <1>1, <1>2, <1>3, <1>4 DEF Part, HolderPart, NoticePart, NoticeHeld, Pc
  <2>2. TodoPart(t)'
    BY <1>1, <1>2, <1>3, <1>4 DEF Part, TodoPart, Pc
  <2>3. FilledPart(t)' /\ HalfPart(t)'
    BY <1>1, <1>2, <1>3, <1>4, OffEmpty DEF Part, FilledPart, HalfPart
  <2>4. CoversPart(t)'
    BY <1>1, <1>2, <1>3, <1>4 DEF CoversPart, Copy, Ledger
  <2>5. OncePart(t)'
    BY <1>2, <1>3, <1>4, <1>5 DEF OncePart, OnceIn, Once
  <2> QED
    BY <2>1, <2>2, <2>3, <2>4, <2>5 DEF Part
<1>8. ASSUME NEW u \in Traders, u # t PROVE Part(u)'
  <2>1. /\ Part(u) /\ act'[u] = act[u] /\ mem'[u] = mem[u] /\ Pc(u)' = Pc(u)
        /\ Pc(u) # "wrote" /\ lock # u
    BY <1>2, <1>4, <1>8, PartFacts, Alone DEF Pc
  <2>2. /\ HolderPart(u)' /\ NoticePart(u)' /\ TodoPart(u)'
        /\ FilledPart(u)' /\ HalfPart(u)'
    BY <1>1, <1>2, <1>3, <1>8, <2>1
       DEF Part, HolderPart, NoticePart, NoticeHeld, TodoPart, FilledPart, HalfPart, Pc
  <2>3. Pc(u) # "off" => u \in stale'
    BY <1>2, <1>8
  <2>4. CoversPart(u)' /\ OncePart(u)'
    BY <2>1, <2>3 DEF CoversPart, OncePart
  <2> QED
    BY <2>2, <2>4 DEF Part
<1> QED
  BY <1>6, <1>7, <1>8 DEF IInv

-----------------------------------------------------------------------------
(* Exceptions, crashes and the environment *)

LEMMA RaisesKeeps ==
    ASSUME IInv, TypeOK', NEW t \in Traders, Raises(t)
    PROVE  IInv'
<1>1. /\ act[t] \in ActType /\ mem[t] \in Copy /\ Part(t) /\ TypeOK /\ FilePart
      /\ None \notin Traders
  BY PartFacts
<1>2. /\ lock = t /\ Leaves(t) /\ lock' = None
      /\ UNCHANGED <<book, files, notice, crossed, stale, staleSaves>>
      /\ Pc(t) \notin {"off", "reading", "made"}
  BY <1>1 DEF Raises, Leaves, Part, HolderPart, kisVars, noticeVars
<1>3. CASE Pc(t) # "wrote"
  BY <1>2, <1>3, LeavesQuietly DEF Raises, noticeVars
<1>4. CASE Pc(t) = "wrote"
  <2>1. tornSaves' # 0
    BY <1>1, <1>4 DEF Raises, TypeOK
  <2>2. PICK x \in ActType :
           /\ Moves(t, x) /\ x.todo = {}
           /\ t = Loop => x.kind = "loop" /\ x.pc = "made"
           /\ \/ x.pc = "made" /\ UNCHANGED mem
              \/ x.pc = "off" /\ Holds(t, Empty)
    <3>1. CASE t = Loop
      <4> DEFINE y == [Off EXCEPT !.pc = "made", !.kind = "loop"]
      <4>1. y \in ActType /\ y.pc = "made" /\ y.todo = {} /\ y.kind = "loop"
        BY DEF Off, ActType
      <4>2. Moves(t, y) /\ UNCHANGED mem
        BY <1>2, <3>1 DEF Leaves
      <4> HIDE DEF y
      <4> QED
        BY <4>1, <4>2
    <3>2. CASE t # Loop
      BY <1>2, <3>2, OffEmpty DEF Leaves
    <3> QED
      BY <3>1, <3>2
  <2>3. /\ act'[t] = x /\ Pc(t)' = x.pc
        /\ \A u \in Traders : u # t => act'[u] = act[u] /\ mem'[u] = mem[u]
        /\ mem'[t] = mem[t] \/ (x.pc = "off" /\ mem'[t] = Empty)
    BY <1>1, <2>2, OffEmpty, MovesAct, HoldsCopy DEF Pc
  <2>4. FilePart'
    BY <1>1, <1>2, <2>1 DEF FilePart, files
  <2>5. Part(t)'
    <3>1. /\ HolderPart(t)' /\ NoticePart(t)' /\ TodoPart(t)'
          /\ HalfPart(t)' /\ OncePart(t)'
      BY <1>1, <1>2, <2>1, <2>2, <2>3
         DEF Part, HolderPart, NoticePart, NoticeHeld, TodoPart, HalfPart, OncePart, Pc
    <3>2. FilledPart(t)'
      BY <1>1, <1>2, <2>3, OffEmpty DEF Part, FilledPart
    <3>3. CoversPart(t)'
      BY <1>1, <1>2, <1>4, <2>2, <2>3 DEF Part, CoversPart, files
    <3> QED
      BY <3>1, <3>2, <3>3 DEF Part
  <2>6. ASSUME NEW u \in Traders, u # t PROVE Part(u)'
    <3>1. /\ Part(u) /\ act'[u] = act[u] /\ mem'[u] = mem[u] /\ Pc(u)' = Pc(u)
          /\ Pc(u) \in {"off", "reading", "made", "balance"} /\ lock # u
      BY <1>2, <2>3, <2>6, PartFacts, Alone DEF Pc
    <3>2. HolderPart(u)' /\ NoticePart(u)'
      BY <1>1, <1>2, <3>1 DEF Part, HolderPart, NoticePart, NoticeHeld
    <3>3. TodoPart(u)' /\ FilledPart(u)' /\ HalfPart(u)' /\ CoversPart(u)'
      BY <1>2, <3>1 DEF Part, TodoPart, FilledPart, HalfPart, CoversPart, files
    <3>4. OncePart(u)'
      BY <2>1 DEF OncePart
    <3> QED
      BY <3>2, <3>3, <3>4 DEF Part
  <2> QED
    BY <2>4, <2>5, <2>6 DEF IInv
<1> QED
  BY <1>3, <1>4

LEMMA CrashKeeps ==
    ASSUME IInv, TypeOK', Crashes
    PROVE  IInv'
<1>1. /\ TypeOK /\ FilePart /\ None \notin Traders
      /\ act' = [t \in Traders |-> Off] /\ mem' = [t \in Traders |-> Empty]
      /\ lock' = None /\ UNCHANGED <<book, files, crossed, stale, staleSaves>>
      /\ notice' = Idle
      /\ tornSaves' = IF Saving THEN tornSaves + 1 ELSE tornSaves
  BY ConstantsAssumption DEF IInv, Crashes, Traders, kisVars
<1>2. ASSUME NEW t \in Traders PROVE Part(t)'
  <2>1. act'[t] = Off /\ mem'[t] = Empty /\ Pc(t)' = "off" /\ lock' # t
    BY <1>1, OffEmpty DEF Pc
  <2>2. HolderPart(t)' /\ NoticePart(t)'
    BY <1>1, <2>1, OffEmpty DEF HolderPart, NoticePart, NoticeHeld
  <2>3. TodoPart(t)' /\ FilledPart(t)' /\ HalfPart(t)' /\ CoversPart(t)' /\ OncePart(t)'
    BY <2>1, OffEmpty DEF TodoPart, FilledPart, HalfPart, CoversPart, OncePart
  <2> QED
    BY <2>2, <2>3 DEF Part
<1>3. tornSaves' = 0 => tornSaves = 0 /\ ~Saving
  BY <1>1 DEF TypeOK
<1>4. Files' = Files
  BY <1>1 DEF Files, files
<1>5. FilePart'
  BY <1>1, <1>3, <1>4 DEF FilePart, files, Once
<1> QED
  BY <1>2, <1>5 DEF IInv

LEMMA EnvironmentKeeps ==
    ASSUME IInv, TypeOK', UNCHANGED <<files, lock, act, mem, noticeVars, saveVars>>,
           \A o \in Orders : book[o] \in {"filled", "cancelled"} => book'[o] = book[o]
    PROVE  IInv'
<1>1. /\ Saving' <=> Saving
      /\ Files' = Files /\ TypeOK /\ FilePart
      /\ UNCHANGED <<ledgerFile, pendingFile, notice, crossed,
                     stale, staleSaves, tornSaves>>
  BY DEF Saving, Pc, Files, files, saveVars, noticeVars, IInv
<1>2. FilePart'
  BY <1>1 DEF FilePart, Once
<1>3. ASSUME NEW t \in Traders PROVE Part(t)'
  <2>1. Part(t) /\ Pc(t)' = Pc(t)
    BY PartFacts DEF Pc
  <2>2. HolderPart(t)' /\ TodoPart(t)' /\ FilledPart(t)' /\ HalfPart(t)'
    BY <1>1, <2>1 DEF Part, HolderPart, TodoPart, FilledPart, HalfPart
  <2>2a. NoticePart(t)'
    BY <1>1, <2>1, NoticeOrder DEF Part, NoticePart, NoticeHeld
  <2>3. CoversPart(t)' /\ OncePart(t)'
    BY <1>1, <2>1 DEF Part, CoversPart, OncePart, OnceIn, Once
  <2> QED
    BY <2>2, <2>2a, <2>3 DEF Part
<1> QED
  BY <1>2, <1>3 DEF IInv
-----------------------------------------------------------------------------
(* The invariant, and what follows from it *)

LEMMA NextKeeps ==
    ASSUME IInv, [Next]_vars
    PROVE  IInv'
<1>0. TypeOK /\ TypeOK' /\ None \notin Traders
  BY NextType, ConstantsAssumption DEF IInv, Traders
<1>1. ASSUME NEW t \in Traders, EntersCycle(t) PROVE IInv'
  <2> DEFINE x == [act[t] EXCEPT !.pc = "resolve", !.todo = mem[t].pending]
  <2>1. /\ x \in ActType /\ x.pc = "resolve" /\ x.todo = mem[t].pending
        /\ x.kind = act[t].kind
    BY PartFacts DEF ActType, Copy
  <2>2. Moves(t, x)
    BY <1>1 DEF EntersCycle
  <2> HIDE DEF x
  <2> QED
    BY <1>0, <1>1, <2>1, <2>2, GoesOn DEF EntersCycle, kisVars, noticeVars, saveVars
<1>2. ASSUME NEW t \in Traders, ChecksHealth(t) PROVE IInv'
  <2>1. lock = t
    BY <1>2, PartFacts DEF ChecksHealth, Part, HolderPart
  <2>2. CASE Moves(t, [act[t] EXCEPT !.pc = "trade"]) /\ UNCHANGED <<lock, mem>>
    <3> DEFINE x == [act[t] EXCEPT !.pc = "trade"]
    <3>1. x \in ActType /\ x.pc = "trade" /\ x.todo = act[t].todo
          /\ x.kind = act[t].kind
          /\ act[t].todo \subseteq mem[t].pending \cup (IF t = Loop THEN crossed ELSE {})
      BY PartFacts DEF ActType, Part, TodoPart
    <3>2. Moves(t, x)
      BY <2>2
    <3> HIDE DEF x
    <3> QED
      BY <1>0, <1>2, <2>1, <2>2, <3>1, <3>2, GoesOn DEF ChecksHealth, kisVars, noticeVars, saveVars
  <2>3. CASE Leaves(t)
    BY <1>0, <1>2, <2>1, <2>3, LeavesQuietly DEF ChecksHealth, kisVars, noticeVars, saveVars
  <2> QED
    BY <1>2, <2>2, <2>3 DEF ChecksHealth
<1>3. ASSUME NEW t \in Traders, WaitsPending(t) PROVE IInv'
  <2> DEFINE x == [act[t] EXCEPT !.pc = "wait", !.todo = mem[t].pending]
  <2>1. /\ x \in ActType /\ x.pc = "wait" /\ x.todo = mem[t].pending
        /\ x.kind = act[t].kind
    BY PartFacts DEF ActType, Copy
  <2>2. Moves(t, x) /\ lock = t
    BY <1>3, PartFacts DEF WaitsPending, Part, HolderPart
  <2> HIDE DEF x
  <2> QED
    BY <1>0, <1>3, <2>1, <2>2, GoesOn DEF WaitsPending, kisVars, noticeVars, saveVars
<1>4. ASSUME NEW t \in Traders, ReadsBalance(t) PROVE IInv'
  <2> DEFINE x == [act[t] EXCEPT !.pc = "balance", !.kis = position]
  <2>1. /\ x \in ActType /\ x.pc = "balance" /\ x.kind = act[t].kind
        /\ x.todo \subseteq mem[t].pending \cup (IF t = Loop THEN crossed ELSE {})
    BY <1>0, PartFacts DEF ActType, Part, TodoPart, TypeOK
  <2>2. Moves(t, x) /\ (lock = t \/ act[t].kind = "manual") /\ t # Loop
    BY <1>4, PartFacts DEF ReadsBalance, Part, HolderPart, None
  <2> HIDE DEF x
  <2> QED
    BY <1>0, <1>4, <2>1, <2>2, GoesOn DEF ReadsBalance, kisVars, noticeVars, saveVars
<1>5. ASSUME NEW t \in Traders, FindsNoOrphan(t) PROVE IInv'
  <2>1. lock \in {t, None} /\ (act[t].kind # "manual" => lock = t) /\ t # Loop
    BY <1>5, PartFacts DEF FindsNoOrphan, Compares, Part, HolderPart
  <2>2. CASE act[t].kind = "manual"
    BY <1>0, <1>5, <2>1, <2>2, LeavesQuietly
       DEF FindsNoOrphan, Compares, GoesToReport, kisVars, noticeVars, saveVars
  <2>3. CASE act[t].kind # "manual"
    <3> DEFINE x == [act[t] EXCEPT !.pc = "report", !.kis = 0]
    <3>1. x \in ActType /\ x.pc = "report" /\ x.kind = act[t].kind
          /\ x.todo \subseteq mem[t].pending \cup (IF t = Loop THEN crossed ELSE {})
      BY PartFacts DEF ActType, Part, TodoPart
    <3>2. Moves(t, x) /\ UNCHANGED <<lock, mem>>
      BY <1>5, <2>3 DEF FindsNoOrphan, GoesToReport
    <3> HIDE DEF x
    <3> QED
      BY <1>0, <1>5, <2>1, <2>3, <3>1, <3>2, GoesOn
         DEF FindsNoOrphan, Compares, kisVars, noticeVars, saveVars
  <2> QED
    BY <2>2, <2>3
<1>6. ASSUME NEW t \in Traders, Reports(t) PROVE IInv'
  BY <1>0, <1>6, PartFacts, LeavesQuietly
     DEF Reports, Part, HolderPart, kisVars, noticeVars, saveVars
<1>7. ASSUME LoopStops PROVE IInv'
  <2>1. Loop \in Traders /\ Part(Loop)
    BY PartFacts DEF Traders
  <2>2. lock # Loop
    BY <1>7, <2>1 DEF LoopStops, Part, HolderPart
  <2> QED
    BY <1>0, <1>7, <2>1, <2>2, OffEmpty, Drops DEF LoopStops, kisVars, noticeVars, saveVars
<1>8. ASSUME NEW t \in Traders, NEW o \in Orders, Trades(t, o) PROVE IInv'
  BY <1>0, <1>8, SendsKeeps DEF Trades
<1>9. ASSUME NEW o \in Orders, LoopSells(o) PROVE IInv'
  BY <1>0, <1>9, SendsKeeps DEF LoopSells, Traders
<1>10. ASSUME NEW o \in Orders, Executes(o) \/ OrderCancelled(o) PROVE IInv'
  <2>1. \A p \in Orders : book[p] \in {"filled", "cancelled"} => book'[p] = book[p]
    BY <1>0, <1>10 DEF Executes, OrderCancelled, TypeOK
  <2> QED
    BY <1>0, <1>10, <2>1, EnvironmentKeeps DEF Executes, OrderCancelled
<1>11. ASSUME SellsByHand PROVE IInv'
  BY <1>0, <1>11, EnvironmentKeeps DEF SellsByHand
<1>12. ASSUME UNCHANGED vars PROVE IInv'
  BY <1>0, <1>12, EnvironmentKeeps DEF vars, kisVars
<1>13. ASSUME NEW t \in Traders, TraderStep(t) PROVE IInv'
  BY <1>0, <1>1, <1>2, <1>3, <1>4, <1>5, <1>6, <1>8, <1>13,
     ReadKeeps, ReadsPendingKeeps, ResolutionKeeps, SavesLedgerKeeps,
     SavesPendingKeeps, RaisesKeeps, SettlementKeeps, DeductsKeeps
     DEF TraderStep
<1>14. ASSUME LoopStep PROVE IInv'
  BY <1>0, <1>7, <1>9, <1>14, ReadKeeps, MatchesKeep, AppliesKeep, RemovesKeep,
     GoneKeeps DEF LoopStep, Traders
<1> QED
  BY <1>0, <1>10, <1>11, <1>12, <1>13, <1>14, CrashKeeps DEF Next

LEMMA InitInv == Init => IInv
<1> SUFFICES ASSUME Init PROVE IInv
  OBVIOUS
<1>1. TypeOK /\ None \notin Traders
  BY InitType, ConstantsAssumption DEF Traders
<1>2. \A o \in Orders : ledgerFile.has[o] = 0 /\ o \notin pendingFile
  BY DEF Init
<1>3. FilePart
  BY <1>2 DEF FilePart, Once, Files
<1>4. ASSUME NEW t \in Traders PROVE Part(t)
  <2>1. act[t] = Off /\ mem[t] = Empty /\ Pc(t) = "off" /\ lock # t
    BY <1>1, OffEmpty DEF Init, Pc
  <2> QED
    BY <2>1, OffEmpty
       DEF Init, Part, HolderPart, NoticePart, NoticeHeld, TodoPart, FilledPart,
           HalfPart, CoversPart, OncePart
<1> QED
  BY <1>1, <1>3, <1>4 DEF IInv

LEMMA Invariance == Spec => []IInv
  BY InitInv, NextKeeps, PTL DEF Spec

(* INV-FILL-1 for the files, for any number of jobs, orders and mishaps:   *)
(* without a torn or a stale save, the ledger file has every fill at most  *)
(* once, only of executed orders, and no longer as pending, save for the   *)
(* orders whose notice was in hand during a cycle of the loop.             *)
THEOREM FillsRecordedOnce == Spec => []RecordedOnce
<1>1. IInv => RecordedOnce
  <2> SUFFICES ASSUME IInv, tornSaves = 0, staleSaves = 0, NEW o \in Orders \ crossed
               PROVE  /\ ledgerFile.has[o] <= 1
                      /\ ledgerFile.has[o] = 1 =>
                            book[o] = "filled" /\ (o \in pendingFile => Saving)
    BY DEF RecordedOnce
  <2>1. FilePart
    BY DEF IInv
  <2> QED
    BY <2>1 DEF FilePart, Once, Files
<1> QED
  BY <1>1, Invariance, PTL

(* Nothing on file is forgotten: what a save of a fresh copy takes out of  *)
(* the pending file is in the ledger file or was cancelled by KIS.         *)
THEOREM FilesKeep == Spec => SavedStays
<1>1. ASSUME IInv, [Next]_vars, staleSaves' = 0, NEW o \in Orders, Known(o)
      PROVE  Known(o)' \/ book[o] = "cancelled"
  <2>0. TypeOK /\ Known(o) = (o \in pendingFile \/ ledgerFile.has[o] > 0)
    BY <1>1 DEF IInv, Known
  <2>1. CASE UNCHANGED files
    BY <1>1, <2>1 DEF Known, files
  <2>2. ASSUME NEW t \in Traders, SavesLedger(t)
        PROVE  Known(o)' \/ book[o] = "cancelled"
    <3>1. /\ Part(t) /\ mem[t] \in Copy /\ ledgerFile \in Ledger
      BY <1>1, PartFacts
    <3>2. /\ Pc(t) = "wait" /\ t \notin stale
          /\ ledgerFile' = mem[t].ledger /\ pendingFile' = pendingFile
      BY <1>1, <2>0, <2>2 DEF SavesLedger, TypeOK
    <3>3. ledgerFile.has[o] <= mem[t].ledger.has[o]
      BY <3>1, <3>2 DEF Part, CoversPart
    <3> QED
      BY <1>1, <3>1, <3>2, <3>3 DEF Known, Copy, Ledger
  <2>3. ASSUME NEW t \in Traders, SavesPending(t)
        PROVE  Known(o)' \/ book[o] = "cancelled"
    <3>1. /\ Part(t) /\ mem[t] \in Copy /\ ledgerFile \in Ledger
      BY <1>1, PartFacts
    <3>2. /\ Pc(t) = "wrote" /\ staleSaves = 0
          /\ ledgerFile' = ledgerFile /\ pendingFile' = mem[t].pending
      BY <1>1, <2>3 DEF SavesPending
    <3>3. ledgerFile = mem[t].ledger /\ t \notin stale
      BY <3>1, <3>2 DEF Part, HalfPart
    <3>4. o \in pendingFile => \/ o \in mem[t].pending
                               \/ mem[t].ledger.has[o] > 0
                               \/ book[o] = "cancelled"
      BY <3>1, <3>2, <3>3 DEF Part, CoversPart
    <3> QED
      BY <1>1, <3>1, <3>2, <3>3, <3>4 DEF Known
  <2>4. UNCHANGED files \/ \E t \in Traders : SavesLedger(t) \/ SavesPending(t)
    BY <1>1
       DEF Next, TraderStep, LoopStep, vars, JobReadsLedger, LoopReadsLedger,
           ReadsPending, LoopStops, LoopMatches, LoopApplies, LoopRemoves,
           LoopSells, Sends, EntersCycle, Resolves, ResolvesGone, ChecksHealth, Trades, WaitsPending, Raises,
           EntersSettlement, ReadsBalance, Deducts, FindsNoOrphan, Reports,
           Executes, OrderCancelled, SellsByHand, Crashes
  <2> QED
    BY <2>1, <2>2, <2>3, <2>4
<1>2. IInv /\ [Next]_vars =>
         [staleSaves' = 0 => \A o \in Orders :
             Known(o) => Known(o)' \/ book[o] = "cancelled"]_vars
  BY <1>1
<1> QED
  BY <1>2, Invariance, PTL DEF Spec, SavedStays
=============================================================================
