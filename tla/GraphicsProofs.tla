--------------------------- MODULE GraphicsProofs ---------------------------
(***************************************************************************)
(* Theorems about Graphics for any number of buffers, addresses, users and *)
(* whatever may fail.                                                      *)
(***************************************************************************)
EXTENDS Graphics, WellFoundedInduction, TLAPS

\* The framebuffer's mapping is one, and before it is made nothing of it was
\* handed out.
FramebufferKnown ==
  /\ module.base # None => module.base \in used
  /\ ~module.framebuffer =>
       module.base = None /\ module.bufferMask = {} /\ module.numBuffers = 0

\* Only screens are posted.  A post that is alone has the offset and what is
\* shown to itself; and unless posts overlapped, all are, and between their
\* flip and their end only does the module lag behind the hardware.
PostsKnown ==
  /\ \A t \in Posting :
       /\ handle[posting[t].buffer].kind = "framebuffer"
       /\ posting[t].alone =>
            /\ Posting = {t}
            /\ posting[t].step = "flip" => module.yoffset = handle[posting[t].buffer].slot
            /\ posting[t].step = "current" => screen = handle[posting[t].buffer].slot
       /\ ~torn => posting[t].alone
  /\ Posting # {} => module.yoffset \in module.bufferMask
  /\ (\E t \in Posting : posting[t].step = "current") => screen \in module.bufferMask
  /\ (~torn /\ module.currentBuffer # None /\ \A t \in Posting : posting[t].step = "flip") =>
       handle[module.currentBuffer].slot = screen

GrallocInv == /\ GrallocTypeOK /\ SlotsExclusive /\ BaseIsMapped /\ ScreenShowsCurrent
              /\ FramebufferKnown /\ PostsKnown
HwcInv == HwcTypeOK /\ HwcReady /\ HeldIsLive
IInv == GrallocInv /\ HwcInv

-----------------------------------------------------------------------------
(* What the helpers return.                                                *)

LEMMA MmapType ==
  ASSUME NEW inUse, NEW a \in Mmap(inUse)
  PROVE  a \in (Address \ inUse) \cup {None}
BY DEF Mmap

\* A set of numbers has a least one.
LEMMA LeastNumber ==
  ASSUME NEW S, S \subseteq Nat, S # {}
  PROVE  \E m \in S : \A k \in S : m <= k
<1> DEFINE R == OpToRel(<, Nat)
<1>1. IsWellFoundedOn(R, Nat)
  BY NatLessThanWellFounded
<1>2. \A m, k \in Nat : k < m => <<k, m>> \in R
  BY DEF OpToRel
<1> HIDE DEF R
<1>3. PICK m \in S : \A k \in S : ~(<<k, m>> \in R)
  BY <1>1, WFMin, Zenon
<1>4. ASSUME NEW k \in S PROVE m <= k
  <2>1. ~(k < m)
    BY <1>2, <1>3
  <2> QED BY <2>1
<1> QED BY <1>4

\* A slot that is next is free.
LEMMA NextSlotIsFree ==
  ASSUME NEW m \in Module, FreeSlots(m) # {}
  PROVE  NextSlot(m) \in FreeSlots(m)
<1>1. FreeSlots(m) \subseteq Nat
  BY GrallocAssumption DEF FreeSlots, Slot
<1>2. \E i \in FreeSlots(m) : \A j \in FreeSlots(m) : i <= j
  BY <1>1, LeastNumber
<1> QED BY <1>2 DEF NextSlot

\* What becomes of the module when its framebuffer is mapped, or was: it
\* takes a free address, and changes nothing once it was made.
Continues(r) ==
  /\ r.module \in Module /\ r.err \in BOOLEAN /\ r.screen \in Slot
  /\ r.taken \subseteq Address \ used
  /\ r.module.bufferMask = module.bufferMask
  /\ r.module.currentBuffer = module.currentBuffer
  /\ module.framebuffer => r.module = module /\ r.screen = screen /\ r.taken = {}
  /\ r.module.base # None => r.module.base \in used \cup r.taken
  /\ r.module.base # module.base => r.module.base \in r.taken \/ r.module.base = None
  /\ ~r.module.framebuffer => r.module.base = None /\ r.module.numBuffers = 0

LEMMA UnmappedContinues ==
  ASSUME GrallocTypeOK, FramebufferKnown, NEW err \in BOOLEAN
  PROVE  Continues(Unmapped(err))
<1> DEFINE r == Unmapped(err)
<1>1. r.module = module /\ r.err = err /\ r.taken = {} /\ r.screen = screen
  BY DEF Unmapped
<1> QED BY <1>1 DEF Continues, GrallocTypeOK, FramebufferKnown

LEMMA MapResult ==
  ASSUME GrallocTypeOK, FramebufferKnown, NEW r \in MapFrameBufferLocked
  PROVE  Continues(r)
<1>1. CASE r = Unmapped(TRUE) \/ r = Unmapped(FALSE)
  BY <1>1, UnmappedContinues
<1>2. CASE ~module.framebuffer /\ \E a \in Mmap(used), d \in Probed : r = Mapped(a, d)
  <2>1. PICK a \in Mmap(used), d \in Probed : r = Mapped(a, d)
    BY <1>2
  <2>2. a \in (Address \ used) \cup {None}
    BY MmapType
  <2>3. d.screens \in 1..MaxScreens /\ d.pageFlip \in BOOLEAN /\ d.shown \in Slot
    <3>1. PICK n \in 1..MaxScreens, pan \in Pan : d = Screens(n, pan)
      BY DEF Probed
    <3> QED BY <3>1, GrallocAssumption DEF Screens, Pan, GrallocTypeOK, Slot
  <2>4. r.module \in Module
    <3>1. d.screens \in 0..MaxScreens /\ {} \in SUBSET Slot /\ 0 \in Slot
      BY <2>3, GrallocAssumption DEF Slot
    <3> QED BY <2>1, <2>2, <2>3, <3>1 DEF Mapped, Module, GrallocTypeOK
  <2>5. /\ r.err \in BOOLEAN /\ r.screen = d.shown /\ r.taken = {a} \ {None}
        /\ r.module.base = a /\ r.module.bufferMask = {} /\ r.module.framebuffer = TRUE
        /\ r.module.currentBuffer = module.currentBuffer
    BY <2>1 DEF Mapped, GrallocTypeOK, Module
  <2> QED BY <1>2, <2>2, <2>3, <2>4, <2>5 DEF FramebufferKnown, Continues
<1>3. CASE module.framebuffer
  <2>1. r = Unmapped(FALSE)
    BY <1>3 DEF MapFrameBufferLocked
  <2> QED BY <1>1, <2>1
<1>4. CASE ~module.framebuffer
  <2>1. r \in NotProbed \/ \E a \in Mmap(used), d \in Probed : r = Mapped(a, d)
    BY <1>4 DEF MapFrameBufferLocked, Mapping
  <2>2. CASE r \in NotProbed
    <3>1. r = Unmapped(TRUE) \/ r = Unmapped(FALSE)
      BY <2>2, Zenon DEF NotProbed
    <3> QED BY <1>1, <3>1
  <2> QED BY <1>2, <1>4, <2>1, <2>2
<1> QED BY <1>3, <1>4

-----------------------------------------------------------------------------
(* A step of the allocator preserves its part of the invariant.            *)

\* Nothing is shown or posted of a framebuffer that was not made.
LEMMA NothingShown ==
  ASSUME GrallocInv, ~module.framebuffer PROVE module.currentBuffer = None /\ Posting = {}
<1>1. \A h \in Handle : handle[h].kind # "framebuffer"
  BY DEF GrallocInv, SlotsExclusive, FramebufferKnown
<1>2. module.currentBuffer \in Handle \cup {None}
  BY DEF GrallocInv, GrallocTypeOK, Module
<1>3. \A t \in Posting : posting[t].buffer \in Handle
  BY DEF Posting, GrallocInv, GrallocTypeOK, Post
<1> QED BY <1>1, <1>2, <1>3 DEF GrallocInv, ScreenShowsCurrent, PostsKnown

\* What leaves the screens in their places leaves what is shown and posted.
LEMMA ShownKeeps ==
  ASSUME GrallocInv, UNCHANGED posts,
         module'.currentBuffer = module.currentBuffer,
         module.framebuffer => /\ screen' = screen /\ module'.yoffset = module.yoffset
                               /\ module.bufferMask \subseteq module'.bufferMask,
         \A g \in Handle : handle[g].kind = "framebuffer" => handle'[g] = handle[g]
  PROVE  ScreenShowsCurrent' /\ PostsKnown'
<1>1. Posting' = Posting
  BY DEF posts, Posting
<1>2. CASE module.framebuffer
  <2>1. \A t \in Posting : posting[t].buffer \in Handle
    BY DEF Posting, GrallocInv, GrallocTypeOK, Post
  <2>2. module.currentBuffer \in Handle \cup {None}
    BY DEF GrallocInv, GrallocTypeOK, Module
  <2>3. module.currentBuffer # None => handle'[module.currentBuffer] = handle[module.currentBuffer]
    BY <2>2 DEF GrallocInv, ScreenShowsCurrent
  <2>4. \A t \in Posting : handle'[posting[t].buffer] = handle[posting[t].buffer]
    BY <2>1 DEF GrallocInv, PostsKnown
  <2>5. ScreenShowsCurrent'
    BY <1>1, <1>2, <2>3 DEF GrallocInv, ScreenShowsCurrent, posts
  <2>6. PostsKnown'
    BY <1>1, <1>2, <2>3, <2>4 DEF GrallocInv, PostsKnown, posts
  <2> QED BY <2>5, <2>6
<1>3. CASE ~module.framebuffer
  BY <1>1, <1>3, NothingShown DEF ScreenShowsCurrent, PostsKnown
<1> QED BY <1>2, <1>3

\* A mapping taken by the framebuffer disturbs no buffer.
LEMMA MapKeeps ==
  ASSUME GrallocInv, NEW r, Continues(r),
         module' = r.module, used' = used \cup r.taken, screen' = r.screen,
         UNCHANGED <<handle, posts>>, open' \subseteq {"gpu0", "fb0"}, up' \in BOOLEAN
  PROVE  GrallocInv'
<1> USE DEF GrallocInv, Continues
<1>1. GrallocTypeOK'
  BY DEF GrallocTypeOK, posts
<1>2. SlotsExclusive'
  <2>1. CASE module.framebuffer
    BY <2>1 DEF SlotsExclusive
  <2>2. CASE ~module.framebuffer
    BY <2>2 DEF SlotsExclusive, FramebufferKnown
  <2> QED BY <2>1, <2>2
<1>3. BaseIsMapped'
  BY GrallocAssumption DEF BaseIsMapped, Regular, Lock
<1>4. ScreenShowsCurrent' /\ PostsKnown'
  BY ShownKeeps
<1>5. FramebufferKnown'
  BY DEF FramebufferKnown
<1> QED BY <1>1, <1>2, <1>3, <1>4, <1>5

\* A buffer gets a mapping of its own at an address nothing is mapped at.
LEMMA MapBufferKeeps ==
  ASSUME GrallocInv, NEW r, Continues(r), module' = r.module, screen' = r.screen,
         NEW h \in Handle, NEW b \in Buffer, b.kind \in {"ashmem", "shm"},
         handle[h].kind # "framebuffer",
         NEW inUse \in SUBSET Address, used \cup r.taken \subseteq inUse, NEW a \in Address \ inUse,
         Map(h, b, a, inUse), UNCHANGED <<open, posts, up>>
  PROVE  GrallocInv'
<1> USE DEF GrallocInv, Map, Continues
<1>0. /\ handle'[h].kind = b.kind /\ handle'[h].base = a
      /\ \A g \in Handle \ {h} : handle'[g] = handle[g]
      /\ handle' \in [Handle -> Buffer]
  BY DEF GrallocTypeOK, Buffer
<1>1. GrallocTypeOK'
  BY <1>0 DEF GrallocTypeOK, posts
<1>2. \A g \in Handle : /\ handle'[g].kind = "framebuffer" <=> handle[g].kind = "framebuffer"
                        /\ handle[g].kind = "framebuffer" => handle'[g] = handle[g]
  BY <1>0
<1>3. SlotsExclusive'
  <2>1. CASE module.framebuffer
    BY <1>2, <2>1 DEF SlotsExclusive
  <2>2. CASE ~module.framebuffer
    <3>1. module.bufferMask = {} /\ module'.bufferMask = {}
      BY <2>2 DEF FramebufferKnown
    <3>2. \A g \in Handle : handle[g].kind = "framebuffer" => handle[g].slot \in module.bufferMask
      BY DEF SlotsExclusive
    <3> QED BY <1>2, <3>1, <3>2 DEF SlotsExclusive
  <2> QED BY <2>1, <2>2
<1>4. BaseIsMapped'
  BY <1>0, GrallocAssumption DEF BaseIsMapped, Regular, Lock, FramebufferKnown
<1>5. ScreenShowsCurrent' /\ PostsKnown'
  BY <1>2, ShownKeeps
<1>6. FramebufferKnown'
  BY DEF FramebufferKnown
<1> QED BY <1>1, <1>3, <1>4, <1>5, <1>6

\* What changes no buffer, no mapping and nothing of the framebuffer.
LEMMA AsideKeeps ==
  ASSUME GrallocInv, module' \in Module, UNCHANGED <<handle, used, screen, posts>>,
         module'.framebuffer = module.framebuffer, module'.base = module.base,
         module'.numBuffers = module.numBuffers, module'.bufferMask = module.bufferMask,
         module'.currentBuffer = module.currentBuffer, module'.yoffset = module.yoffset,
         open' \subseteq {"gpu0", "fb0"}, up' \in BOOLEAN
  PROVE  GrallocInv'
<1> USE DEF GrallocInv
<1>1. GrallocTypeOK'
  BY DEF GrallocTypeOK, posts
<1>2. SlotsExclusive' /\ FramebufferKnown'
  BY DEF SlotsExclusive, FramebufferKnown
<1>3. BaseIsMapped'
  BY DEF BaseIsMapped, Regular, Lock
<1>4. ScreenShowsCurrent' /\ PostsKnown'
  BY ShownKeeps
<1> QED BY <1>1, <1>2, <1>3, <1>4

LEMMA DiesStep ==
  ASSUME GrallocInv, Dies PROVE GrallocInv'
BY AsideKeeps DEF Dies, grallocVars, GrallocInv, GrallocTypeOK

LEMMA OpenFramebufferStep ==
  ASSUME GrallocInv, OpenFramebuffer PROVE GrallocInv'
<1>1. PICK r \in MapFrameBufferLocked :
        IF ~r.err /\ ~r.module.framebuffer THEN Dies
        ELSE /\ module' = r.module /\ used' = used \cup r.taken /\ screen' = r.screen
             /\ open' = IF r.err THEN open ELSE open \cup {"fb0"}
             /\ UNCHANGED <<handle, posts, up>>
  BY DEF OpenFramebuffer
<1>2. CASE Dies
  BY <1>2, DiesStep
<1>3. CASE ~Dies
  <2>1. open' \subseteq {"gpu0", "fb0"} /\ up' \in BOOLEAN
    BY <1>1, <1>3 DEF GrallocInv, GrallocTypeOK
  <2>2. Continues(r)
    BY MapResult DEF GrallocInv
  <2> QED BY <1>1, <1>3, <2>1, <2>2, MapKeeps
<1> QED BY <1>2, <1>3

LEMMA AllocBufferStep ==
  ASSUME GrallocInv, NEW r, Continues(r), module' = r.module, screen' = r.screen,
         NEW h \in Handle, handle[h].kind = "none", AllocBuffer(h, used \cup r.taken),
         UNCHANGED <<open, posts, up>>
  PROVE  GrallocInv'
<1> DEFINE b == [NoBuffer EXCEPT !.kind = "ashmem"]
<1>1. CASE used' = used \cup r.taken /\ UNCHANGED handle
  BY <1>1, MapKeeps DEF GrallocInv, GrallocTypeOK
<1>2. ASSUME NEW a \in Mmap(used \cup r.taken) \ {None}, Map(h, b, a, used \cup r.taken)
      PROVE  GrallocInv'
  <2>1. b \in Buffer /\ b.kind = "ashmem"
    BY GrallocAssumption DEF NoBuffer, Buffer, Slot
  <2>2. a \in Address \ (used \cup r.taken) /\ used \cup r.taken \in SUBSET Address
    BY <1>2, MmapType DEF Continues, GrallocInv, GrallocTypeOK
  <2>3. used \cup r.taken \subseteq used \cup r.taken /\ handle[h].kind # "framebuffer"
    OBVIOUS
  <2> HIDE DEF b
  <2> QED BY <1>2, <2>1, <2>2, <2>3, MapBufferKeeps
<1> QED BY <1>1, <1>2 DEF AllocBuffer

\* A screen is given to a handle.
LEMMA ScreenStep ==
  ASSUME GrallocInv, NEW r, Continues(r), NEW h \in Handle, handle[h].kind = "none",
         NEW i \in FreeSlots(r.module),
         module' = [r.module EXCEPT !.bufferMask = @ \cup {i}], screen' = r.screen,
         Screen(h, i), used' = used \cup r.taken, UNCHANGED <<open, posts, up>>
  PROVE  GrallocInv'
<1> USE DEF GrallocInv
<1>1. /\ module' \in Module /\ module'.bufferMask = r.module.bufferMask \cup {i}
      /\ module'.framebuffer = r.module.framebuffer /\ module'.base = r.module.base
      /\ module'.numBuffers = r.module.numBuffers
      /\ module'.currentBuffer = r.module.currentBuffer
  BY DEF Continues, Module, FreeSlots
<1>2. i \in Slot /\ i \notin module.bufferMask /\ i < r.module.numBuffers
  BY DEF FreeSlots, Continues
<1>3. /\ handle' \in [Handle -> Buffer]
      /\ handle'[h] = [kind |-> "framebuffer", slot |-> i, base |-> None]
      /\ \A g \in Handle \ {h} : handle'[g] = handle[g]
  BY <1>2 DEF Screen, NoBuffer, GrallocTypeOK, Buffer
<1>4. GrallocTypeOK'
  BY <1>1, <1>3 DEF GrallocTypeOK, Continues, posts
<1>5. SlotsExclusive'
  <2>1. \A j \in module.bufferMask : j < r.module.numBuffers
    BY DEF Continues, SlotsExclusive, FramebufferKnown
  <2>2. \A g \in Handle : handle'[g].kind = "framebuffer" <=> g = h \/ handle[g].kind = "framebuffer"
    BY <1>3
  <2>3. \A g \in Handle \ {h} : handle[g].kind = "framebuffer" => handle'[g].slot \in module.bufferMask
    BY <1>3 DEF SlotsExclusive
  <2>4. module'.bufferMask = {handle'[g].slot : g \in {g \in Handle : handle'[g].kind = "framebuffer"}}
    <3>1. module'.bufferMask = module.bufferMask \cup {i}
      BY <1>1 DEF Continues
    <3>2. ASSUME NEW j \in module.bufferMask
          PROVE  \E g \in Handle : handle'[g].kind = "framebuffer" /\ handle'[g].slot = j
      <4>1. PICK g \in Handle : handle[g].kind = "framebuffer" /\ handle[g].slot = j
        BY DEF SlotsExclusive
      <4> QED BY <1>3, <4>1
    <3> QED BY <1>3, <2>2, <2>3, <3>1, <3>2
  <2>5. ASSUME NEW g1 \in Handle, NEW g2 \in Handle, handle'[g1].kind = "framebuffer",
               handle'[g2].kind = "framebuffer", handle'[g1].slot = handle'[g2].slot
        PROVE  g1 = g2
    BY <1>2, <1>3, <2>2, <2>3, <2>5 DEF SlotsExclusive
  <2> QED BY <1>1, <1>2, <2>1, <2>4, <2>5 DEF SlotsExclusive, Continues
<1>6. BaseIsMapped'
  BY <1>1, <1>3, GrallocAssumption DEF BaseIsMapped, Regular, Lock, Continues
<1>7. ScreenShowsCurrent' /\ PostsKnown'
  <2>1. module.framebuffer => module'.yoffset = module.yoffset
    BY DEF Continues, Module, GrallocTypeOK
  <2> QED BY <1>1, <1>3, <2>1, ShownKeeps DEF Continues
<1>8. FramebufferKnown'
  <2>1. r.module.framebuffer
    BY <1>2, GrallocAssumption DEF Continues, FreeSlots, Slot
  <2> QED BY <1>1, <2>1 DEF FramebufferKnown, Continues
<1> QED BY <1>4, <1>5, <1>6, <1>7, <1>8

LEMMA AllocFramebufferStep ==
  ASSUME GrallocInv, NEW h \in Handle, AllocFramebuffer(h) PROVE GrallocInv'
<1>1. PICK r \in MapFrameBufferLocked :
        /\ screen' = r.screen
        /\ \/ /\ r.err \/ (r.module.numBuffers # 1 /\ FreeSlots(r.module) = {})
              /\ module' = r.module
              /\ used' = used \cup r.taken
              /\ UNCHANGED handle
           \/ /\ ~r.err /\ r.module.numBuffers = 1
              /\ module' = r.module
              /\ AllocBuffer(h, used \cup r.taken)
           \/ /\ ~r.err /\ r.module.numBuffers # 1 /\ FreeSlots(r.module) # {}
              /\ module' = [r.module EXCEPT !.bufferMask = @ \cup {NextSlot(r.module)}]
              /\ Screen(h, NextSlot(r.module))
              /\ used' = used \cup r.taken
  BY DEF AllocFramebuffer
<1>2. handle[h].kind = "none" /\ UNCHANGED <<open, posts, up>>
  BY DEF AllocFramebuffer
<1>3. Continues(r) /\ r.module \in Module
  BY MapResult DEF GrallocInv, Continues
<1>4. CASE module' = r.module /\ used' = used \cup r.taken /\ UNCHANGED handle
  BY <1>1, <1>2, <1>3, <1>4, MapKeeps DEF GrallocInv, GrallocTypeOK
<1>5. CASE module' = r.module /\ AllocBuffer(h, used \cup r.taken)
  BY <1>1, <1>2, <1>3, <1>5, AllocBufferStep
<1>6. CASE /\ FreeSlots(r.module) # {}
           /\ module' = [r.module EXCEPT !.bufferMask = @ \cup {NextSlot(r.module)}]
           /\ Screen(h, NextSlot(r.module)) /\ used' = used \cup r.taken
  <2>1. NextSlot(r.module) \in FreeSlots(r.module)
    BY <1>3, <1>6, NextSlotIsFree
  <2> QED BY <1>1, <1>2, <1>3, <1>6, <2>1, ScreenStep
<1> QED BY <1>1, <1>4, <1>5, <1>6

\* A mapping is taken that no handle has, or one is given back.
LEMMA AllocStep ==
  ASSUME GrallocInv, NEW h \in Handle, Alloc(h) PROVE GrallocInv'
<1> USE DEF GrallocInv
<1> DEFINE b == [NoBuffer EXCEPT !.kind = "shm"]
<1>1. PICK file \in AnonymousFile, data \in Mmap(used) :
        IF ~file \/ data = None THEN UNCHANGED <<grallocVars, up>>
        ELSE IF ~module.waylandClient THEN Dies
        ELSE /\ \/ /\ "buffer" \in Faults \/ None \in Mmap(used \cup {data})
                   /\ used' = used \cup {data}
                   /\ UNCHANGED handle
                \/ \E a \in Mmap(used \cup {data}) \ {None} : Map(h, b, a, used \cup {data})
             /\ UNCHANGED <<module, open, screen, posts, up>>
  BY DEF Alloc
<1>2. data \in (Address \ used) \cup {None} /\ handle[h].kind = "none"
  BY MmapType DEF Alloc
<1>3. CASE UNCHANGED <<grallocVars, up>>
  BY <1>3, AsideKeeps DEF grallocVars, GrallocTypeOK
<1>4. CASE Dies
  BY <1>4, DiesStep
<1>5. CASE data # None /\ used' = used \cup {data} /\ UNCHANGED <<handle, module, open, screen, posts, up>>
  <2>1. GrallocTypeOK' /\ SlotsExclusive' /\ FramebufferKnown'
    BY <1>2, <1>5 DEF GrallocTypeOK, SlotsExclusive, FramebufferKnown, posts
  <2>2. BaseIsMapped'
    BY <1>5 DEF BaseIsMapped, Regular, Lock
  <2>3. ScreenShowsCurrent' /\ PostsKnown'
    BY <1>5, ShownKeeps
  <2> QED BY <2>1, <2>2, <2>3
<1>6. ASSUME data # None, UNCHANGED <<module, open, screen, posts, up>>,
             NEW a \in Mmap(used \cup {data}) \ {None}, Map(h, b, a, used \cup {data})
      PROVE  GrallocInv'
  <2> DEFINE r == Unmapped(FALSE)  inUse == used \cup {data}
  <2>1. Continues(r) /\ r.module = module /\ r.screen = screen /\ r.taken = {}
    BY UnmappedContinues DEF Unmapped
  <2>2. b \in Buffer /\ b.kind = "shm"
    BY GrallocAssumption DEF NoBuffer, Buffer, Slot
  <2>3. inUse \in SUBSET Address /\ used \cup r.taken \subseteq inUse
    BY <1>2, <1>6, <2>1 DEF GrallocTypeOK
  <2>4. a \in Address \ inUse
    BY <1>6, MmapType
  <2>5. module' = r.module /\ screen' = r.screen /\ Map(h, b, a, inUse) /\ UNCHANGED <<open, posts, up>>
        /\ b.kind \in {"ashmem", "shm"} /\ handle[h].kind # "framebuffer"
    BY <1>2, <1>6, <2>1, <2>2
  <2> HIDE DEF r, inUse, b
  <2> QED BY <2>1, <2>2, <2>3, <2>4, <2>5, MapBufferKeeps
<1> QED BY <1>1, <1>3, <1>4, <1>5, <1>6

LEMMA RegisterBufferStep ==
  ASSUME GrallocInv, NEW h \in Handle, RegisterBuffer(h) PROVE GrallocInv'
<1> USE DEF GrallocInv
<1>1. PICK a \in Mmap(used) \ {None} : Map(h, handle[h], a, used)
  BY DEF RegisterBuffer
<1> DEFINE r == Unmapped(FALSE)
<1>2. Continues(r) /\ r.module = module /\ r.screen = screen /\ r.taken = {}
  BY UnmappedContinues DEF Unmapped
<1>3. handle[h] \in Buffer /\ handle[h].kind \in {"ashmem", "shm"} /\ handle[h].kind # "framebuffer"
  BY DEF RegisterBuffer, Regular, GrallocTypeOK
<1>4. used \in SUBSET Address /\ used \cup r.taken \subseteq used /\ a \in Address \ used
  BY <1>1, <1>2, MmapType DEF GrallocTypeOK
<1>5. module' = r.module /\ screen' = r.screen /\ UNCHANGED <<open, posts, up>>
  BY <1>2 DEF RegisterBuffer
<1> HIDE DEF r
<1> QED BY <1>1, <1>2, <1>3, <1>4, <1>5, MapBufferKeeps

\* A buffer loses its mapping, and may cease to be.
LEMMA UnmapKeeps ==
  ASSUME GrallocInv, NEW h \in Handle, Regular(h), NEW b \in Buffer, b.base = None,
         b.kind # "framebuffer", used' = used \ {handle[h].base}, handle' = [handle EXCEPT ![h] = b],
         UNCHANGED <<module, open, screen, posts, up>>
  PROVE  GrallocInv'
<1> USE DEF GrallocInv
<1>1. handle'[h] = b /\ \A g \in Handle \ {h} : handle'[g] = handle[g]
  BY DEF GrallocTypeOK
<1>2. GrallocTypeOK'
  BY DEF GrallocTypeOK, posts
<1>3. \A g \in Handle : /\ handle'[g].kind = "framebuffer" <=> handle[g].kind = "framebuffer"
                        /\ handle[g].kind = "framebuffer" => handle'[g] = handle[g]
  BY <1>1 DEF Regular
<1>4. SlotsExclusive' /\ ScreenShowsCurrent' /\ PostsKnown'
  BY <1>3, ShownKeeps DEF SlotsExclusive
<1>5. BaseIsMapped'
  BY <1>1 DEF BaseIsMapped, Regular, Lock
<1>6. FramebufferKnown'
  BY DEF FramebufferKnown, BaseIsMapped, Lock
<1> QED BY <1>2, <1>4, <1>5, <1>6

LEMMA FreeStep ==
  ASSUME GrallocInv, NEW h \in Handle, Free(h) \/ UnregisterBuffer(h) PROVE GrallocInv'
<1>1. CASE Dies
  BY <1>1, DiesStep
<1>2. CASE Free(h) /\ ~Dies
  <2>1. NoBuffer \in Buffer /\ NoBuffer.base = None /\ NoBuffer.kind # "framebuffer" /\ Regular(h)
    BY <1>2, GrallocAssumption DEF NoBuffer, Buffer, Slot, Free, Regular
  <2> QED BY <1>2, <2>1, UnmapKeeps DEF Free
<1>3. CASE UnregisterBuffer(h)
  <2> DEFINE b == Unmap(handle[h])
  <2>1. b \in Buffer /\ b.base = None /\ b.kind # "framebuffer" /\ Regular(h)
    BY <1>3 DEF Unmap, Buffer, UnregisterBuffer, Regular, GrallocInv, GrallocTypeOK
  <2> QED BY <1>3, <2>1, UnmapKeeps DEF UnregisterBuffer
<1> QED BY <1>1, <1>2, <1>3

\* The steps of a post change nothing but what is shown and posted.
LEMMA PostingKeeps ==
  ASSUME GrallocInv, module' \in Module, UNCHANGED <<handle, open, used, up>>,
         module'.framebuffer = module.framebuffer, module'.base = module.base,
         module'.numBuffers = module.numBuffers, module'.bufferMask = module.bufferMask,
         screen' \in Slot, posting' \in [Poster -> Post \cup {None}], torn' \in BOOLEAN
  PROVE  GrallocTypeOK' /\ SlotsExclusive' /\ BaseIsMapped' /\ FramebufferKnown'
<1> USE DEF GrallocInv
<1>1. GrallocTypeOK'
  BY DEF GrallocTypeOK
<1>2. SlotsExclusive' /\ FramebufferKnown'
  BY DEF SlotsExclusive, FramebufferKnown
<1>3. BaseIsMapped'
  BY DEF BaseIsMapped, Regular, Lock
<1> QED BY <1>1, <1>2, <1>3

\* A post between its steps is a record of its type, and its buffer a screen
\* that is handed out.
LEMMA PostType ==
  ASSUME GrallocInv, NEW t \in Posting
  PROVE  /\ t \in Poster /\ posting[t] \in Post /\ posting[t] # None
         /\ posting[t].buffer \in Handle /\ posting[t].buffer # None
         /\ posting[t].step \in {"flip", "current"} /\ posting[t].alone \in BOOLEAN
         /\ handle[posting[t].buffer].kind = "framebuffer"
         /\ handle[posting[t].buffer].slot \in Slot
         /\ handle[posting[t].buffer].slot \in module.bufferMask
<1>1. t \in Poster /\ posting[t] \in Post /\ posting[t] # None
  BY DEF Posting, GrallocInv, GrallocTypeOK
<1>2. posting[t].buffer \in Handle /\ handle[posting[t].buffer].kind = "framebuffer"
  BY <1>1 DEF Post, GrallocInv, PostsKnown
<1> QED BY <1>1, <1>2, GrallocAssumption
        DEF Post, GrallocInv, GrallocTypeOK, Buffer, SlotsExclusive

LEMMA AskFlipStep ==
  ASSUME GrallocInv, NEW t \in Poster, NEW h \in Handle, AskFlip(t, h) PROVE GrallocInv'
<1>1. /\ handle[h].kind = "framebuffer" /\ handle[h].slot \in Slot
      /\ handle[h].slot \in module.bufferMask
  BY DEF AskFlip, GrallocInv, GrallocTypeOK, Buffer, SlotsExclusive
<1>2. /\ module' \in Module /\ module'.yoffset = handle[h].slot
      /\ module'.framebuffer = module.framebuffer /\ module'.base = module.base
      /\ module'.numBuffers = module.numBuffers /\ module'.bufferMask = module.bufferMask
      /\ module'.currentBuffer = module.currentBuffer
  BY <1>1 DEF AskFlip, GrallocInv, GrallocTypeOK, Module
<1>3. t \notin Posting /\ UNCHANGED <<handle, open, used, screen, up>>
  BY DEF AskFlip, Posting
<1>4. torn' = (torn \/ Posting # {}) /\ torn' \in BOOLEAN
  BY DEF AskFlip, GrallocInv, GrallocTypeOK
<1>5. /\ posting'[t] = [buffer |-> h, step |-> "flip", alone |-> Posting = {}]
      /\ \A p \in Posting : posting'[p] = [posting[p] EXCEPT !.alone = FALSE]
      /\ \A p \in Poster \ (Posting \cup {t}) : posting'[p] = None
      /\ DOMAIN posting' = Poster /\ posting' = [p \in Poster |-> posting'[p]]
  BY <1>3 DEF AskFlip, Posting
<1>6. posting'[t] \in Post /\ posting'[t].alone = (Posting = {}) /\ posting'[t].step = "flip"
      /\ posting'[t].buffer = h
  BY <1>5 DEF Post
<1>7. \A p \in Posting : /\ posting'[p] \in Post /\ posting'[p].alone = FALSE
                         /\ posting'[p].step = posting[p].step
                         /\ posting'[p].buffer = posting[p].buffer
  BY <1>5, PostType DEF Post
<1>8. posting' \in [Poster -> Post \cup {None}]
  BY <1>5, <1>6, <1>7
<1>9. Posting' = Posting \cup {t}
  <2>1. \A b \in Post : b # None
    BY GrallocAssumption DEF Post
  <2> QED BY <1>3, <1>5, <1>6, <1>7, <2>1 DEF Posting
<1>10. GrallocTypeOK' /\ SlotsExclusive' /\ BaseIsMapped' /\ FramebufferKnown'
  BY <1>2, <1>3, <1>4, <1>8, PostingKeeps DEF GrallocInv, GrallocTypeOK
<1>11. ScreenShowsCurrent'
  BY <1>2, <1>3, <1>9 DEF GrallocInv, ScreenShowsCurrent
<1>12. PostsKnown'
  <2>1. ASSUME NEW p \in Posting'
        PROVE  /\ handle'[posting'[p].buffer].kind = "framebuffer"
               /\ posting'[p].alone =>
                    /\ Posting' = {p}
                    /\ posting'[p].step = "flip" => module'.yoffset = handle'[posting'[p].buffer].slot
                    /\ posting'[p].step = "current" => screen' = handle'[posting'[p].buffer].slot
               /\ ~torn' => posting'[p].alone
    BY <1>1, <1>2, <1>3, <1>4, <1>6, <1>7, <1>9, PostType
  <2>2. module'.yoffset \in module'.bufferMask
    BY <1>1, <1>2
  <2>3. (\E p \in Posting' : posting'[p].step = "current") => screen' \in module'.bufferMask
    BY <1>2, <1>3, <1>6, <1>7, <1>9 DEF GrallocInv, PostsKnown
  <2>4. (~torn' /\ module'.currentBuffer # None /\ \A p \in Posting' : posting'[p].step = "flip") =>
          handle'[module'.currentBuffer].slot = screen'
    BY <1>2, <1>3, <1>4, <1>7, <1>9 DEF GrallocInv, PostsKnown
  <2> QED BY <2>1, <2>2, <2>3, <2>4 DEF PostsKnown
<1> QED BY <1>10, <1>11, <1>12 DEF GrallocInv

LEMMA FlipStep ==
  ASSUME GrallocInv, NEW t \in Poster, Flip(t) PROVE GrallocInv'
<1>1. t \in Posting /\ posting[t].step = "flip" /\ UNCHANGED <<module, handle, open, used, torn, up>>
  BY DEF Flip, AtStep
<1>2. /\ posting[t] \in Post /\ posting[t].alone \in BOOLEAN
      /\ handle[posting[t].buffer].kind = "framebuffer"
      /\ module.yoffset \in module.bufferMask /\ module.bufferMask \subseteq Slot
  BY <1>1, PostType DEF GrallocInv, GrallocTypeOK, Module, PostsKnown
<1>3. CASE screen' = module.yoffset /\ posting' = [posting EXCEPT ![t].step = "current"]
  <2>1. /\ posting'[t].buffer = posting[t].buffer /\ posting'[t].alone = posting[t].alone
        /\ posting'[t].step = "current" /\ posting'[t] \in Post
        /\ \A p \in Poster \ {t} : posting'[p] = posting[p]
        /\ posting' \in [Poster -> Post \cup {None}]
    BY <1>1, <1>2, <1>3 DEF GrallocInv, GrallocTypeOK, Post
  <2>2. Posting' = Posting
    <3>1. \A b \in Post : b # None
      BY GrallocAssumption DEF Post
    <3> QED BY <1>1, <2>1, <3>1 DEF Posting
  <2>3. GrallocTypeOK' /\ SlotsExclusive' /\ BaseIsMapped' /\ FramebufferKnown'
    BY <1>1, <1>2, <1>3, <2>1, PostingKeeps DEF GrallocInv, GrallocTypeOK
  <2>4. ScreenShowsCurrent'
    BY <1>1, <1>2, <1>3, <2>2 DEF GrallocInv, ScreenShowsCurrent
  <2>5. PostsKnown'
    <3>1. ASSUME NEW p \in Posting'
          PROVE  /\ handle'[posting'[p].buffer].kind = "framebuffer"
                 /\ posting'[p].alone =>
                      /\ Posting' = {p}
                      /\ posting'[p].step = "flip" => module'.yoffset = handle'[posting'[p].buffer].slot
                      /\ posting'[p].step = "current" => screen' = handle'[posting'[p].buffer].slot
                 /\ ~torn' => posting'[p].alone
      <4>1. p \in Poster /\ p \in Posting
        BY <2>2, PostType
      <4>2. CASE p = t
        BY <1>1, <1>2, <1>3, <2>1, <2>2, <4>1, <4>2 DEF GrallocInv, PostsKnown
      <4>3. CASE p # t
        <5>1. ~posting[p].alone
          BY <1>1, <4>1, <4>3 DEF GrallocInv, PostsKnown
        <5> QED BY <1>1, <2>1, <4>1, <4>3, <5>1 DEF GrallocInv, PostsKnown
      <4> QED BY <4>2, <4>3
    <3> QED BY <1>1, <1>2, <1>3, <2>1, <2>2, <3>1 DEF PostsKnown
  <2> QED BY <2>3, <2>4, <2>5 DEF GrallocInv
<1>4. CASE screen' = screen /\ posting' = [posting EXCEPT ![t] = None]
  <2>1. /\ posting'[t] = None /\ \A p \in Poster \ {t} : posting'[p] = posting[p]
        /\ posting' \in [Poster -> Post \cup {None}]
    BY <1>4 DEF GrallocInv, GrallocTypeOK
  <2>2. Posting' = Posting \ {t}
    BY <2>1 DEF Posting
  <2>3. GrallocTypeOK' /\ SlotsExclusive' /\ BaseIsMapped' /\ FramebufferKnown'
    BY <1>1, <1>4, <2>1, PostingKeeps DEF GrallocInv, GrallocTypeOK
  <2>4. \A p \in Posting' : p \in Poster /\ p \in Posting /\ posting'[p] = posting[p]
    BY <2>1, <2>2, PostType
  <2>5. ScreenShowsCurrent'
    <3>1. Posting' = {} => \A p \in Posting : posting[p].step = "flip"
      BY <1>1, <2>2
    <3> QED BY <1>1, <1>4, <3>1 DEF GrallocInv, ScreenShowsCurrent, PostsKnown
  <2>6. PostsKnown'
    <3>1. ASSUME NEW p \in Posting' PROVE ~posting[p].alone /\ torn
      BY <1>1, <2>2, <2>4 DEF GrallocInv, PostsKnown
    <3>2. Posting' = {} => \A p \in Posting : posting[p].step = "flip"
      BY <1>1, <2>2
    <3> QED BY <1>1, <1>4, <2>4, <3>1, <3>2 DEF GrallocInv, PostsKnown
  <2> QED BY <2>3, <2>5, <2>6 DEF GrallocInv
<1> QED BY <1>3, <1>4 DEF Flip

LEMMA MakeCurrentStep ==
  ASSUME GrallocInv, NEW t \in Poster, MakeCurrent(t) PROVE GrallocInv'
<1> DEFINE h == posting[t].buffer
<1>1. /\ t \in Posting /\ posting[t].step = "current" /\ UNCHANGED <<handle, open, used, screen, up>>
      /\ torn' = (torn /\ ~posting[t].alone)
  BY DEF MakeCurrent, AtStep
<1>2. /\ h \in Handle /\ h # None /\ posting[t].alone \in BOOLEAN
      /\ handle[h].kind = "framebuffer" /\ screen \in module.bufferMask
      /\ posting[t].alone => Posting = {t} /\ screen = handle[h].slot
      /\ ~torn => posting[t].alone
  BY <1>1, PostType DEF GrallocInv, PostsKnown
<1>3. /\ module' \in Module /\ module'.yoffset = module.yoffset /\ module'.currentBuffer = h
      /\ module'.framebuffer = module.framebuffer /\ module'.base = module.base
      /\ module'.numBuffers = module.numBuffers /\ module'.bufferMask = module.bufferMask
  BY <1>2 DEF MakeCurrent, GrallocInv, GrallocTypeOK, Module
<1>4. /\ posting'[t] = None /\ \A p \in Poster \ {t} : posting'[p] = posting[p]
      /\ posting' \in [Poster -> Post \cup {None}]
  BY DEF MakeCurrent, GrallocInv, GrallocTypeOK
<1>5. Posting' = Posting \ {t}
  BY <1>4 DEF Posting
<1>6. \A p \in Posting' : p \in Poster /\ p \in Posting /\ posting'[p] = posting[p]
  BY <1>4, <1>5, PostType
<1>7. GrallocTypeOK' /\ SlotsExclusive' /\ BaseIsMapped' /\ FramebufferKnown'
  BY <1>1, <1>2, <1>3, <1>4, PostingKeeps DEF GrallocInv, GrallocTypeOK
<1>8. ~torn' => posting[t].alone
  BY <1>1, <1>2
<1> HIDE DEF h
<1>9. ScreenShowsCurrent'
  BY <1>1, <1>2, <1>3, <1>8 DEF ScreenShowsCurrent
<1>10. PostsKnown'
  <2>1. ASSUME NEW p \in Posting' PROVE ~posting[p].alone /\ torn'
    <3>1. p \in Posting /\ p # t
      BY <1>5, <1>6
    <3>2. ~posting[p].alone /\ torn
      BY <1>1, <3>1 DEF GrallocInv, PostsKnown
    <3>3. ~posting[t].alone
      BY <1>2, <3>1
    <3> QED BY <1>1, <3>2, <3>3
  <2>2. \A p \in Posting' : handle'[posting'[p].buffer].kind = "framebuffer"
    BY <1>1, <1>6 DEF GrallocInv, PostsKnown
  <2>3. Posting' # {} => module'.yoffset \in module'.bufferMask
    BY <1>1, <1>3 DEF GrallocInv, PostsKnown
  <2>4. ~torn' => handle'[module'.currentBuffer].slot = screen'
    BY <1>1, <1>2, <1>3, <1>8
  <2> QED BY <1>1, <1>2, <1>3, <1>6, <2>1, <2>2, <2>3, <2>4 DEF PostsKnown
<1> QED BY <1>7, <1>9, <1>10 DEF GrallocInv

LEMMA GrallocStep ==
  ASSUME GrallocInv, GrallocNext PROVE GrallocInv'
<1>1. CASE OpenGpu \/ (\E d \in open : Close(d))
  BY <1>1, AsideKeeps DEF OpenGpu, Close, GrallocInv, GrallocTypeOK
<1>2. CASE \E there \in BOOLEAN : SetWaylandClient(there)
  BY <1>2, AsideKeeps DEF SetWaylandClient, GrallocInv, GrallocTypeOK, Module
<1>3. CASE \E h \in Handle : PostCopy(h)
  BY <1>3, AsideKeeps DEF PostCopy, grallocVars, GrallocInv, GrallocTypeOK
<1> QED BY <1>1, <1>2, <1>3, OpenFramebufferStep, AllocFramebufferStep, AllocStep, FreeStep,
           RegisterBufferStep, AskFlipStep, FlipStep, MakeCurrentStep DEF GrallocNext

-----------------------------------------------------------------------------
(* A step of the hardware composer preserves its part.                     *)

LEMMA OpensStep ==
  ASSUME HwcInv, up \in BOOLEAN, NEW u \in User, Opens(u) PROVE HwcInv'
<1> USE HwcomposerAssumption DEF HwcInv
<1>1. PICK o \in New : /\ GetInstance(o) /\ sInstance' = o
        /\ object' = [object EXCEPT ![o] = Initialized(IF sInstance = None THEN Constructed ELSE @)]
        /\ held' = [held EXCEPT ![u] = o]
  BY DEF Opens, Open
<1>2. cut' = cut \ {u}
  BY DEF Opens, Open
<1>3. o # None /\ None \notin New
  BY DEF New
<1>4. /\ object' \in [New -> Object]
      /\ object'[o].state = "live" /\ object'[o].mInitialized /\ object'[o].mWindow
      /\ \A p \in New \ {o} : object'[p] = object[p]
  <2>1. CASE sInstance = None
    BY <1>1, <2>1 DEF Initialized, Constructed, HwcTypeOK, Object
  <2>2. CASE sInstance # None
    <3>1. o = sInstance /\ object[o].state = "live" /\ object[o].mWindow
      BY <1>1, <2>2 DEF GetInstance, HwcReady
    <3> QED BY <1>1, <2>2, <3>1 DEF Initialized, HwcTypeOK, Object
  <2> QED BY <2>1, <2>2
<1>5. HwcTypeOK'
  BY <1>1, <1>2, <1>4 DEF HwcTypeOK
<1>6. HwcReady'
  <2>1. \A p \in New \ {o} : ~object[p].mWindow
    BY <1>1, <1>3 DEF GetInstance, HwcReady
  <2> QED BY <1>1, <1>4, <2>1 DEF HwcReady
<1>7. HeldIsLive'
  <2>1. \A v \in User \ {u} : held[v] # None /\ v \notin cut => sInstance = o
    BY <1>1 DEF HeldIsLive, GetInstance
  <2> QED BY <1>1, <1>2, <1>4, <2>1 DEF HeldIsLive, HwcTypeOK
<1> QED BY <1>5, <1>6, <1>7

LEMMA ClosesStep ==
  ASSUME HwcInv, NEW u \in User, Closes(u) PROVE HwcInv'
<1> USE HwcomposerAssumption DEF HwcInv
<1>1. /\ object' = IF sInstance = None THEN object ELSE [object EXCEPT ![sInstance] = Deleted(@)]
      /\ sInstance' = None /\ held' = [held EXCEPT ![u] = None]
      /\ cut' = (cut \ {u}) \cup Others(u)
  BY DEF Closes
<1>2. None \notin New
  BY DEF New
<1>3. object' \in [New -> Object] /\ \A o \in New : ~object'[o].mWindow
  <2>1. CASE sInstance = None
    BY <1>1, <1>2, <2>1 DEF HwcTypeOK, HwcReady
  <2>2. CASE sInstance # None
    <3>1. sInstance \in New /\ Deleted(object[sInstance]) \in Object /\ ~Deleted(object[sInstance]).mWindow
      BY <2>2 DEF HwcTypeOK, Deleted, Object
    <3>2. \A o \in New \ {sInstance} : ~object[o].mWindow
      BY DEF HwcReady
    <3> QED BY <1>1, <2>2, <3>1, <3>2 DEF HwcTypeOK
  <2> QED BY <2>1, <2>2
<1>4. HwcTypeOK'
  BY <1>1, <1>3 DEF HwcTypeOK, Others
<1>5. HwcReady'
  BY <1>1, <1>2, <1>3 DEF HwcReady
<1>6. HeldIsLive'
  BY <1>1 DEF HeldIsLive, Others, HwcTypeOK
<1> QED BY <1>4, <1>5, <1>6

LEMMA HwcStep ==
  ASSUME HwcInv, up \in BOOLEAN, HwcNext PROVE HwcInv'
<1>1. CASE \E u \in User : Opens(u)
  BY <1>1, OpensStep
<1>2. CASE \E u \in User : Closes(u)
  BY <1>2, ClosesStep
<1>3. CASE \E u \in User : Call(u)
  BY <1>3 DEF Call, hwcVars, HwcInv, HwcTypeOK, HwcReady, HeldIsLive
<1>4. ASSUME NEW u \in User, NEW procs \in BOOLEAN, RegisterProcs(u, procs) PROVE HwcInv'
  <2>1. UNCHANGED <<sInstance, held, cut>> /\ object' \in [New -> Object]
        /\ \A o \in New : /\ object'[o].state = object[o].state
                         /\ object'[o].mWindow = object[o].mWindow
                         /\ object'[o].mInitialized = object[o].mInitialized
    BY <1>4 DEF RegisterProcs, HwcInv, HwcTypeOK, Object
  <2>2. HwcTypeOK' /\ HwcReady'
    BY <2>1 DEF HwcInv, HwcTypeOK, HwcReady
  <2>3. HeldIsLive'
    BY <2>1 DEF HwcInv, HwcTypeOK, HeldIsLive
  <2> QED BY <2>2, <2>3 DEF HwcInv
<1> QED BY <1>1, <1>2, <1>3, <1>4 DEF HwcNext

-----------------------------------------------------------------------------
(* The theorems.                                                           *)

LEMMA InitHolds == Init => IInv
<1> SUFFICES ASSUME Init PROVE IInv
  OBVIOUS
<1> USE DEF Init, GrallocInit, HwcInit
<1>1. GrallocTypeOK
  <2>1. 0 \in Slot /\ 0 \in 0..MaxScreens
    BY GrallocAssumption DEF Slot
  <2>2. module \in Module
    BY <2>1 DEF Module
  <2> QED BY <2>1, <2>2 DEF GrallocTypeOK, Buffer, NoBuffer
<1>2. \A h \in Handle : handle[h].kind = "none"
  BY DEF NoBuffer
<1>3. SlotsExclusive /\ BaseIsMapped /\ ScreenShowsCurrent /\ FramebufferKnown /\ PostsKnown
  BY <1>2 DEF SlotsExclusive, BaseIsMapped, Regular, ScreenShowsCurrent, FramebufferKnown,
       PostsKnown, Posting
<1>4. None \notin New
  BY HwcomposerAssumption DEF New
<1>5. HwcTypeOK /\ HwcReady /\ HeldIsLive
  BY <1>4 DEF HwcTypeOK, Object, HwcReady, HeldIsLive
<1> QED BY <1>1, <1>3, <1>5 DEF IInv, GrallocInv, HwcInv

LEMMA StepHolds == IInv /\ [Next]_graphicsVars => IInv'
<1> SUFFICES ASSUME IInv, [Next]_graphicsVars PROVE IInv'
  OBVIOUS
<1>1. ASSUME UNCHANGED grallocVars, up' \in BOOLEAN PROVE GrallocInv'
  BY <1>1, AsideKeeps DEF grallocVars, IInv, GrallocInv, GrallocTypeOK
<1>2. CASE GrallocNext /\ UNCHANGED hwcVars
  <2>1. HwcInv'
    BY <1>2 DEF hwcVars, IInv, HwcInv, HwcTypeOK, HwcReady, HeldIsLive
  <2> QED BY <1>2, <2>1, GrallocStep DEF IInv
<1>3. CASE HwcNext /\ UNCHANGED grallocVars
  <2>1. HwcInv'
    BY <1>3, HwcStep DEF IInv, GrallocInv, GrallocTypeOK
  <2>2. up' \in BOOLEAN
    BY <1>3 DEF HwcNext, Opens, Open, Closes, Call, Outcomes, RegisterProcs, IInv, GrallocInv, GrallocTypeOK
  <2> QED BY <1>1, <1>3, <2>1, <2>2 DEF IInv
<1>4. CASE UNCHANGED graphicsVars
  <2>1. up' \in BOOLEAN /\ UNCHANGED grallocVars /\ UNCHANGED hwcVars
    BY <1>4 DEF graphicsVars, IInv, GrallocInv, GrallocTypeOK
  <2>2. HwcInv'
    BY <2>1 DEF hwcVars, IInv, HwcInv, HwcTypeOK, HwcReady, HeldIsLive
  <2> QED BY <1>1, <2>1, <2>2 DEF IInv
<1> QED BY <1>2, <1>3, <1>4 DEF Next

THEOREM GraphicsInvariant == Spec => []IInv
BY InitHolds, StepHolds, PTL DEF Spec

\* The variables have their types.
THEOREM GraphicsTypeCorrect == Spec => []GraphicsTypeOK
<1>1. IInv => GraphicsTypeOK
  BY DEF IInv, GrallocInv, HwcInv, GraphicsTypeOK
<1> QED BY <1>1, GraphicsInvariant, PTL

\* No screen of the framebuffer is handed out twice, or marked and lost.
THEOREM ScreensAreExclusive == Spec => []SlotsExclusive
<1>1. IInv => SlotsExclusive
  BY DEF IInv, GrallocInv
<1> QED BY <1>1, GraphicsInvariant, PTL

\* A buffer's address is that of a mapping of its own.
THEOREM BasesAreMapped == Spec => []BaseIsMapped
<1>1. IInv => BaseIsMapped
  BY DEF IInv, GrallocInv
<1> QED BY <1>1, GraphicsInvariant, PTL

\* What is shown was handed out, however posts overlap, and is the current
\* buffer again once a post has run alone.
THEOREM CurrentIsShown == Spec => []ScreenShowsCurrent
<1>1. IInv => ScreenShowsCurrent
  BY DEF IInv, GrallocInv
<1> QED BY <1>1, GraphicsInvariant, PTL

\* The composer's object is never met uninitialised or without its window.
THEOREM ComposerIsReady == Spec => []HwcReady
<1>1. IInv => HwcReady
  BY DEF IInv, HwcInv
<1> QED BY <1>1, GraphicsInvariant, PTL

\* A device is good until somebody closes one.
THEOREM DevicesStayLive == Spec => []HeldIsLive
<1>1. IInv => HeldIsLive
  BY DEF IInv, HwcInv
<1> QED BY <1>1, GraphicsInvariant, PTL

\* The framebuffer is mapped once.
THEOREM MappedOnce == Spec => FramebufferMappedOnce
<1> DEFINE Same == /\ module'.framebuffer /\ module'.base = module.base
                   /\ module'.numBuffers = module.numBuffers
                   /\ module.bufferMask \subseteq module'.bufferMask
<1>1. ASSUME IInv, [Next]_graphicsVars, module.framebuffer PROVE Same
  <2> USE <1>1 DEF IInv, GrallocInv
  <2>1. module \in Module
    BY DEF GrallocTypeOK
  <2>2. CASE UNCHANGED module
    BY <2>2
  <2>3. CASE OpenFramebuffer \/ \E h \in Handle : AllocFramebuffer(h)
    <3>1. PICK r \in MapFrameBufferLocked :
            module' \in {module, r.module, [r.module EXCEPT !.bufferMask = @ \cup {NextSlot(r.module)}]}
      BY <2>3, Zenon DEF OpenFramebuffer, AllocFramebuffer, Dies, grallocVars
    <3>2. r.module = module
      BY MapResult DEF Continues
    <3> QED BY <2>1, <3>1, <3>2 DEF Module
  <2>4. CASE \E t \in Poster : MakeCurrent(t) \/ Flip(t) \/ \E h \in Handle : AskFlip(t, h)
    BY <2>1, <2>4 DEF MakeCurrent, Flip, AskFlip, Module
  <2>5. CASE \E there \in BOOLEAN : SetWaylandClient(there)
    BY <2>1, <2>5 DEF SetWaylandClient, Module
  <2>6. CASE OpenGpu \/ (\E d \in open : Close(d)) \/ \E h \in Handle :
          Alloc(h) \/ Free(h) \/ RegisterBuffer(h) \/ UnregisterBuffer(h) \/ PostCopy(h)
    BY <2>2, <2>6 DEF OpenGpu, Close, Alloc, Free, RegisterBuffer, UnregisterBuffer, PostCopy, Dies,
         grallocVars
  <2>7. CASE GrallocNext
    BY <2>3, <2>4, <2>5, <2>6, <2>7 DEF GrallocNext
  <2> QED BY <2>2, <2>7 DEF Next, graphicsVars, grallocVars
<1>2. IInv /\ [Next]_graphicsVars => [module.framebuffer => Same]_grallocVars
  BY <1>1 DEF grallocVars
<1> QED BY <1>2, GraphicsInvariant, PTL DEF Spec, FramebufferMappedOnce
=============================================================================
