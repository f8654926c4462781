------------------------------ MODULE Gralloc -------------------------------
(***************************************************************************)
(* The graphics memory allocator of the old Shashlik (gralloc.cpp,         *)
(* framebuffer.cpp, mapper.cpp, bufferhandler.c) in one process: the       *)
(* framebuffer, which is mapped when it is first needed and handed out in  *)
(* screens, and the buffers shared with the Wayland compositor.            *)
(*                                                                         *)
(* Of memory, the addresses are modelled that mmap hands out and munmap    *)
(* takes back; pixels, sizes and file descriptors are not.  Mapping the    *)
(* framebuffer and handing out its screens is done under the module's lock *)
(* and is one step.  fb_post takes no lock: several threads may be between *)
(* its steps.  A word of memory is written at once, also where the threads *)
(* race, and so is what the driver shows.                                  *)
(***************************************************************************)
EXTENDS HalProcess

CONSTANTS Handle,     \* where a private_handle_t may be
          Address,    \* where a mapping may be
          Poster,     \* threads that post
          MaxScreens  \* the most screens a driver reports

\* NUM_BUFFERS screens are asked for; a driver may have fewer or more.
Slot == 0..(MaxScreens - 1)

Fault == {"probe", "pan", "flip", "map", "file", "buffer"}

\* A post between its steps.  alone: no other was under way at any time.
Post == [buffer : Handle, step : {"flip", "current"}, alone : BOOLEAN]

ASSUME GrallocAssumption ==
  /\ None \notin Handle /\ None \notin Address /\ None \notin Post
  /\ IsFiniteSet(Address)
  /\ MaxScreens \in Nat \ {0}

VARIABLES
  module,   \* private_module_t
  handle,   \* the private_handle_t there are
  open,     \* the devices that are open
  used,     \* addresses that are mapped
  screen,   \* the slot the hardware shows
  posting,  \* how far each thread is in fb_post
  torn      \* posts have overlapped, and none ran alone since (history)

posts == <<posting, torn>>
grallocVars == <<module, handle, open, used, screen, posts>>

\* framebuffer says whether there is a handle for it, base where it is mapped
\* (None if that failed), yoffset the slot the driver was last asked to show.
Module == [framebuffer : BOOLEAN, base : Address \cup {None}, pageFlip : BOOLEAN,
           numBuffers : 0..MaxScreens, bufferMask : SUBSET Slot, currentBuffer : Handle \cup {None},
           yoffset : Slot, waylandClient : BOOLEAN]

\* A buffer with a pool is "shm"; the others have none.  The address of a
\* screen of the framebuffer is known by its slot.
Buffer == [kind : {"none", "framebuffer", "ashmem", "shm"}, slot : Slot, base : Address \cup {None}]
NoBuffer == [kind |-> "none", slot |-> 0, base |-> None]

\* HAL_MODULE_INFO_SYM.
GrallocInit ==
  /\ module = [framebuffer |-> FALSE, base |-> None, pageFlip |-> FALSE, numBuffers |-> 0,
               bufferMask |-> {}, currentBuffer |-> None, yoffset |-> 0, waylandClient |-> FALSE]
  /\ handle = [h \in Handle |-> NoBuffer]
  /\ open = {}
  /\ used = {}
  /\ screen = 0
  /\ posting = [t \in Poster |-> None]
  /\ torn = FALSE

Regular(h) == handle[h].kind \in {"ashmem", "shm"}

\* What mmap may return when inUse is mapped: None for MAP_FAILED.
Mmap(inUse) ==
  (Address \ inUse) \cup (IF "map" \in Faults \/ Address \subseteq inUse THEN {None} ELSE {})

-----------------------------------------------------------------------------
(* framebuffer.cpp                                                         *)

\* What the framebuffer device says of itself, from open to smem_len: how
\* many screens it has, and, by pan, whether it took the request for two.
\* Flipping is off if it did not take it or still has one.
Pan == IF "pan" \in Faults THEN {TRUE, FALSE} ELSE {TRUE}
Screens(n, pan) == [screens |-> n, pageFlip |-> pan /\ n >= 2, shown |-> IF pan THEN 0 ELSE screen]
Probed == {Screens(n, pan) : n \in 1..MaxScreens, pan \in Pan}

\* With the module left as it is: an error, or no error if errno was 0 when
\* the device said it has no memory.
Unmapped(err) == [module |-> module, err |-> err, taken |-> {}, screen |-> screen]
NotProbed == IF "probe" \in Faults THEN {Unmapped(TRUE), Unmapped(FALSE)} ELSE {}

\* The handle is there before mmap is tried, and stays if that fails.
Mapped(a, d) ==
  [module |-> [module EXCEPT !.framebuffer = TRUE, !.base = a, !.pageFlip = d.pageFlip,
                             !.numBuffers = d.screens, !.bufferMask = {}, !.yoffset = 0],
   err |-> a = None, taken |-> {a} \ {None}, screen |-> d.shown]

\* Every way the mapping may go: the module afterwards, the value returned
\* (whether it is negative), the address taken.
Mapping == NotProbed \cup {Mapped(a, d) : a \in Mmap(used), d \in Probed}

\* A mutant maps it whenever it is asked to.
MutMapFrameBufferLocked == Mapping

MapFrameBufferLocked ==
  IF module.framebuffer THEN {Unmapped(FALSE)} ELSE Mapping

Dies == up' = FALSE /\ UNCHANGED grallocVars

\* fb_device_open: without the framebuffer there is a division by the depth
\* of the screen, which is 0.
OpenFramebuffer ==
  \E r \in MapFrameBufferLocked :
    IF ~r.err /\ ~r.module.framebuffer THEN Dies
    ELSE /\ module' = r.module
         /\ used' = used \cup r.taken
         /\ screen' = r.screen
         /\ open' = IF r.err THEN open ELSE open \cup {"fb0"}
         /\ UNCHANGED <<handle, posts, up>>

Posting == {t \in Poster : posting[t] # None}

\* fb_post of a screen writes its offset to what all posts share.
AskFlip(t, h) ==
  /\ "fb0" \in open
  /\ posting[t] = None
  /\ handle[h].kind = "framebuffer"
  /\ module' = [module EXCEPT !.yoffset = handle[h].slot]
  /\ posting' = [p \in Poster |->
       IF p = t THEN [buffer |-> h, step |-> "flip", alone |-> Posting = {}]
       ELSE IF p \in Posting THEN [posting[p] EXCEPT !.alone = FALSE]
       ELSE None]
  /\ torn' = (torn \/ Posting # {})
  /\ UNCHANGED <<handle, open, used, screen, up>>

AtStep(t, step) == t \in Posting /\ posting[t].step = step

\* A mutant goes on when the driver refused.
MutFlip(t) ==
  /\ AtStep(t, "flip")
  /\ \/ screen' = module.yoffset
     \/ "flip" \in Faults /\ screen' = screen
  /\ posting' = [posting EXCEPT ![t].step = "current"]
  /\ UNCHANGED <<module, handle, open, used, torn, up>>

\* The driver shows what it finds there, whoever wrote it, or refuses, which
\* ends the post.
Flip(t) ==
  /\ AtStep(t, "flip")
  /\ \/ /\ screen' = module.yoffset
        /\ posting' = [posting EXCEPT ![t].step = "current"]
     \/ /\ "flip" \in Faults
        /\ screen' = screen
        /\ posting' = [posting EXCEPT ![t] = None]
  /\ UNCHANGED <<module, handle, open, used, torn, up>>

MakeCurrent(t) ==
  /\ AtStep(t, "current")
  /\ module' = [module EXCEPT !.currentBuffer = posting[t].buffer]
  /\ posting' = [posting EXCEPT ![t] = None]
  /\ torn' = (torn /\ ~posting[t].alone)
  /\ UNCHANGED <<handle, open, used, screen, up>>

\* gralloc_lock, for the buffers with a mapping of their own.
Lock(h) == handle[h].base

\* fb_post of another buffer: it is copied to the first screen, from and to
\* wherever lock says.
PostCopy(h) ==
  /\ "fb0" \in open
  /\ Regular(h)
  /\ IF module.base = None \/ Lock(h) = None THEN up' = FALSE ELSE up' = up
  /\ UNCHANGED grallocVars

-----------------------------------------------------------------------------
(* mapper.cpp                                                              *)

\* gralloc_map, for a buffer that is not the framebuffer's and is to be at
\* a: the mapping it had is forgotten.
Map(h, b, a, inUse) ==
  /\ handle' = [handle EXCEPT ![h] = [b EXCEPT !.base = a]]
  /\ used' = inUse \cup {a}

\* A mutant leaves the address in the handle.
MutUnmap(b) == b

\* gralloc_unmap: what becomes of the handle.
Unmap(b) == [b EXCEPT !.base = None]

\* gralloc_register_buffer.  A screen of the framebuffer stays as it is.
RegisterBuffer(h) ==
  /\ Regular(h)
  /\ \E a \in Mmap(used) \ {None} : Map(h, handle[h], a, used)
  /\ UNCHANGED <<module, open, screen, posts, up>>

\* gralloc_unregister_buffer, for buffers that can have been registered.
UnregisterBuffer(h) ==
  /\ Regular(h)
  /\ handle[h].base # None
  /\ used' = used \ {handle[h].base}
  /\ handle' = [handle EXCEPT ![h] = Unmap(@)]
  /\ UNCHANGED <<module, open, screen, posts, up>>

-----------------------------------------------------------------------------
(* gralloc.cpp                                                             *)

\* gralloc_device_open and gralloc_close; fb_close.
OpenGpu == open' = open \cup {"gpu0"} /\ UNCHANGED <<module, handle, used, screen, posts, up>>
Close(d) == d \in open /\ open' = open \ {d} /\ UNCHANGED <<module, handle, used, screen, posts, up>>

SetWaylandClient(there) ==
  /\ "gpu0" \in open
  /\ module' = [module EXCEPT !.waylandClient = there]
  /\ UNCHANGED <<handle, open, used, screen, posts, up>>

\* The screens that are not handed out, and the one that is next.
FreeSlots(m) == {i \in Slot : i < m.numBuffers} \ m.bufferMask

\* A mutant does not stop at the slot it finds.
MutNextSlot(m) == m.numBuffers
NextSlot(m) == CHOOSE i \in FreeSlots(m) : \A j \in FreeSlots(m) : i <= j

\* gralloc_alloc_buffer, with ashmem and without a pool.
AllocBuffer(h, inUse) ==
  \/ /\ "file" \in Faults \/ None \in Mmap(inUse)
     /\ used' = inUse
     /\ UNCHANGED handle
  \/ \E a \in Mmap(inUse) \ {None} : Map(h, [NoBuffer EXCEPT !.kind = "ashmem"], a, inUse)

Screen(h, i) == handle' = [handle EXCEPT ![h] = [NoBuffer EXCEPT !.kind = "framebuffer", !.slot = i]]

\* A mutant does not note which screen it gave away.
MutAllocFramebuffer(h) ==
  /\ "gpu0" \in open
  /\ handle[h].kind = "none"
  /\ \E r \in MapFrameBufferLocked :
       /\ ~r.err /\ r.module.numBuffers # 1 /\ FreeSlots(r.module) # {}
       /\ module' = r.module
       /\ Screen(h, NextSlot(r.module))
       /\ used' = used \cup r.taken
       /\ screen' = r.screen
  /\ UNCHANGED <<open, posts, up>>

\* gralloc_alloc_framebuffer: the next screen, or a buffer of its own if
\* there is only one.
AllocFramebuffer(h) ==
  /\ "gpu0" \in open
  /\ handle[h].kind = "none"
  /\ \E r \in MapFrameBufferLocked : LET m == r.module  inUse == used \cup r.taken IN
       /\ screen' = r.screen
       /\ \/ /\ r.err \/ (m.numBuffers # 1 /\ FreeSlots(m) = {})
             /\ module' = m
             /\ used' = inUse
             /\ UNCHANGED handle
          \/ /\ ~r.err /\ m.numBuffers = 1
             /\ module' = m
             /\ AllocBuffer(h, inUse)
          \/ /\ ~r.err /\ m.numBuffers # 1 /\ FreeSlots(m) # {}
             /\ module' = [m EXCEPT !.bufferMask = @ \cup {NextSlot(m)}]
             /\ Screen(h, NextSlot(m))
             /\ used' = inUse
  /\ UNCHANGED <<open, posts, up>>

\* os_create_anonymous_file: whether there can be a file, and whether there
\* need not be (no XDG_RUNTIME_DIR, mkstemp, fcntl, ftruncate).
AnonymousFile == IF "file" \in Faults THEN {TRUE, FALSE} ELSE {TRUE}

\* gralloc_alloc of any other buffer.  The file is mapped twice: the first
\* mapping, data, is never undone.  Without a Wayland client there is a call
\* through a null pointer.  A failure leaves the handle of the caller as it
\* was, whatever is returned.
Alloc(h) ==
  /\ "gpu0" \in open
  /\ handle[h].kind = "none"
  /\ \E file \in AnonymousFile, data \in Mmap(used) :
       IF ~file \/ data = None THEN UNCHANGED <<grallocVars, up>>
       ELSE IF ~module.waylandClient THEN Dies
       ELSE /\ \/ /\ "buffer" \in Faults \/ None \in Mmap(used \cup {data})
                  /\ used' = used \cup {data}
                  /\ UNCHANGED handle
               \/ \E a \in Mmap(used \cup {data}) \ {None} :
                    Map(h, [NoBuffer EXCEPT !.kind = "shm"], a, used \cup {data})
            /\ UNCHANGED <<module, open, screen, posts, up>>

\* gralloc_free: a buffer without a pool ends the process, in
\* wl_shm_pool_destroy.
Free(h) ==
  /\ "gpu0" \in open
  /\ handle[h].kind # "none"
  /\ IF handle[h].kind # "shm" THEN Dies
     ELSE /\ used' = used \ {handle[h].base}
          /\ handle' = [handle EXCEPT ![h] = NoBuffer]
          /\ UNCHANGED <<module, open, screen, posts, up>>

GrallocNext ==
  /\ up
  /\ \/ OpenGpu \/ OpenFramebuffer
     \/ \E d \in open : Close(d)
     \/ \E there \in BOOLEAN : SetWaylandClient(there)
     \/ \E h \in Handle :
          \/ AllocFramebuffer(h) \/ Alloc(h) \/ Free(h)
          \/ RegisterBuffer(h) \/ UnregisterBuffer(h)
          \/ PostCopy(h) \/ \E t \in Poster : AskFlip(t, h)
     \/ \E t \in Poster : Flip(t) \/ MakeCurrent(t)
-----------------------------------------------------------------------------
(* Properties.                                                             *)

GrallocTypeOK ==
  /\ module \in Module
  /\ handle \in [Handle -> Buffer]
  /\ open \subseteq {"gpu0", "fb0"}
  /\ used \subseteq Address
  /\ screen \in Slot
  /\ posting \in [Poster -> Post \cup {None}]
  /\ torn \in BOOLEAN
  /\ up \in BOOLEAN

\* No two handles stand for one screen of the framebuffer, and a screen is
\* marked as handed out exactly if there is a handle for it
\* (gralloc_alloc_framebuffer_locked; mapFrameBufferLocked, which clears the
\* marks).
SlotsExclusive ==
  LET Given == {h \in Handle : handle[h].kind = "framebuffer"} IN
    /\ \A g, h \in Given : handle[g].slot = handle[h].slot => g = h
    /\ module.bufferMask = {handle[h].slot : h \in Given}
    /\ \A i \in module.bufferMask : i < module.numBuffers

\* The address in a handle is that of a mapping there is, which is not the
\* framebuffer's and not another buffer's: gralloc_lock gives it to whoever
\* asks, and gralloc_unmap unmaps it (mapper.cpp).
BaseIsMapped ==
  \A h \in Handle : Regular(h) /\ Lock(h) # None =>
    /\ Lock(h) \in used \ {module.base}
    /\ \A g \in Handle \ {h} : Regular(g) => Lock(g) # Lock(h)

\* Once a screen was posted, the hardware shows one that was handed out,
\* however posts overlap; and the one the module takes for the current buffer
\* as soon as a post ran alone, whatever overlapping posts left behind and the
\* driver refused since (fb_post).
ScreenShowsCurrent ==
  module.currentBuffer # None =>
    /\ handle[module.currentBuffer].kind = "framebuffer"
    /\ screen \in module.bufferMask
    /\ Posting = {} /\ ~torn => handle[module.currentBuffer].slot = screen

\* "the framebuffer is mapped once and forever": its handle stays, at the
\* address and with the number of screens it was made with.
FramebufferMappedOnce ==
  [][module.framebuffer =>
       /\ module'.framebuffer
       /\ module'.base = module.base /\ module'.numBuffers = module.numBuffers
       /\ module.bufferMask \subseteq module'.bufferMask]_grallocVars
=============================================================================
