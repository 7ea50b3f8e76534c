------------------------------- MODULE FvgGuest -------------------------------
(***************************************************************************)
(* The guest's side of an end-to-end run, one call at a time: fvg_init     *)
(* builds the display list, fvg_frame replays it on femtovg's canvas and   *)
(* flushes, and the fvg imports read the guest's linear memory through one *)
(* of the seven runtime bindings into the host's buffers and images.       *)
(* FemtovgE2e models the driver around it; here the driver only makes its  *)
(* calls in order and gives up where run_e2e_on_this_thread does.          *)
(*                                                                         *)
(* femtovg (the canvas and the replayer) is not in the repository: the     *)
(* canvas keeps a stack of states and may allocate, fill and delete images *)
(* whenever it draws; the replayer may refuse an image.                    *)
(***************************************************************************)
EXTENDS DisplayList

CONSTANTS
    Count,     \* frames of a pass
    Calls,     \* bound: fvg_frame calls of a run
    Handles,   \* image handles the replayer may hand out
    Pixels,    \* image contents
    Pages,     \* bound: pages of linear memory
    HighPage,  \* the page at 2 GiB: an address from here on is a negative i32
    Garbage    \* what lies where linear memory used to be

ASSUME CountAssumption == Count \in Nat \ {0}
ASSUME PagesAssumption == {Pages, HighPage} \subseteq Nat

VARIABLES
    pc,             \* where the run stands
    rt,             \* the runtime
    MEMORY,         \* zwasm's thread-local; "null" if the export was not found
    mem,            \* linear memory: how many pages, and where it lies
    State,          \* the guest's scene: its number and its display list
    LAST_COMMANDS,  \* the guest's static
    call,           \* fvg_frame calls made
    at,             \* the next item of the display list
    stack,          \* the canvas: its states, the current one last
    ops,            \* the canvas: what it recorded since the last flush
    known,          \* the canvas: what it takes its images to hold
    images,         \* the replayer: what they hold
    host,           \* HostState: the buffers of the last flush it took
    ret,            \* what the guest's last call returned
    spans           \* the pages the last flush's two vectors lay in
canvas == <<at, stack, ops>>
vars == <<pc, rt, MEMORY, mem, walk, State, LAST_COMMANDS, canvas, call, known, images, host,
          ret, spans>>

Runtimes == {"Pulley", "Wamr", "Wasm3", "WasmEdge", "Zwasm", "Wasmz", "Tinywasm"}
Formats == {"Rgb8", "Rgba8", "Gray8"}

\* A state of the canvas; the default one has no transform and no clips.
Default == [zoom |-> -1, clips |-> <<>>]
Top == stack[Len(stack)]
NoScene == [scene |-> 0, items |-> <<>>]
NoFrame == [verts |-> {}, commands |-> {}, rendered |-> FALSE]

Init ==
    /\ pc = "loaded"
    /\ rt \in Runtimes
    /\ MEMORY \in IF rt = "Zwasm" THEN {"null", "handle"} ELSE {"null"}
    /\ mem = [pages |-> 1, base |-> 0]
    /\ scene = 0 /\ node = 1 /\ walking = <<>> /\ items = <<>>
    /\ State = NoScene /\ LAST_COMMANDS = 0
    /\ call = 0 /\ at = 1 /\ stack = <<Default>> /\ ops = <<>>
    /\ known = [h \in {} |-> None] /\ images = [h \in {} |-> None]
    /\ host = NoFrame
    /\ ret = 0 /\ spans = <<>>

-----------------------------------------------------------------------------
(* The bindings. *)

\* A raw wasm3 call finds its result's slot before its arguments; the other
\* runtimes pass the arguments alone.
Slots(f, args) ==
    IF rt = "Wasm3" /\ f \in {"image_alloc", "image_update"}
    THEN <<0>> \o args ELSE args

\* The slot a binding takes as the first argument.
FirstArg(f) == IF rt = "Wasm3" /\ f \in {"image_alloc", "image_update"} THEN 1 ELSE 0

arg(f, args, i) == Slots(f, args)[FirstArg(f) + i + 1]

\* Where a callback takes linear memory to lie: each asks the runtime anew,
\* zwasm's through the handle, since growing moves it.
memory_Cached == 0
memory == mem.base

\* What a callback gets for the bytes at a page, if it takes them: it refuses a
\* negative address (guest_span, span), except tinywasm's, which reads it as
\* unsigned.
guest_span(data, page) ==
    CASE rt = "Zwasm" /\ MEMORY = "null" -> {}
      [] rt # "Tinywasm" /\ page >= HighPage -> {}
      [] OTHER -> {IF memory = mem.base THEN data ELSE Garbage}

\* Linear memory moves when it grows, as far as the host can tell.
Grow ==
    /\ pc \in {"load", "draw", "flush"}
    /\ mem.pages < Pages
    /\ mem' = [pages |-> mem.pages + 1, base |-> mem.base + 1]
    /\ UNCHANGED <<pc, rt, MEMORY, walk, State, LAST_COMMANDS, canvas, call, known, images,
                   host, ret, spans>>

-----------------------------------------------------------------------------
(* fvg_init. *)

\* load_scene(scene).
fvg_init(s) ==
    /\ pc = "loaded"
    /\ IF s \in DOMAIN SCENES
       THEN StartWalk(s) /\ pc' = "load" /\ UNCHANGED ret
       ELSE ret' = -1 /\ pc' = "failed" /\ UNCHANGED walk
    /\ UNCHANGED <<rt, MEMORY, mem, State, LAST_COMMANDS, canvas, call, known, images, host,
                   spans>>

LoadScene ==
    /\ pc = "load"
    /\ Walk
    /\ UNCHANGED <<pc, rt, MEMORY, mem, State, LAST_COMMANDS, canvas, call, known, images,
                   host, ret, spans>>

\* Canvas::new, which may fail, canvas.set_size, State.
SetState(canvasOk) ==
    /\ pc = "load" /\ Walked
    /\ IF canvasOk
       THEN /\ State' = [scene |-> scene, items |-> items]
            /\ ret' = paths(items)
            /\ pc' = "ready"
       ELSE ret' = -2 /\ pc' = "failed" /\ UNCHANGED State
    /\ items' = <<>>
    /\ UNCHANGED <<rt, MEMORY, mem, scene, node, walking, LAST_COMMANDS, canvas, call, known,
                   images, host, spans>>

-----------------------------------------------------------------------------
(* fvg_frame: draw_frame, one item of the list at a time. *)

\* The exponent of 16, in steps of 1/(count - 1): up to the middle and back.
zoom(index, count) ==
    IF count > 1
    THEN LET d == 2 * index - (count - 1)
         IN  (count - 1) - (IF d < 0 THEN -d ELSE d)
    ELSE 0

\* canvas.reset resets the current state and leaves the stack alone.
Fresh == [stack EXCEPT ![Len(stack)] = Default]
Saved(s) == Append(s, s[Len(s)])

\* The driver clears rendered and calls; reset, clear_rect, save, the transform.
fvg_frame ==
    /\ pc = "ready" /\ call < Calls
    /\ host' = [host EXCEPT !.rendered = FALSE]
    /\ call' = call + 1
    /\ at' = 1
    /\ stack' = Append(Fresh, [Default EXCEPT !.zoom = zoom(call % Count, Count)])
    /\ ops' = <<Clear>>
    /\ pc' = "draw"
    /\ UNCHANGED <<rt, MEMORY, mem, walk, State, LAST_COMMANDS, known, images, ret, spans>>

Current == State.items[at]
Op(op, painted) ==
    [i \in 1..Len(painted) |->
        [op |-> op, path |-> Current.path, alpha |-> painted[i], clips |-> Top.clips,
         zoom |-> Top.zoom]]

Step(item) ==
    /\ pc = "draw"
    /\ at <= Len(State.items)
    /\ Current.item = item
    /\ at' = at + 1
    /\ UNCHANGED <<pc, rt, MEMORY, mem, walk, State, LAST_COMMANDS, call, known, images, host,
                   ret, spans>>

DrawItem ==
    /\ Step("draw")
    /\ ops' = ops \o Op("fill", Current.fill) \o Op("stroke", Current.stroke)
    /\ UNCHANGED stack

\* save, then clip_path, which intersects with the clips that are there.
ClipItem ==
    /\ Step("clip")
    /\ LET s == Saved(stack)
       IN  stack' = [s EXCEPT ![Len(s)].clips =
                        Append(@, Shape(Current))]
    /\ UNCHANGED ops

\* Restoring the only state resets it.
Restored(s) == IF Len(s) > 1 THEN SubSeq(s, 1, Len(s) - 1) ELSE Fresh

RestoreItem ==
    /\ Step("restore")
    /\ stack' = Restored(stack)
    /\ UNCHANGED ops

\* The last restore of draw_frame.
LastRestore == Restored(stack)
EndItems ==
    /\ pc = "draw" /\ at > Len(State.items)
    /\ stack' = LastRestore
    /\ pc' = "flush"
    /\ UNCHANGED <<rt, MEMORY, mem, walk, State, LAST_COMMANDS, at, ops, call, known, images,
                   host, ret, spans>>

-----------------------------------------------------------------------------
(* The image imports, called by the canvas as it draws. *)

format_code(f) == CASE f = "Rgb8" -> 0 [] f = "Rgba8" -> 1 [] f = "Gray8" -> 2
pixel_format(code) ==
    CASE code = 0 -> {"Rgb8"} [] code = 1 -> {"Rgba8"} [] code = 2 -> {"Gray8"} [] OTHER -> {}

\* Arguments that pass through untouched.
X == 9
Y == 9
Width == 8
Height == 8
Flags == 7

Drawing ==
    /\ pc = "draw"
    /\ UNCHANGED <<pc, rt, MEMORY, mem, walk, State, LAST_COMMANDS, canvas, call, host, ret, spans>>

\* A handle the replayer hands out, or a negative result: nothing is allocated.
ImageAlloc(h, f) ==
    /\ Drawing
    /\ h \notin DOMAIN images
    /\ \E format \in pixel_format(arg("image_alloc", <<Width, Height, format_code(f), Flags>>, 2)) :
          images' = [i \in DOMAIN images \cup {h} |->
                        IF i = h THEN [format |-> format, data |-> "empty"] ELSE images[i]]
    /\ known' = [i \in DOMAIN known \cup {h} |->
                    IF i = h THEN [format |-> f, data |-> "empty"] ELSE known[i]]

\* The canvas learns that the update failed; the handle stays.
ImageUpdate(h, data, page) ==
    /\ Drawing
    /\ h \in DOMAIN known
    /\ LET args == <<h, X, Y, Width, Height, format_code(known[h].format), page, 1>>
           a(i) == arg("image_update", args, i)
       IN  \/ /\ pixel_format(a(5)) # {} /\ a(0) \in DOMAIN images
              /\ \E bytes \in guest_span(IF a(6) = page THEN data ELSE Garbage, a(6)) :
                    images' = [images EXCEPT ![a(0)].data = bytes]
              /\ known' = [known EXCEPT ![h].data = data]
           \/ UNCHANGED images /\ known' = [known EXCEPT ![h].data = "unknown"]

ImageDelete(h) ==
    /\ Drawing
    /\ h \in DOMAIN known
    /\ LET d == arg("image_delete", <<h>>, 0)
       IN  images' = [i \in DOMAIN images \ {d} |-> images[i]]
    /\ known' = [i \in DOMAIN known \ {h} |-> known[i]]

-----------------------------------------------------------------------------
(* The flush. *)

Encoded == [verts |-> ops, commands |-> [n |-> Len(ops), ops |-> ops]]

\* render takes both spans or none, and its caller is not told.
host_render_Partly(v, c) ==
    [verts |-> IF v = {} THEN host.verts ELSE v,
     commands |-> IF c = {} THEN host.commands ELSE c, rendered |-> TRUE]
host_render(v, c) ==
    IF {} \in {v, c} THEN host
    ELSE [verts |-> v, commands |-> c, rendered |-> TRUE]

\* WireSink::render for a flush whose vectors lie in two pages of memory;
\* fvg_frame then returns LAST_COMMANDS.
Flush(pv, pk) ==
    /\ pc = "flush"
    /\ LAST_COMMANDS' = Encoded.commands.n
    /\ host' = LET args == <<pv, Len(ops), pk, Len(ops)>>
               IN  host_render(guest_span(Encoded.verts, arg("render", args, 0)),
                               guest_span(Encoded.commands, arg("render", args, 2)))
    /\ spans' = <<pv, pk>>
    /\ ret' = LAST_COMMANDS'
    /\ pc' = "returned"
    /\ UNCHANGED <<rt, MEMORY, mem, walk, State, canvas, call, known, images>>

\* The driver gives up on a frame that was not rendered.
Return ==
    /\ pc = "returned"
    /\ pc' = IF ret < 0 \/ ~host.rendered THEN "failed" ELSE "ready"
    /\ UNCHANGED <<rt, MEMORY, mem, walk, State, LAST_COMMANDS, canvas, call, known, images, host,
                   ret, spans>>

Finished ==
    /\ pc = "failed" \/ (pc = "ready" /\ call = Calls)
    /\ UNCHANGED vars

Images ==
    \E h \in Handles :
        \/ \E f \in Formats : ImageAlloc(h, f)
        \/ \E d \in Pixels, p \in 0..(mem.pages - 1) : ImageUpdate(h, d, p)
        \/ ImageDelete(h)

Next ==
    \/ \E s \in 1..(Len(SCENES) + 1) : fvg_init(s)
    \/ LoadScene
    \/ \E canvasOk \in BOOLEAN : SetState(canvasOk)
    \/ fvg_frame \/ DrawItem \/ ClipItem \/ RestoreItem \/ EndItems
    \/ Grow \/ Images
    \/ \E pv, pk \in 0..(mem.pages - 1) : Flush(pv, pk)
    \/ Return \/ Finished

Spec == Init /\ [][Next]_vars

-----------------------------------------------------------------------------
\* Each frame is the scene: after draw_frame the canvas has recorded every
\* visible path in document order, under the opacities and inside the clips of
\* its own groups and at the frame's zoom, as many paths as fvg_init said; and
\* it stands as it did before, so that no frame draws into the next.
FrameIsTheScene ==
    pc = "flush" =>
        LET doc == SCENES[State.scene]
        IN  /\ stack = <<Default>>
            /\ ops = PictureOf(doc, zoom((call - 1) % Count, Count))
            /\ paths(State.items) = Cardinality(InPicture(doc))

\* What the host has after fvg_frame is what the guest flushed, vertices and
\* commands of one flush, and the count returned is theirs, on every runtime
\* and wherever linear memory has moved to; it is missing only where a vector
\* lay above 2 GiB or zwasm found no memory (fvg.render in each binding).
HostHasTheFrame ==
    pc = "returned" =>
        /\ host.rendered => host.verts = {Encoded.verts} /\ host.commands = {Encoded.commands}
        /\ host.rendered => \A c \in host.commands : ret = c.n
        /\ (rt = "Tinywasm" \/ \A i \in {1, 2} : spans[i] < HighPage) /\ (rt = "Zwasm" => MEMORY # "null")
              => host.rendered

\* The canvas and the replayer have the same images, of the same formats, and
\* with the contents the canvas was told had arrived (fvg.image_alloc,
\* image_update and image_delete in each binding).
ImagesAgree ==
    /\ DOMAIN known = DOMAIN images
    /\ \A h \in DOMAIN known :
        /\ known[h].format = images[h].format
        /\ known[h].data # "unknown" => images[h].data = known[h].data
=============================================================================
