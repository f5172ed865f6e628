----------------------------- MODULE XrDisplay -----------------------------
(***************************************************************************)
(* The way of the head camera's image to the headset: TeleVuer of          *)
(* xr/televuer.py.  The image pump calls render_to_xr, a thread copies the *)
(* newest image into shared memory, and in the process of the Vuer server  *)
(* a coroutine for each connection of the headset shows it again and       *)
(* again.  With WebRTC the headset fetches the video itself, and in        *)
(* pass-through mode it shows none; the coroutine then only holds the      *)
(* stream of poses.  An image is a number, 0 the black of the start.       *)
(***************************************************************************)
EXTENDS Naturals

CONSTANTS DisplayModes,   \* the modes to consider
          MaxImages,      \* bound: images rendered
          MaxVisits       \* bound: connections of the headset

ASSUME DisplayAssumption ==
    /\ DisplayModes \subseteq {"zmq", "webrtc", "pass_through"}
    /\ MaxImages \in Nat \ {0} /\ MaxVisits \in Nat \ {0}

VARIABLES
    display_mode,
    latest_frame,     \* the image the pump gave last
    new_frame_event,
    renderer,         \* place of the thread: "wait", "clear", "read",
                      \* "write", "ended", or "none"
    rendering,        \* the image it holds
    img2display,      \* the shared memory
    visit,            \* number of the headset's connection
    connected,
    coroutines,       \* the connections whose coroutine still runs
    shown,             \* what the headset shows
    stop_writer,
    xrClosed          \* close(): "no", "joining", "closed"

picture    == <<latest_frame, new_frame_event>>
rendererVars == <<renderer, rendering, img2display>>
visitor    == <<visit, connected, coroutines, shown>>
displayVars == <<display_mode, latest_frame, new_frame_event, renderer,
                 rendering, img2display, visit, connected, coroutines, shown,
                 stop_writer, xrClosed>>

DisplayInit ==
    /\ display_mode \in DisplayModes
    /\ latest_frame = 0 /\ new_frame_event = FALSE
    /\ renderer = IF display_mode = "zmq" THEN "wait" ELSE "none"
    /\ rendering = 0 /\ img2display = 0
    /\ visit = 0 /\ connected = FALSE /\ coroutines = {} /\ shown = 0
    /\ stop_writer = FALSE /\ xrClosed = "no"

-----------------------------------------------------------------------------
(* The thread of the session's process.                                     *)

\* render_to_xr: ignored, with a warning, unless the thread shows it.
render_to_xr ==
    /\ xrClosed = "no" /\ latest_frame < MaxImages
    /\ display_mode = "zmq"
    /\ latest_frame' = latest_frame + 1 /\ new_frame_event' = TRUE
    /\ UNCHANGED <<display_mode, rendererVars, visitor, stop_writer, xrClosed>>

\* The loop looks at its stop event and waits a tenth of a second for an
\* image.
RendererWaits ==
    /\ renderer = "wait"
    /\ renderer' = IF stop_writer THEN "ended"
                   ELSE IF new_frame_event THEN "clear" ELSE "wait"
    /\ UNCHANGED <<display_mode, picture, rendering, img2display, visitor,
                   stop_writer, xrClosed>>

\* The event is cleared before the image is read, so an image that comes
\* after the reading sets it again.
RendererClears ==
    /\ renderer = "clear" /\ renderer' = "read"
    /\ new_frame_event' = FALSE
    /\ UNCHANGED <<display_mode, latest_frame, rendering, img2display,
                   visitor, stop_writer, xrClosed>>

RendererReads ==
    /\ renderer = "read"
    /\ rendering' = latest_frame
    /\ renderer' = IF latest_frame = 0 THEN "wait" ELSE "write"
    /\ UNCHANGED <<display_mode, picture, img2display, visitor, stop_writer,
                   xrClosed>>

\* Mutant: the event is cleared when the image has been shown.
RendererWritesAndClears ==
    /\ renderer = "write" /\ renderer' = "wait"
    /\ img2display' = rendering /\ new_frame_event' = FALSE
    /\ UNCHANGED <<display_mode, latest_frame, rendering, visitor, stop_writer,
                   xrClosed>>

RendererWrites ==
    /\ renderer = "write" /\ renderer' = "wait"
    /\ img2display' = rendering
    /\ UNCHANGED <<display_mode, picture, rendering, visitor, stop_writer,
                   xrClosed>>

\* An image of another shape than the configured one does not fit: the
\* thread is gone, and nobody looks for it.
RendererFails ==
    /\ renderer = "write" /\ renderer' = "ended"
    /\ UNCHANGED <<display_mode, picture, rendering, img2display, visitor,
                   stop_writer, xrClosed>>

-----------------------------------------------------------------------------
(* The coroutines of the Vuer process: main_image_* and main_pass_through.  *)

HeadsetConnects ==
    /\ xrClosed = "no" /\ ~connected /\ visit < MaxVisits
    /\ visit' = visit + 1 /\ connected' = TRUE
    /\ coroutines' = coroutines \cup {visit'}
    /\ shown' = 0
    /\ UNCHANGED <<display_mode, picture, rendererVars, stop_writer, xrClosed>>

HeadsetLeaves ==
    /\ connected /\ connected' = FALSE
    /\ UNCHANGED <<display_mode, picture, rendererVars, visit, coroutines,
                   shown, stop_writer, xrClosed>>

Live(c) == connected /\ c = visit

\* A turn of a coroutine that shows images: the upsert of a connection that
\* is gone ends it, quietly in monocular mode and with an assertion in the
\* others.
main_image_zmq(c) ==
    /\ display_mode = "zmq" /\ c \in coroutines
    /\ IF Live(c) THEN shown' = img2display /\ UNCHANGED coroutines
                  ELSE coroutines' = coroutines \ {c} /\ UNCHANGED shown
    /\ UNCHANGED <<display_mode, picture, rendererVars, visit, connected,
                   stop_writer, xrClosed>>

\* The same with the plane of the WebRTC video, which needs no image.
main_image_webrtc(c) ==
    /\ display_mode = "webrtc" /\ c \in coroutines /\ ~Live(c)
    /\ coroutines' = coroutines \ {c}
    /\ UNCHANGED <<display_mode, picture, rendererVars, visit, connected,
                   shown, stop_writer, xrClosed>>

\* main_pass_through only sleeps in its loop: it does not find out that its
\* connection is gone, and there is no action for it.

-----------------------------------------------------------------------------
(* close.                                                                   *)

XrClose ==
    /\ xrClosed = "no" /\ xrClosed' = "joining"
    /\ connected' = FALSE /\ coroutines' = {}
    /\ IF display_mode = "zmq"
       THEN stop_writer' = TRUE /\ new_frame_event' = TRUE
       ELSE UNCHANGED <<stop_writer, new_frame_event>>
    /\ UNCHANGED <<display_mode, latest_frame, rendererVars, visit, shown>>

\* The join has its half second; then the memory is released.
XrCloseEnds ==
    /\ xrClosed = "joining" /\ xrClosed' = "closed"
    /\ UNCHANGED <<display_mode, picture, rendererVars, visitor, stop_writer>>

-----------------------------------------------------------------------------
Renderer == RendererWaits \/ RendererClears \/ RendererReads \/ RendererWrites
Coroutine(c) == main_image_zmq(c) \/ main_image_webrtc(c)

DisplayNext ==
    \/ render_to_xr \/ Renderer \/ RendererFails
    \/ HeadsetConnects \/ HeadsetLeaves
    \/ \E c \in 1 .. MaxVisits : Coroutine(c)
    \/ XrClose \/ XrCloseEnds

\* The thread and the coroutines run.
DisplayFairness ==
    /\ WF_displayVars(Renderer)
    /\ \A c \in 1 .. MaxVisits : WF_displayVars(Coroutine(c))

DisplaySpec == DisplayInit /\ [][DisplayNext]_displayVars /\ DisplayFairness

-----------------------------------------------------------------------------
(* When the camera stands still on an image, a headset that is connected    *)
(* shows it, also one that has come back and one whose image came while     *)
(* the thread was at work on the image before.                              *)
LastImageSeen ==
    latest_frame = MaxImages /\ connected
        ~> shown = MaxImages \/ ~connected \/ renderer = "ended"
=============================================================================
