---------------------------- MODULE DebuggerTui ----------------------------
(***************************************************************************)
(* The interactive debugger: the model of brasa_tui/debugger.rs, the event *)
(* loop of brasa/debug_tui.rs and the wire between them and a session      *)
(* (brasa_tui/driver.rs).  The source shown is the entry file.             *)
(***************************************************************************)
EXTENDS DebugSession

CONSTANTS
  Entry,              \* the file shown
  MARGIN, VIEWPORT    \* keep_cursor_visible

ASSUME ViewAssumption ==
  Entry \in DOMAIN LineStarts /\ {MARGIN, VIEWPORT} \subseteq Nat \ {0} /\ MARGIN < VIEWPORT

VARIABLES
  run,                \* Debugger.run
  gutter, unbound,    \* lines shown with a breakpoint, bound or not
  current_line,       \* 0 for none
  cursor, scroll,
  panel,              \* the line of each frame, innermost last
  selected_frame,     \* from 0
  focus,              \* the panels that move differently: "Source" or "Frames"
  overlay,            \* help or an answer is shown until a key is pressed
  waiting             \* a command's answer has not been applied yet

view == <<cursor, scroll, selected_frame>>
tui == <<run, gutter, unbound, current_line, view, panel, focus, overlay, waiting>>

TuiInit ==
  /\ SessionInit
  /\ run = "Ready" /\ gutter = {} /\ unbound = {} /\ current_line = 0
  /\ cursor = 1 /\ scroll = 1 /\ panel = <<>> /\ selected_frame = 0
  /\ focus = "Source" /\ overlay = FALSE /\ waiting = FALSE

LastLine == Len(LineStarts[Entry])

\* Faulty variant: the lower margin is forgotten.
Visible_NoMargin(c, s) ==
  IF c < s + MARGIN THEN Max({c - MARGIN, 1})
  ELSE IF c > s + VIEWPORT THEN Max({c + MARGIN - VIEWPORT, 1}) ELSE s

\* keep_cursor_visible: the scroll position for a cursor.
Visible(c, s) ==
  IF c < s + MARGIN THEN Max({c - MARGIN, 1})
  ELSE IF c + MARGIN > s + VIEWPORT THEN Max({c + MARGIN - VIEWPORT, 1}) ELSE s

Shows(c) == cursor' = c /\ scroll' = Visible(c, scroll)

\* A key reaches its handler when nothing is running and nothing covers the view.
Key == ~running /\ ~waiting /\ ~overlay

Dismiss ==
  /\ ~running /\ ~waiting /\ overlay
  /\ overlay' = FALSE
  /\ UNCHANGED <<session, run, gutter, unbound, current_line, view, panel, focus, waiting>>

Covers ==
  /\ Key
  /\ overlay' = TRUE
  /\ UNCHANGED <<session, run, gutter, unbound, current_line, view, panel, focus, waiting>>

Tab ==
  /\ Key
  /\ focus' = IF focus = "Source" THEN "Frames" ELSE "Source"
  /\ UNCHANGED <<session, run, gutter, unbound, current_line, view, panel, overlay, waiting>>

\* move_cursor, select_frame: the list of frames is shown innermost first.
Move(down) ==
  /\ Key
  /\ IF focus = "Frames"
     THEN LET wanted == IF down THEN Max({selected_frame - 1, 0}) ELSE selected_frame + 1
              chosen == Min({wanted, Len(panel) - 1})
          IN  IF panel = <<>> THEN UNCHANGED view
              ELSE selected_frame' = chosen /\ Shows(panel[chosen + 1])
     ELSE /\ Shows(Max({1, Min({cursor + (IF down THEN 1 ELSE -1), LastLine})}))
          /\ UNCHANGED selected_frame
  /\ UNCHANGED <<session, run, gutter, unbound, current_line, panel, focus, overlay, waiting>>

\* Faulty variant: what was armed stays so.
ToggleBreakpoint_ForgetsToDisarm ==
  LET at == Bind(Entry, cursor)
  IN  /\ Key
      /\ IF cursor \in gutter \cup unbound
         THEN /\ gutter' = gutter \ {cursor} /\ unbound' = unbound \ {cursor}
              /\ UNCHANGED session
         ELSE IF at # <<>>
         THEN SetBreakpoint(at) /\ gutter' = gutter \cup {cursor} /\ UNCHANGED unbound
         ELSE unbound' = unbound \cup {cursor} /\ UNCHANGED <<session, gutter>>
      /\ UNCHANGED <<run, current_line, view, panel, focus, overlay, waiting>>

\* toggle_breakpoint of both modules.
ToggleBreakpoint ==
  LET at == Bind(Entry, cursor)
  IN  /\ Key
      /\ IF cursor \in gutter \cup unbound
         THEN /\ gutter' = gutter \ {cursor} /\ unbound' = unbound \ {cursor}
              /\ IF at # <<>> THEN ClearBreakpoint(at) ELSE UNCHANGED session
         ELSE IF at # <<>>
         THEN SetBreakpoint(at) /\ gutter' = gutter \cup {cursor} /\ UNCHANGED unbound
         ELSE unbound' = unbound \cup {cursor} /\ UNCHANGED <<session, gutter>>
      /\ UNCHANGED <<run, current_line, view, panel, focus, overlay, waiting>>

\* r, s, n and o, when can_run.
Command(kind) ==
  /\ Key /\ run \in {"Ready", "Paused"}
  /\ RunWith(kind)
  /\ waiting' = TRUE
  /\ UNCHANGED <<run, gutter, unbound, current_line, view, panel, focus, overlay>>

\* driver::apply, with stopped_at.  A frame parked behind its last instruction
\* shows that one (span_of).
Apply ==
  LET lines == [j \in DOMAIN frames |->
                  LineOf(SpanAt(<<frames[j].func, Min({frames[j].ip, Len(Code[frames[j].func])})>>))]
  IN  /\ waiting /\ ~running
      /\ waiting' = FALSE
      /\ IF finished
         THEN /\ run' = "Finished" /\ current_line' = 0 /\ panel' = <<>>
              /\ UNCHANGED view
         ELSE /\ run' = "Paused" /\ panel' = lines
              /\ current_line' = Last(lines)
              /\ selected_frame' = Max({Len(lines) - 1, 0})
              /\ Shows(Last(lines))
      /\ UNCHANGED <<session, gutter, unbound, focus, overlay>>

TuiNext ==
  \/ Dismiss \/ Covers \/ Tab
  \/ \E down \in BOOLEAN : Move(down)
  \/ ToggleBreakpoint
  \/ \E kind \in Kinds : Command(kind)
  \/ Apply
  \/ Loop /\ UNCHANGED tui

TuiSpec == TuiInit /\ [][TuiNext]_<<session, tui>>

-----------------------------------------------------------------------------
(* What the view promises.                                                   *)

\* Nothing stops the program where the gutter shows no breakpoint, and the
\* cursor, whose line the next toggle changes, is on screen.
ViewIsHonest ==
  /\ breakpoints \subseteq {Bind(Entry, l) : l \in gutter}
  /\ gutter \cap unbound = {}
  /\ scroll =< cursor /\ cursor < scroll + VIEWPORT
  /\ ~waiting => current_line = (IF run = "Paused" THEN Last(panel) ELSE 0)
  /\ panel # <<>> => selected_frame < Len(panel)
=============================================================================
