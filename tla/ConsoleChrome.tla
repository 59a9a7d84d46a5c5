----------------------------- MODULE ConsoleChrome -----------------------------
(***************************************************************************)
(* What opens over a screen of the console: the menu of a row, the dialog  *)
(* a suspension waits in and the command palette, each of which takes the  *)
(* focus and gives it back (overlay.tsx, command-palette.tsx).             *)
(*                                                                         *)
(* An effect of React runs before the next gesture; the clean-ups of a     *)
(* render run before its effects.  The rows and the screen may go at any   *)
(* time.  One menu is open at a time (a bound); Tab inside the palette,    *)
(* which catches no Tab, and the toasts are left out.                      *)
(***************************************************************************)
EXTENDS Integers, FiniteSets, Sequences, Ranking

CONSTANTS
    Rows, Listed,      \* the rows of the register; those whose menu has an action
    Items,             \* the commands, in order: [group, words, disabled]
    Queries            \* what is typed into the palette: sets of words

VARIABLES
    rows,      \* the rows on screen
    focus,     \* the element in focus
    menu, dialog,      \* open: whose row, or none; back: restoreTo
    palette,   \* open; back; query; active
    screen,    \* home: the route is the register; leaving: a command was chosen
    story      \* history: where the reader was, what excuses a loss, whether Tab led out

vars == <<rows, focus, menu, dialog, palette, screen, story>>

None == "none"
El(layer, stop) == [layer |-> layer, stop |-> stop]
OnPage(name) == [layer |-> "page", name |-> name]
Body == El("body", 0)
Header == OnPage("header")     \* the search button; it outlives the route
Main == OnPage("main")         \* any other element of the route
Trigger(r) == OnPage(r)

Closed == [open |-> None, back |-> Body]
Init ==
    /\ rows = Rows /\ focus = Main
    /\ menu = Closed /\ dialog = Closed
    /\ palette = [open |-> FALSE, back |-> Body, query |-> {}, active |-> 0]
    /\ screen = [home |-> TRUE, leaving |-> FALSE]
    /\ story = [origin |-> Main, excused |-> FALSE, escaped |-> FALSE]

-----------------------------------------------------------------------------
(* The elements Tab stops at; the container itself is none of them.        *)
StopsOf(layer, row) ==
    CASE layer = "menu" -> IF row \in Listed THEN 1 ELSE 0
      [] layer = "dialog" -> 3
      [] OTHER -> 0

(* querySelector(FOCUSABLE) ?? container *)
FirstOf(layer, row) == El(layer, IF StopsOf(layer, row) > 0 THEN 1 ELSE 0)

(* element.focus(), after a render that left these: nothing, if it is gone. *)
There(el, rs, m, d) ==
    \/ el.layer = "page" /\ (el \in {Header, Main} \/ el.name \in rs)
    \/ el.layer = "menu" /\ m
    \/ el.layer = "dialog" /\ d
Restored(back, rs, m, d) == IF There(back, rs, m, d) THEN back ELSE Body
MenuOpen == menu.open /= None
DialogOpen == dialog.open /= None
NothingOpen == ~MenuOpen /\ ~DialogOpen /\ ~palette.open
Top == IF palette.open THEN "palette" ELSE IF DialogOpen THEN "dialog"
       ELSE IF MenuOpen THEN "menu" ELSE "page"

(* The focus comes to an element of the page: the reader is there.         *)
ReaderAt(el) == story' = [story EXCEPT !.origin = el, !.excused = FALSE, !.escaped = FALSE]
Unseen == UNCHANGED story
Overlays == <<menu, dialog, palette>>
Rest == <<rows, screen>>

MoveOnPage(el) ==
    /\ NothingOpen /\ There(el, rows, FALSE, FALSE)
    /\ focus' = el /\ ReaderAt(el)
    /\ UNCHANGED <<Rest, Overlays>>

-----------------------------------------------------------------------------
(* The menu of a row, from its trigger.                                    *)
OpenMenu ==
    /\ NothingOpen /\ focus.layer = "page" /\ focus.name \in rows
    /\ menu' = [open |-> focus.name, back |-> focus]
    /\ focus' = FirstOf("menu", focus.name)
    /\ UNCHANGED <<Rest, dialog, palette, story>>

CloseMenu ==
    /\ Top = "menu"
    /\ menu' = Closed
    /\ focus' = Restored(menu.back, rows, FALSE, DialogOpen)
    /\ UNCHANGED <<Rest, dialog, palette, story>>

(* An item of the menu closes it and opens the dialog, in one render: the  *)
(* menu gives the focus back before the dialog takes it.                   *)
SelectSuspend ==
    /\ Top = "menu" /\ menu.open \in Listed
    /\ menu' = Closed
    /\ dialog' = [open |-> menu.open, back |-> Restored(menu.back, rows, FALSE, FALSE)]
    /\ focus' = FirstOf("dialog", menu.open)
    /\ UNCHANGED <<Rest, palette, story>>

(* Cancelled, or confirmed, which calls nothing yet.                       *)
CloseDialog ==
    /\ Top = "dialog"
    /\ dialog' = Closed
    /\ focus' = Restored(dialog.back, rows, FALSE, FALSE)
    /\ UNCHANGED <<Rest, menu, palette, story>>

(* Tab inside the menu or the dialog; a click on what is no control of it. *)
ClickInside ==
    /\ Top \in {"menu", "dialog"}
    /\ focus' = El(Top, 0)
    /\ story' = [story EXCEPT !.escaped = FALSE]
    /\ UNCHANGED <<Rest, Overlays>>

Stops == StopsOf(Top, menu.open)
TabKey ==
    /\ Top \in {"menu", "dialog"} /\ focus.layer = Top
    /\ focus' = IF Stops = 0 THEN Main
                ELSE El(Top, IF focus.stop = Stops THEN 1 ELSE focus.stop + 1)
    /\ story' = [story EXCEPT !.escaped = Stops = 0]
    /\ UNCHANGED <<Rest, Overlays>>

ShiftTab ==
    /\ Top \in {"menu", "dialog"} /\ focus.layer = Top
    /\ focus' = IF Stops = 0 \/ focus.stop = 0 THEN Main
                ELSE El(Top, IF focus.stop = 1 THEN Stops ELSE focus.stop - 1)
    /\ story' = [story EXCEPT !.escaped = focus'.layer /= Top]
    /\ UNCHANGED <<Rest, Overlays>>

-----------------------------------------------------------------------------
(* The palette.                                                            *)
Enabled == Filtered(Items, LAMBDA item : ~item.disabled)
MatchesOf(query) == Filtered(Enabled, LAMBDA item : query \subseteq item.words)
Matches == MatchesOf(palette.query)

(* As they are drawn: by group, the groups in the order of their first.    *)
FirstOfGroup(items, group) ==
    CHOOSE i \in DOMAIN items :
        items[i].group = group /\ \A j \in DOMAIN items : items[j].group = group => i <= j
Drawn(items) ==
    SortedBy(items, LAMBDA a, b : FirstOfGroup(items, a.group) < FirstOfGroup(items, b.group))

(* Ctrl+K anywhere, the search button with the focus on it.                *)
OpenPalette ==
    /\ ~palette.open
    /\ palette' = [open |-> TRUE, back |-> focus, query |-> {}, active |-> 0]
    /\ focus' = El("palette", 1)
    /\ UNCHANGED <<Rest, menu, dialog, story>>

Dismissed ==
    /\ palette' = [palette EXCEPT !.open = FALSE]
    /\ focus' = Restored(palette.back, rows, MenuOpen, DialogOpen)
    /\ UNCHANGED <<rows, menu, dialog, story>>

ClosePalette == palette.open /\ Dismissed /\ UNCHANGED screen

(* The effect that clamps runs with the keystroke.                         *)
Type(query) ==
    /\ palette.open /\ query /= palette.query
    /\ palette' = [palette EXCEPT !.query = query,
                     !.active = IF @ < Len(MatchesOf(query)) THEN @
                                ELSE IF MatchesOf(query) = <<>> THEN 0
                                ELSE Len(MatchesOf(query)) - 1]
    /\ UNCHANGED <<Rest, focus, menu, dialog, story>>

Arrow(step) ==
    /\ palette.open
    /\ palette' = [palette EXCEPT !.active = IF Matches = <<>> THEN 0
                                             ELSE (@ + step + Len(Matches)) % Len(Matches)]
    /\ UNCHANGED <<Rest, focus, menu, dialog, story>>

Hover(index) ==
    /\ palette.open /\ index \in 0 .. Len(Matches) - 1
    /\ palette' = [palette EXCEPT !.active = index]
    /\ UNCHANGED <<Rest, focus, menu, dialog, story>>

EnterRuns == Matches[palette.active + 1]
Highlighted == Drawn(Matches)[palette.active + 1]

Enter ==
    /\ palette.open /\ Matches /= <<>>
    /\ Dismissed
    /\ screen' = [screen EXCEPT !.leaving = TRUE]

(* The route changes: what was open on it goes with it.                    *)
RouteChanges ==
    /\ screen.leaving
    /\ screen' = [home |-> ~screen.home, leaving |-> FALSE]
    /\ rows' = IF screen.home THEN {} ELSE Rows
    /\ menu' = Closed /\ dialog' = Closed
    /\ focus' = IF focus = Header \/ focus.layer = "palette" THEN focus ELSE Body
    /\ story' = [story EXCEPT !.excused = TRUE]
    /\ palette' = [palette EXCEPT !.back = IF @ = Header THEN Header ELSE Body]

-----------------------------------------------------------------------------
(* A poll takes a row away, and the menu that hangs on it.                 *)
RowGoes(r) ==
    /\ r \in rows
    /\ rows' = rows \ {r}
    /\ menu' = IF menu.open = r THEN Closed ELSE menu
    /\ focus' = IF focus = Trigger(r) \/ (menu.open = r /\ focus.layer = "menu")
                THEN Body ELSE focus
    /\ story' = [story EXCEPT !.excused = @ \/ story.origin = Trigger(r)]
    /\ UNCHANGED <<screen, dialog, palette>>

Next ==
    \/ \E el \in {Header, Main} \union {Trigger(r) : r \in Rows} : MoveOnPage(el)
    \/ OpenMenu \/ CloseMenu \/ SelectSuspend \/ CloseDialog
    \/ ClickInside \/ TabKey \/ ShiftTab
    \/ OpenPalette \/ ClosePalette \/ Enter
    \/ \E query \in Queries : Type(query)
    \/ \E step \in {1, -1} : Arrow(step)
    \/ \E index \in 0 .. Len(Items) : Hover(index)
    \/ RouteChanges
    \/ \E r \in Rows : RowGoes(r)

Spec == Init /\ [][Next]_vars

-----------------------------------------------------------------------------
(* "Focus returns to whatever opened it": through a menu, its dialog and   *)
(* the palette over either, closed in whatever order and manner, the       *)
(* reader is back where they were, unless that went meanwhile              *)
(* (useOverlay, CommandPalette).                                           *)
FocusComesBack == NothingOpen => focus = story.origin \/ story.excused

(* While something is open the focus is in what is on top, unless Tab left *)
(* it from where it is not caught.                                         *)
FocusStaysInside ==
    Top \in {"menu", "dialog", "palette"} =>
        focus.layer = Top \/ story.escaped

(* Enter runs the command that is highlighted, whatever was typed, pointed *)
(* at and stepped over; with none to run there is none highlighted.        *)
EnterRunsTheHighlighted ==
    palette.open =>
        /\ palette.active \in 0 .. (IF Matches = <<>> THEN 0 ELSE Len(Matches) - 1)
        /\ Matches /= <<>> => EnterRuns = Highlighted

OverlaysAreHonest == FocusComesBack /\ FocusStaysInside /\ EnterRunsTheHighlighted
=============================================================================
