------------------------------- MODULE SiteChrome -------------------------------
(***************************************************************************)
(* What stands on every page of the customer site (src/shared): the bar    *)
(* that says a navigation is under way (route-pending.tsx), the drawer of  *)
(* a small screen (mobile-nav.tsx) and the theme (theme-script.ts,         *)
(* theme-toggle.tsx).  They share nothing but the page.                    *)
(*                                                                         *)
(* The two timers of the bar are started together, so the first one that   *)
(* is due is the shorter.  An event of the drawer reaches its listener     *)
(* before the next gesture does.  The site is open in one tab.             *)
(***************************************************************************)
EXTENDS Integers, SequencesExt

CONSTANTS Pages,   \* the paths of the site
          Still    \* no navigation

VARIABLES
    bar,     \* path: what is painted; address: the location; going: where the router is
             \*   taking us; settled: the path last disarmed for; phase; reveal, giveUp:
             \*   the timer is running; missed, history: the page on its way has no bar,
             \*   because it was given up, overtaken by the effect or already the address;
             \*   back, history: the last that was asked for is the page painted
    drawer,  \* open: the dialog; shown: what the button says; body: its style;
             \*   kept: bodyBeforeLock; closing: a close event is on its way
    theme    \* attr: data-theme; mode: of the control; glyph; device; stored: the two
             \*   keys; blocked: storage throws; due: the device changed, unheard;
             \*   open: the panel; focus

vars == <<bar, drawer, theme>>

Modes == <<"light", "dark", "system">>

-----------------------------------------------------------------------------
(* The bar. *)
BarInit ==
    \E p \in Pages :
        bar = [path |-> p, address |-> p, going |-> Still, settled |-> p, phase |-> 0,
               reveal |-> FALSE, giveUp |-> FALSE, missed |-> FALSE, back |-> FALSE]

Disarm(b) == [b EXCEPT !.reveal = FALSE, !.giveUp = FALSE, !.phase = 0]
Arm(b) == [Disarm(b) EXCEPT !.reveal = TRUE, !.giveUp = TRUE, !.missed = FALSE]
UnderWay(b) == b.going /= Still
Towards(p) == [bar EXCEPT !.going = IF p = bar.path THEN Still ELSE p, !.back = p = bar.path]

(* A link in the same tab: the router drops what it was doing. *)
Follow(p) ==
    LET towards == Towards(p)
    IN  bar' = IF p /= bar.address THEN Arm(towards)
               ELSE [towards EXCEPT !.missed = UnderWay(towards) /\ ~bar.giveUp]

(* By popstate the location is the destination already. *)
PopState(p) ==
    LET towards == [Towards(p) EXCEPT !.address = p]
    IN  bar' = IF p /= bar.settled THEN Arm(towards)
               ELSE [towards EXCEPT !.missed = UnderWay(towards) /\ bar.settled /= bar.path]

(* The page is painted; the effect on its path comes after. *)
Commit ==
    /\ UnderWay(bar) /\ bar.settled = bar.path
    /\ bar' = [bar EXCEPT !.path = bar.going, !.address = bar.going, !.going = Still,
                          !.missed = FALSE]

PathEffect ==
    /\ bar.settled /= bar.path
    /\ bar' = [Disarm(bar) EXCEPT !.settled = bar.path, !.missed = UnderWay(bar)]

Reveal ==
    /\ bar.reveal
    /\ bar' = [bar EXCEPT !.reveal = FALSE, !.phase = 1]

GiveUp ==
    /\ bar.giveUp /\ ~bar.reveal
    /\ bar' = [bar EXCEPT !.giveUp = FALSE, !.phase = 0, !.missed = UnderWay(bar)]

(* The end of a transition of the bar; it also comes once the bar is gone. *)
Advance ==
    /\ bar.phase \in {1, 2}
    /\ bar' = [bar EXCEPT !.phase = @ + 1]

BarNext ==
    \/ \E p \in Pages : Follow(p) \/ PopState(p)
    \/ Commit \/ PathEffect \/ Reveal \/ GiveUp \/ Advance

-----------------------------------------------------------------------------
(* The drawer. *)
DrawerInit ==
    drawer = [open |-> FALSE, shown |-> FALSE, body |-> "free", kept |-> "none",
              closing |-> FALSE]

LockPage(d) == IF d.kept /= "none" THEN d ELSE [d EXCEPT !.kept = d.body, !.body = "locked"]
UnlockPage(d) == IF d.kept = "none" THEN d ELSE [d EXCEPT !.body = d.kept, !.kept = "none"]

OpenDrawer ==
    /\ ~drawer.open /\ ~drawer.closing
    /\ drawer' = [LockPage(drawer) EXCEPT !.open = TRUE, !.shown = TRUE]

(* The button of the drawer, or one of its links. *)
CloseDrawer ==
    /\ drawer.open
    /\ drawer' = [drawer EXCEPT !.open = FALSE, !.shown = FALSE, !.closing = TRUE]

(* Escape, or the back gesture of the device: the browser closes the dialog. *)
DismissDrawer ==
    /\ drawer.open
    /\ drawer' = [drawer EXCEPT !.open = FALSE, !.closing = TRUE]

Sync ==
    /\ drawer.closing
    /\ drawer' = [UnlockPage(drawer) EXCEPT !.shown = drawer.open, !.closing = FALSE]

(* The header goes with its page, the dialog with it and its listener. *)
UnmountDrawer ==
    drawer' = [UnlockPage(drawer) EXCEPT !.open = FALSE, !.shown = FALSE, !.closing = FALSE]

DrawerNext == OpenDrawer \/ CloseDrawer \/ DismissDrawer \/ Sync \/ UnmountDrawer

-----------------------------------------------------------------------------
(* The theme.  Who chose before there was a mode has a theme and no mode.  *)
Stored(m, t) == [mode |-> m, theme |-> t]

(* The style sheet is dark unless the attribute says light. *)
Painted(th) == IF th.attr = "light" THEN "light" ELSE "dark"

(* A page that loads: the script in its head runs, then nothing is mounted. *)
Script(th) ==
    LET known == IF th.blocked THEN "none"
                 ELSE IF th.stored.mode = "system" THEN th.device ELSE th.stored.theme
    IN  [th EXCEPT !.attr = known, !.mode = "none", !.glyph = "none", !.due = FALSE,
                   !.open = FALSE, !.focus = "page"]

ThemeInit ==
    \E device \in {"light", "dark"}, blocked \in BOOLEAN, old \in {"none", "light", "dark"} :
        theme = Script([attr |-> "none", mode |-> "none", glyph |-> "none", device |-> device,
                        stored |-> Stored("none", old), blocked |-> blocked, due |-> FALSE,
                        open |-> FALSE, focus |-> "page"])

Reload == theme' = Script(theme)

ApplyMode(th, m) ==
    LET t == IF m = "system" THEN th.device ELSE m
    IN  [th EXCEPT !.attr = t, !.glyph = t,
                   !.stored = IF th.blocked THEN @ ELSE Stored(m, t)]

StoredMode ==
    IF ~theme.blocked /\ theme.stored.mode \in ToSet(Modes) THEN theme.stored.mode
    ELSE Painted(theme)

MountToggle ==
    /\ theme.mode = "none"
    /\ theme' = [IF StoredMode = "system" THEN ApplyMode(theme, "system")
                 ELSE [theme EXCEPT !.glyph = Painted(theme)] EXCEPT !.mode = StoredMode]

(* Only who follows the device listens to it. *)
DeviceChanges ==
    theme' = [theme EXCEPT !.device = IF @ = "light" THEN "dark" ELSE "light",
                           !.due = theme.mode = "system"]

DeviceChange ==
    /\ theme.due
    /\ theme' = [ApplyMode(theme, "system") EXCEPT !.due = FALSE]

Choose(m) == [ApplyMode(theme, m) EXCEPT !.mode = m, !.due = FALSE]

(* The panel of the control.  Focus is on the trigger, on an option or     *)
(* elsewhere on the page; a click focuses the button it hits.              *)
PressTrigger ==
    theme' = IF theme.open THEN [theme EXCEPT !.open = FALSE, !.focus = "trigger"]
             ELSE [theme EXCEPT !.open = TRUE,
                                !.focus = IF theme.mode = "none" THEN "trigger" ELSE theme.mode]

(* A click on an option, or Enter on the one in focus. *)
ClickOption(m) ==
    /\ theme.open
    /\ theme' = [Choose(m) EXCEPT !.open = FALSE, !.focus = "trigger"]

(* The pointer goes down on an option and comes up elsewhere. *)
DragOffOption(m) ==
    /\ theme.open
    /\ theme' = [theme EXCEPT !.focus = m]

(* The arrows move from the mode there is, and choose. *)
MoveSelection(step) ==
    /\ theme.focus \in ToSet(Modes) /\ theme.mode /= "none"
    /\ LET at == CHOOSE i \in 1..3 : Modes[i] = theme.mode
           next == Modes[((at - 1 + step + 3) % 3) + 1]
       IN  theme' = [Choose(next) EXCEPT !.focus = next]

Escape ==
    /\ theme.open
    /\ theme' = [theme EXCEPT !.open = FALSE, !.focus = "trigger"]

(* Tab goes to the one option in the tab order, or leaves; the pointer     *)
(* goes down outside.                                                      *)
TabKey ==
    \/ /\ theme.open /\ theme.focus = "trigger" /\ theme.mode /= "none"
       /\ theme' = [theme EXCEPT !.focus = theme.mode]
    \/ /\ theme.focus \in ToSet(Modes)
       /\ theme' = [theme EXCEPT !.focus = "trigger"]
    \/ theme' = [theme EXCEPT !.focus = "page", !.open = FALSE]

ThemeNext ==
    \/ Reload \/ MountToggle \/ DeviceChanges \/ DeviceChange
    \/ PressTrigger \/ Escape \/ TabKey
    \/ \E m \in ToSet(Modes) : ClickOption(m) \/ DragOffOption(m)
    \/ \E step \in {1, -1} : MoveSelection(step)

-----------------------------------------------------------------------------
Init == BarInit /\ DrawerInit /\ ThemeInit
Next ==
    \/ BarNext /\ UNCHANGED <<drawer, theme>>
    \/ DrawerNext /\ UNCHANGED <<bar, theme>>
    \/ ThemeNext /\ UNCHANGED <<bar, drawer>>
Spec == Init /\ [][Next]_vars

-----------------------------------------------------------------------------
(* "a shimmer that outlives its data is a lie about progress": whatever    *)
(* the reader clicks while a page is on its way, a bar that is shown or    *)
(* about to be is taken down by a timer that still runs; and it stands for *)
(* a page that is on its way, or painted with the effect to come, unless   *)
(* the reader asked for the page that is there: no path changes then, and  *)
(* what was armed stays up until the give-up "exists to be unreachable"    *)
(* (route-pending.tsx:83).                                                 *)
BarComesDown ==
    /\ bar.phase /= 0 \/ bar.reveal =>
          bar.giveUp /\ (UnderWay(bar) \/ bar.settled /= bar.path \/ bar.back)
    /\ bar.reveal => bar.phase = 0

(* A slow page is announced, by a link or by Back, over a page that is     *)
(* itself still arriving: while one is on its way the bar is up or about   *)
(* to be, unless it was given up or nobody could know (route-pending.tsx). *)
SlowPagesAreAnnounced ==
    UnderWay(bar) => bar.missed \/ (bar.giveUp /\ (bar.reveal \/ bar.phase /= 0))

(* The page behind the drawer scrolls again once the drawer is gone, with  *)
(* the style it had, and never while it is open (mobile-nav.tsx).          *)
PageScrollsAgain ==
    /\ drawer.open => drawer.body = "locked" /\ drawer.shown
    /\ ~drawer.open /\ ~drawer.closing => drawer.body = "free" /\ ~drawer.shown
    /\ drawer.kept /= "locked"

(* The control tells the state the page is in: a chosen theme is the one   *)
(* painted, a followed one the device's as soon as its change is heard;    *)
(* and what is stored paints the next page the same (theme-toggle.tsx).    *)
ThemeIsAsTold ==
    /\ theme.mode /= "none" =>
         /\ theme.glyph = Painted(theme)
         /\ theme.mode /= "system" => Painted(theme) = theme.mode
         /\ theme.mode = "system" /\ ~theme.due => Painted(theme) = theme.device
         /\ ~theme.blocked /\ ~theme.due => Painted(Script(theme)) = Painted(theme)
         /\ ~theme.blocked => theme.stored.mode \in {theme.mode, "none"}
    /\ theme.stored.mode \in {"light", "dark"} => theme.stored.theme = theme.stored.mode

(* "Hiding the element that holds focus drops it on <body>": however the   *)
(* panel closes, the focus is not left on an option of it.                 *)
FocusIsNotHidden == theme.focus \in ToSet(Modes) => theme.open
=============================================================================
