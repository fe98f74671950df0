------------------------------ MODULE ClientUi ------------------------------
(***************************************************************************)
(* The input side of one client frame (EarthRise/App.cpp): window messages *)
(* leave pointer edges behind, and Tick hands them to the context menu,    *)
(* the radar, the selection and the windowed menu, in that order.          *)
(***************************************************************************)
(***************************************************************************)
(* The windowed menu of the client (EarthRise/MenuUi.h): which windows are *)
(* open and in which order, the button being pressed, the open dropdown,   *)
(* the selections and their persisted copy.                                *)
(*                                                                         *)
(* Positions are left out: where the pointer is, is a record at with the   *)
(* windows it is over, the part of the topmost one it hits, and the row of *)
(* an open dropdown's popup it hits.  The three settings panels behave     *)
(* alike; PanelWins names the ones an instance has, each with one row.     *)
(***************************************************************************)
(***************************************************************************)
(* Selection, radar, context menu and control groups of the client:        *)
(* EarthRise/FleetCommandController.h over NeuronClient/FleetControl.h and *)
(* Picking.h.  What is near the pointer is part of the input record at     *)
(* (see above): the entity picked, the units a box holds, whether it is   *)
(* over the radar disc, and the context menu's row.                        *)
(***************************************************************************)
EXTENDS Integers, Sequences, FiniteSets, SequencesExt

CONSTANTS PanelWins,    \* the settings panels
          OPTIONS,      \* options of a dropdown
          DEFAULT,      \* the selection InitSettings makes
          StoredValues  \* what local settings may hold from earlier runs

VARIABLES menu,      \* MenuUi's members
          stored,    \* the persisted selections (NONE: no such key)
          fired,     \* the button whose action this frame ran (NoItem: none)
          lastPress  \* history: the last button pressed

NoItem == << "none", "none" >>
NONE == 0 - 1
Wins == {"MainMenu", "Options"} \cup PanelWins
WinIsPanel(w) == w \in PanelWins

\* The buttons of a list window; the layout appends Close.
WinButtons(w) ==
    (IF w = "MainMenu" THEN {"Profile", "Options", "Quit"} ELSE {"Sound"} \cup PanelWins) \cup {"Close"}
\* What can be hit in a window.
PartsOf(w) ==
    {"body", "closeBox", "title"}
    \cup (IF WinIsPanel(w) THEN {"footerClose", "footerApply", "row"} ELSE WinButtons(w))

\* InitSettings.
InitSettings == [w \in PanelWins |-> DEFAULT]
\* LoadSettings: every key that is there overrides the default, unchecked.
LoadSettings == [w \in PanelWins |-> IF stored[w] = NONE THEN InitSettings[w] ELSE stored[w]]

Clamp(v, n) == IF v < 0 THEN 0 ELSE IF v >= n THEN n - 1 ELSE v
\* BloomIntensity, ParticleDensity, FovRadians: the entry of the table that is read.
TableIndex(w) == Clamp(menu.sel[w], OPTIONS)

MenuTypeOK ==
    /\ menu \in [ winOpen : [Wins -> BOOLEAN], zorder : Seq(Wins), drag : Wins \cup {"none"},
                  press : {NoItem} \cup { << w, i >> : w \in Wins, i \in UNION { WinButtons(x) : x \in Wins \ PanelWins } },
                  dd : PanelWins \cup {"none"}, sel : [PanelWins -> Int], quit : BOOLEAN, ready : BOOLEAN ]
    /\ stored \in [PanelWins -> Int]

\* A new MenuUi; ready once font and skins are loaded.
NewMenu(ready) ==
    [ winOpen |-> [w \in Wins |-> FALSE], zorder |-> << "MainMenu", "Options" >> \o SetToSeq(PanelWins),
      drag |-> "none", press |-> NoItem, dd |-> "none", sel |-> LoadSettings, quit |-> FALSE, ready |-> ready ]

MenuInit ==
    /\ stored \in [PanelWins -> StoredValues]
    /\ \E ready \in BOOLEAN : menu = NewMenu(ready)
    /\ fired = NoItem
    /\ lastPress = NoItem

-----------------------------------------------------------------------------
IndexIn(z, w) == CHOOSE i \in DOMAIN z : z[i] = w

\* RaiseWindow: to the back of the array, which is the front.
Raised(z, w) == Append(RemoveAt(z, IndexIn(z, w)), w)

\* The frontmost open window of a set, or none.
FrontWin(m, ws) ==
    LET open == { i \in DOMAIN m.zorder : m.zorder[i] \in ws /\ m.winOpen[m.zorder[i]] }
    IN  IF open = {} THEN "none" ELSE m.zorder[CHOOSE i \in open : \A j \in open : j <= i]

\* PointerOverWindow: whether or not the menu can be drawn, and without the popup.
PointerOverWindow(at) == \E w \in at.over : menu.winOpen[w]

OpenWindow(m, w) == [m EXCEPT !.winOpen[w] = TRUE, !.zorder = Raised(@, w)]

\* OnButtonAction.
OnButtonAction(m, w, item) ==
    CASE item = "Close" -> [m EXCEPT !.winOpen[w] = FALSE]
      [] item = "Options" -> OpenWindow(m, "Options")
      [] item = "Quit" -> [m EXCEPT !.quit = TRUE]
      [] item \in PanelWins -> OpenWindow(m, item)
      [] OTHER -> m

\* A press in a panel; Apply saves what every panel has selected (SaveSettings).
PressPanel(m, w, part) ==
    CASE part \in {"closeBox", "footerClose"} -> [m EXCEPT !.winOpen[w] = FALSE]
      [] part = "row" -> [m EXCEPT !.dd = w]
      [] part = "title" -> [m EXCEPT !.drag = w]
      [] OTHER -> m

\* A press in a list window.
PressButtons(m, w, part) ==
    CASE part = "closeBox" -> [m EXCEPT !.winOpen[w] = FALSE]
      [] part \in WinButtons(w) -> [m EXCEPT !.press = << w, part >>]
      [] part = "title" -> [m EXCEPT !.drag = w]
      [] OTHER -> m

\* The open dropdown takes all input; a press in it selects, any press closes it.
UpdateDropdown(m, at, pressed) ==
    IF ~pressed THEN m
    ELSE [m EXCEPT !.sel[m.dd] = IF at.popup = NONE THEN @ ELSE at.popup, !.dd = "none"]

\* The press raises the topmost window under the pointer and acts in it.
Pressed(m, w, part) ==
    LET r == [m EXCEPT !.zorder = Raised(@, w)]
    IN  IF WinIsPanel(w) THEN PressPanel(r, w, part) ELSE PressButtons(r, w, part)

\* A release over the button that took the press runs its action, if its window
\* is the topmost one under the pointer.
Fires(press, w, part, released) == released /\ w # "none" /\ press = << w, part >>

\* What a press (if any) makes of the menu before the release is looked at.
AfterPress(m, w, part, pressed) == IF pressed /\ w # "none" THEN Pressed(m, w, part) ELSE m

\* Update.  Both edges in one frame are a click, or a release and the next press.
Updated(m0, at, down, pressed, released) ==
    LET m == IF down THEN m0 ELSE [m0 EXCEPT !.drag = "none"]
        w == FrontWin(m, at.over)
        p == AfterPress(m, w, at.part, pressed)
        f == IF Fires(p.press, w, at.part, released) THEN OnButtonAction(p, w, at.part) ELSE p
    IN  IF m.dd # "none" THEN UpdateDropdown(m, at, pressed)
        ELSE IF released THEN [f EXCEPT !.press = NoItem] ELSE f

MenuUpdate(at, down, pressed, released) ==
    LET w == IF menu.ready /\ menu.dd = "none" THEN FrontWin(menu, at.over) ELSE "none"
        p == AfterPress(menu, w, at.part, pressed)
    IN  /\ menu' = IF menu.ready THEN Updated(menu, at, down, pressed, released) ELSE menu
        /\ stored' = IF pressed /\ w \in PanelWins /\ at.part = "footerApply" THEN menu.sel ELSE stored
        /\ lastPress' = IF p.press # menu.press THEN p.press ELSE lastPress
        /\ fired' = IF Fires(p.press, w, at.part, released) THEN << w, at.part >> ELSE NoItem

\* CloseTopWindow, on Esc.
CloseTopWindow ==
    LET w == FrontWin(menu, Wins)
    IN  menu' = IF menu.dd # "none" THEN [menu EXCEPT !.dd = "none"]
                ELSE IF w # "none" THEN [menu EXCEPT !.winOpen[w] = FALSE]
                ELSE OpenWindow(menu, "MainMenu")

-----------------------------------------------------------------------------
(* The drawing order names every window once, however windows are opened,  *)
(* raised and closed: a window lost from it could never be shown again.    *)
ZOrderIsPermutation == IsInjective(menu.zorder) /\ ToSet(menu.zorder) = Wins

(* The window of an open dropdown is open, so its popup is never drawn or  *)
(* asked for input over a closed panel, and the dropdown is a panel's.     *)
DropdownOwned == menu.dd # "none" => menu.winOpen[menu.dd] /\ WinIsPanel(menu.dd)

(* Settings read back from an earlier run are not checked when they are    *)
(* loaded; the tables they index are still read within their bounds.       *)
DerivedInTable == \A w \in PanelWins : TableIndex(w) \in 0 .. OPTIONS - 1

(* A button acts only if it is the last button that took a press, also     *)
(* when releases are lost or windows are closed or raised in between.      *)
FiresWherePressed == fired # NoItem => fired = lastPress
-----------------------------------------------------------------------------

CONSTANTS Entities,   \* net id -> [kind, owner]: what the server may replicate
          PLAYER      \* the net id the server gives this client

VARIABLES fleet,   \* FleetCommandController's members
          seen,    \* the net ids of the current replica
          self,    \* PlayerNetId(): 0 without a connection
          sent     \* the command sent in this step (NoCommand: none)

NoCommand == [intent |-> "none", units |-> {}, target |-> 0]

\* ClassifyTarget.
ClassifyTarget(kind, owner, me) ==
    CASE kind = "ResourceNode" -> "ResourceNode"
      [] kind = "LootContainer" -> "Loot"
      [] kind = "Structure" -> "Beacon"
      [] kind \in {"Base", "Ship"} -> IF owner = me /\ me # 0 THEN "Ally" ELSE "Enemy"
      [] kind = "NpcUnit" -> "Enemy"
      [] OTHER -> "EmptySpace"

ClassOf(id) == ClassifyTarget(Entities[id].kind, Entities[id].owner, self)

\* ResolveSmartAction.
ResolveSmartAction(t) ==
    CASE t = "Enemy" -> "Attack"
      [] t = "ResourceNode" -> "Harvest"
      [] t = "Beacon" -> "Jump"
      [] t = "Ally" -> "Guard"
      [] t = "Loot" -> "ClaimLoot"
      [] OTHER -> "Move"

\* BuildContextMenu's rows; a Move needs a point and a Jump a beacon's name,
\* which a pick does not have.
MenuRows(t) ==
    CASE t = "Enemy" -> << "Attack", "Orbit", "KeepRange" >>
      [] t = "ResourceNode" -> << "Harvest", "Move" >>
      [] t = "Loot" -> << "ClaimLoot", "Move" >>
      [] t = "Ally" -> << "Guard", "Move" >>
      [] t = "Beacon" -> << "Jump", "Move" >>
      [] OTHER -> << "Move" >>
BuildContextMenu(t, hasSelection) == IF hasSelection THEN MenuRows(t) ELSE << >>
Inert == {"Move", "Jump"}

NewFleet ==
    [ selection |-> {}, group |-> {}, target |-> 0, selDragging |-> FALSE,
      ctxOpen |-> FALSE, ctxTarget |-> 0, ctxActions |-> << >> ]

FleetInit ==
    /\ fleet = NewFleet
    /\ seen = {}
    /\ self = 0
    /\ sent = NoCommand

\* SendFleet.  (SessionImpl drops it without a connection.)
SendFleet(intent, units, target) ==
    IF units = {} THEN NoCommand ELSE [intent |-> intent, units |-> units, target |-> target]

Own(kinds) == { e \in seen : Entities[e].owner = self /\ Entities[e].kind \in kinds }

-----------------------------------------------------------------------------
\* HandleContextMenu consumes a press while the menu is open.
CtxConsumes(pressed) == fleet.ctxOpen /\ pressed

\* CtxRowAt and IssueMenuAction: the row's intent, on the selection of now and
\* the target the menu was opened on.
IssueMenuAction(at) ==
    IF /\ at.row \in DOMAIN fleet.ctxActions
       /\ fleet.ctxActions[at.row] \notin Inert
       /\ fleet.selection # {}
    THEN SendFleet(fleet.ctxActions[at.row], fleet.selection, fleet.ctxTarget)
    ELSE NoCommand

\* Mutant: a menu that is open keeps its rows.
OpenMenuKeepsRows(f, hit) ==
    LET actions == BuildContextMenu(ClassOf(hit), f.selection # {})
    IN  IF actions = << >> THEN f
        ELSE [f EXCEPT !.ctxActions = IF f.ctxOpen THEN @ ELSE actions, !.ctxTarget = hit, !.ctxOpen = TRUE]

\* A stationary right click on an entity opens the menu, with rows for it.
OpenMenu(f, hit) ==
    LET actions == BuildContextMenu(ClassOf(hit), f.selection # {})
    IN  IF actions = << >> THEN f
        ELSE [f EXCEPT !.ctxActions = actions, !.ctxTarget = hit, !.ctxOpen = TRUE]

\* HandleContextMenu without a press to consume.
AfterRightClick(f, at, rclick, overMenu) ==
    IF ~rclick \/ overMenu THEN f
    ELSE IF at.pick \in seen THEN OpenMenu(f, at.pick) ELSE [f EXCEPT !.ctxOpen = FALSE]

\* HandleRadarClick: the nearest contact that is not our own base.
RadarHits(f, at, pressed, overMenu) ==
    pressed /\ f.selection # {} /\ ~overMenu /\ at.radar /\ at.pick \in seen \ {self}
RadarCommand(f, at) ==
    IF ClassOf(at.pick) = "Beacon" THEN NoCommand
    ELSE SendFleet(ResolveSmartAction(ClassOf(at.pick)), f.selection, at.pick)

\* HandleViewportSelection.  A release ends the drag that is on: it selects the
\* own units in the box, or the one that is hit, or none.
StartsDrag(at, pressed, overMenu) == pressed /\ ~overMenu /\ ~at.radar
AfterDrag(f, at, released) ==
    IF ~f.selDragging \/ ~released THEN f
    ELSE IF self = 0 THEN [f EXCEPT !.selDragging = FALSE]
    ELSE [f EXCEPT !.selDragging = FALSE,
                   !.selection = (IF at.box THEN seen ELSE {at.pick}) \cap Own({"Ship", "Base"})]

\* The handlers of one frame, in Tick's order.
FleetUpdate(at, pressed, released, rclick, overMenu) ==
    LET f1 == AfterRightClick(fleet, at, rclick, overMenu)
        f2 == IF RadarHits(f1, at, pressed, overMenu) THEN [f1 EXCEPT !.target = at.pick] ELSE f1
        f3 == IF StartsDrag(at, pressed, overMenu) THEN [f2 EXCEPT !.selDragging = TRUE] ELSE f2
    IN  IF CtxConsumes(pressed)
        THEN /\ sent' = IssueMenuAction(at)
             /\ fleet' = [fleet EXCEPT !.ctxOpen = FALSE,
                                       !.target = IF IssueMenuAction(at) # NoCommand THEN fleet.ctxTarget ELSE @]
        ELSE /\ sent' = IF RadarHits(f1, at, pressed, overMenu) THEN RadarCommand(f1, at) ELSE NoCommand
             /\ fleet' = AfterDrag(f3, at, released)

-----------------------------------------------------------------------------
\* The hot keys.
SetControlGroup == fleet' = [fleet EXCEPT !.group = fleet.selection] /\ sent' = NoCommand
RecallControlGroup == fleet' = [fleet EXCEPT !.selection = fleet.group] /\ sent' = NoCommand
SelectAllOwnShips == fleet' = [fleet EXCEPT !.selection = Own({"Ship"})] /\ sent' = NoCommand
SendStop == sent' = SendFleet("Stop", fleet.selection, 0) /\ UNCHANGED fleet
SendBuild == sent' = [intent |-> "Build", units |-> {self}, target |-> 0] /\ UNCHANGED fleet

-----------------------------------------------------------------------------
(* No command goes out without a unit: not even when the selection was     *)
(* lost after the context menu was opened for it.                          *)
SentHasUnits == sent # NoCommand => sent.units # {}

(* A command fits what it is aimed at: its intent is one of the rows its   *)
(* target's class offers, also when the menu was opened again on another   *)
(* entity, the entity left the replica meanwhile or the click was on the   *)
(* radar.                                                                  *)
IntentFitsTarget ==
    (sent # NoCommand /\ sent.target # 0)
        => \E me \in {0, PLAYER} :
              sent.intent \in ToSet(MenuRows(ClassifyTarget(Entities[sent.target].kind, Entities[sent.target].owner, me)))
-----------------------------------------------------------------------------

CONSTANTS MAX_FRAMES,   \* bound: frames and keys of a behaviour
          Places,       \* where the pointer can be: the records at
          Views         \* the sets of net ids a snapshot shows

\* What the constants are, and that the panels have names of their own.
ASSUME UiAssumption ==
    /\ IsFiniteSet(PanelWins)
    /\ PanelWins \cap { "none", "MainMenu", "Options", "Profile", "Quit", "Sound", "Close", "body", "closeBox",
                        "title", "footerClose", "footerApply", "row" } = {}
    /\ OPTIONS \in Nat \ {0} /\ DEFAULT \in Int /\ StoredValues \subseteq Int
    /\ \A at \in Places : at.over \subseteq Wins /\ at.popup \in Int

VARIABLES m_ptrDown,
          owners,   \* history: who took this frame's press
          frames

menuVars == << menu, stored, fired, lastPress >>
fleetVars == << fleet, seen, self, sent >>
uiVars == << menuVars, fleetVars, m_ptrDown, owners, frames >>

UiInit ==
    /\ MenuInit /\ FleetInit
    /\ m_ptrDown = FALSE
    /\ owners = {}
    /\ frames = 0

-----------------------------------------------------------------------------
Edges(pressed, released, down, rclick) ==
    [pressed |-> pressed, released |-> released, down |-> down, rclick |-> rclick]

\* HandleMessage: what the mouse messages between two frames leave behind.  A
\* release is lost when the other button's release gave the capture back; the
\* next move then only corrects m_ptrDown.
Gestures ==
    { Edges(FALSE, FALSE, m_ptrDown, FALSE), Edges(FALSE, FALSE, m_ptrDown, TRUE) }
    \cup IF m_ptrDown
         THEN { Edges(FALSE, TRUE, FALSE, FALSE), Edges(TRUE, TRUE, TRUE, FALSE), Edges(FALSE, FALSE, FALSE, FALSE) }
         ELSE { Edges(TRUE, FALSE, TRUE, FALSE), Edges(TRUE, TRUE, FALSE, FALSE) }

Counted == frames < MAX_FRAMES /\ frames' = frames + 1

\* The edges the windowed menu still sees: the context menu eats its click.
EdgesLeft(g) == ~CtxConsumes(g.pressed)

\* Who takes the press of a frame.
Owners(at, g) ==
    LET overMenu == PointerOverWindow(at)
        mine == ~CtxConsumes(g.pressed)
        inMenu == EdgesLeft(g) /\ menu.ready
    IN  { o \in {"context menu", "radar", "selection", "window", "dropdown"} :
            /\ g.pressed
            /\ CASE o = "context menu" -> ~mine
                 [] o = "radar" -> mine /\ RadarHits(fleet, at, TRUE, overMenu)
                 [] o = "selection" -> mine /\ StartsDrag(at, TRUE, overMenu)
                 [] o = "window" -> inMenu /\ menu.dd = "none" /\ FrontWin(menu, at.over) # "none"
                 [] o = "dropdown" -> inMenu /\ menu.dd # "none" }

\* Tick, from the pointer to the menu.
Frame(at, g) ==
    /\ Counted
    /\ FleetUpdate(at, g.pressed, g.released, g.rclick, PointerOverWindow(at))
    /\ MenuUpdate(at, g.down, g.pressed /\ EdgesLeft(g), g.released /\ EdgesLeft(g))
    /\ owners' = Owners(at, g)
    /\ m_ptrDown' = g.down
    /\ UNCHANGED << seen, self >>

\* OnKeyDown.
KeyDown ==
    /\ Counted
    /\ \/ /\ CloseTopWindow /\ UNCHANGED << fleet >> /\ sent' = NoCommand
       \/ (SetControlGroup \/ RecallControlGroup \/ SelectAllOwnShips \/ SendStop \/ SendBuild) /\ UNCHANGED menu
    /\ fired' = NoItem
    /\ UNCHANGED << stored, lastPress, seen, self, m_ptrDown >>
    /\ owners' = {}

\* The client exits and starts again: local settings are what is left.
Restart ==
    /\ Counted
    /\ menu.quit
    /\ menu' = NewMenu(menu.ready)
    /\ fired' = NoItem /\ lastPress' = NoItem /\ owners' = {}
    /\ fleet' = NewFleet
    /\ seen' = {} /\ self' = 0 /\ sent' = NoCommand /\ m_ptrDown' = FALSE
    /\ UNCHANGED stored

\* The session: logged in or not, and what the last snapshot shows.
World ==
    /\ self' \in {0, PLAYER}
    /\ seen' \in Views
    /\ Counted
    /\ sent' = NoCommand /\ fired' = NoItem /\ owners' = {}
    /\ UNCHANGED << menu, stored, lastPress, fleet, m_ptrDown >>

UiNext == (\E at \in Places, g \in Gestures : Frame(at, g)) \/ KeyDown \/ Restart \/ World

UiSpec == UiInit /\ [][UiNext]_uiVars

-----------------------------------------------------------------------------
(* A left press means one thing: it is the context menu's, the radar's,    *)
(* the selection's or a window's.  (Not while a dropdown is open, whose    *)
(* popup may stick out of its window and is not part of                    *)
(* PointerOverWindow.)                                                     *)
PressHasOneOwner == "dropdown" \in owners \/ Cardinality(owners) <= 1

(* Windows, settings and fleet commands stay in order whatever the pointer *)
(* and the world do between press and release: one owner per press,        *)
(* buttons that fire where they were pressed, dropdowns of open panels,    *)
(* settings inside their tables, and commands with units that fit their    *)
(* target (Tick, MenuUi.h, FleetCommandController.h).                      *)
UiInv ==
    /\ MenuTypeOK /\ ZOrderIsPermutation /\ DropdownOwned /\ DerivedInTable /\ FiresWherePressed
    /\ SentHasUnits /\ IntentFitsTarget /\ PressHasOneOwner
=============================================================================
