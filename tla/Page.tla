-------------------------------- MODULE Page --------------------------------
(***************************************************************************)
(* State a page keeps in the browser: the open files of a package          *)
(* (web-viewer's source-code.tsx and editor-tabs.tsx), which outlive a     *)
(* navigation to another resource with a package of that name; and the     *)
(* theme (packages/ui), which several tabs of the browser share through    *)
(* localStorage and its events.                                            *)
(***************************************************************************)
EXTENDS Naturals, Sequences, FiniteSets

CONSTANTS Paths,      \* source files
          FileSets,   \* what packages of the name may hold
          MaxEvents   \* storage events on their way: a bound

VARIABLES tabs, theme

pageVars == <<tabs, theme>>
NoPath == "none"

ASSUME PageAssumption ==
    NoPath \notin Paths /\ MaxEvents \in Nat /\ \A files \in FileSets : files \subseteq Paths

InSeq(x, s) == \E i \in DOMAIN s : s[i] = x
OnceEach(s) == \A i, j \in DOMAIN s : s[i] = s[j] => i = j
PositionOf(x, s) == CHOOSE i \in DOMAIN s : s[i] = x
AtMost(m, n) == IF m < n THEN m ELSE n

-----------------------------------------------------------------------------
(* The tabs of one package's sources.                                      *)

TabsInit ==
    \E files \in FileSets : \E entry \in files \cup {NoPath} :
        /\ entry = NoPath <=> files = {}
        /\ tabs = [pc |-> "open", files |-> files, moved |-> FALSE, active |-> entry,
                   open |-> IF entry = NoPath THEN <<>> ELSE <<entry>>]

\* openFiles of the editor, and whether it shows the active one.
Visible == {path \in tabs.files : InSeq(path, tabs.open)}
Showing == tabs.active \in Visible

OpenFile(path) ==
    /\ path \in tabs.files
    /\ tabs' = [tabs EXCEPT !.open = IF InSeq(path, @) THEN @ ELSE Append(@, path),
                            !.active = path]

\* setActivePath, of a tab.
SelectTab(path) == path \in Visible /\ tabs' = [tabs EXCEPT !.active = path]

\* openPaths.filter(...), of paths that are each open once (TabsShowTheirState).
Without(s, x) ==
    LET at == PositionOf(x, s)
    IN  [i \in 1..(Len(s) - 1) |-> IF i < at THEN s[i] ELSE s[i + 1]]

\* Variant with one plausible mistake: the place of the closed tab is taken
\* as it is, also when it was the last.
TakesItsPlace(path) ==
    LET remaining == Without(tabs.open, path)
        index == PositionOf(path, tabs.open)
    IN  IF index \in DOMAIN remaining THEN remaining[index] ELSE NoPath

\* What is active once the active tab is closed.
NextActive(path) ==
    LET remaining == Without(tabs.open, path)
        index == AtMost(PositionOf(path, tabs.open), Len(remaining))
    IN  IF index \in DOMAIN remaining THEN remaining[index] ELSE NoPath

CloseFile(path) ==
    /\ path \in Visible
    /\ tabs' = [tabs EXCEPT !.open = Without(@, path),
                            !.active = IF path = @ THEN NextActive(path) ELSE @]

\* The page of another resource, or of another network, with a package of the
\* same name: the component stays, and so does its state.
Navigate ==
    \E files \in FileSets \ {tabs.files} : tabs' = [tabs EXCEPT !.files = files, !.moved = TRUE]

TabsNext ==
    /\ tabs.pc = "open"
    /\ Navigate \/ \E p \in Paths : OpenFile(p) \/ SelectTab(p) \/ CloseFile(p)

-----------------------------------------------------------------------------
(* The theme.                                                              *)

Resolved == {"dark", "light"}
Themes == Resolved \cup {"system"}
DefaultTheme == "system"
Stored == Themes \cup {"other"}       \* missing, or no theme

OrDefault(value) == IF value \in Themes THEN value ELSE DefaultTheme
ResolvedTheme(value, system) == IF value = "system" THEN system ELSE value

\* ThemeScript, before the first paint; the provider reads the storage when it
\* hydrates, and listens once its effects have run.
ThemeInit ==
    \E stored \in Stored, system \in Resolved :
        theme = [pc |-> "painted", value |-> DefaultTheme, stored |-> stored, system |-> system,
                 class |-> ResolvedTheme(OrDefault(stored), system), applied |-> DefaultTheme,
                 events |-> <<>>, raced |-> FALSE]

Hydrate ==
    /\ theme.pc = "painted"
    /\ theme' = [theme EXCEPT !.pc = "hydrated", !.value = OrDefault(theme.stored)]

\* The effect of [theme]: the class, and whether to listen to the system.
ApplyTheme ==
    /\ theme.pc \in {"hydrated", "stale"}
    /\ theme' = [theme EXCEPT !.pc = "settled", !.applied = theme.value,
                              !.class = ResolvedTheme(theme.value, theme.system)]

Listening == theme.pc \in {"settled", "stale"}

\* setThemeState, and the storage with it when the choice is this tab's.
ChooseTheme(value) ==
    /\ Listening
    /\ theme' = [theme EXCEPT !.pc = "stale", !.value = value, !.stored = value,
                              !.raced = @ \/ theme.events # <<>>]

SetTheme == \E value \in Themes : ChooseTheme(value)

\* "d", outside of editable elements.
KeyDown ==
    ChooseTheme(CASE ResolvedTheme(theme.value, theme.system) = "dark" -> "light" [] OTHER -> "dark")

\* The listener is there while the effect's theme is the system's.
SystemChanges ==
    \E system \in Resolved \ {theme.system} :
        theme' = [theme EXCEPT !.system = system,
                    !.class = IF Listening /\ theme.applied = "system" THEN system ELSE @]

\* Another tab chooses, or the site's data are cleared: an event is on its
\* way, that only a listening tab hears.
OtherTabStores ==
    /\ Len(theme.events) < MaxEvents
    /\ \E value \in Stored \ {theme.stored} :
         theme' = [theme EXCEPT !.stored = value,
                     !.events = IF Listening THEN Append(@, value) ELSE @,
                     !.raced = @ \/ theme.pc = "hydrated"]

StorageEvent ==
    /\ Listening
    /\ theme.events # <<>>
    /\ theme' = [theme EXCEPT !.pc = "stale", !.value = OrDefault(Head(theme.events)),
                              !.events = Tail(@)]

ThemeNext ==
    /\ theme.pc # "off"
    /\ Hydrate \/ ApplyTheme \/ SetTheme \/ KeyDown \/ SystemChanges \/ OtherTabStores \/ StorageEvent

-----------------------------------------------------------------------------
\* No file has two tabs, the active one is open, nothing is active only when
\* nothing is open, and until the page moves to other files the active one is
\* shown (source-code.tsx: "Closing the active tab activates the one that takes
\* its place, or the new last one").
TabsShowTheirState ==
    tabs.pc = "open" =>
        /\ OnceEach(tabs.open)
        /\ tabs.active = NoPath <=> tabs.open = <<>>
        /\ tabs.active # NoPath => InSeq(tabs.active, tabs.open)
        /\ ~tabs.moved => (Showing <=> tabs.open # <<>>)

\* Once its effects have run the page has the class of its theme, the
\* system's when it follows that, also when either changed before the listener
\* was there; and once every event has arrived its theme is the stored one,
\* unless two tabs chose at once, or another chose before this one listened.
ThemeShowsItsState ==
    theme.pc = "settled" =>
        /\ theme.class = ResolvedTheme(theme.value, theme.system)
        /\ theme.events = <<>> /\ ~theme.raced => theme.value = OrDefault(theme.stored)

PageShowsItsState == TabsShowTheirState /\ ThemeShowsItsState
=============================================================================
