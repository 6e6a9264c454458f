--------------------------------- MODULE Themes ---------------------------------
(***************************************************************************)
(* Light, dark or what the system says: lib/theme.ts, lib/theme-client.ts  *)
(* and ThemeToggle of apps/web, in the tabs of one browser.  They share    *)
(* the storage, which tells the other tabs of a change when they come to   *)
(* it, and each hears of the system for itself.  A cross-fade calls back   *)
(* later than it is asked for, in turn.                                    *)
(***************************************************************************)
EXTENDS Naturals, Sequences, SequencesExt

CONSTANTS
    Pages,      \* the tabs
    MaxChoices, \* bound: clicks on the toggle
    MaxTurns    \* bound: changes of the system

ThemesAssumption == MaxChoices \in Nat /\ MaxTurns \in Nat

VARIABLES
    browser,    \* [blocked, still]: no storage to be had; no cross-fades
    choice,     \* THEME_STORAGE_KEY of the storage
    systemDark,
    page,       \* the script, the module and the document of each tab
    notices,    \* storage events on their way to each tab
    fades,      \* swaps that each tab has yet to be called back for
    turns,      \* [choices, system], to bound them
    late, crossed, turned   \* what has come at a bad moment (history)

history == <<late, crossed, turned>>
vars == <<browser, choice, systemDark, page, notices, fades, turns, history>>

-----------------------------------------------------------------------------
Preference == {"system", "light", "dark"}

\* Anything unexpected, and nothing, is "system".
ParsePreference(value) == IF value \in {"light", "dark"} THEN value ELSE "system"

ResolveTheme(preference, dark) ==
    IF preference # "system" THEN preference ELSE IF dark THEN "dark" ELSE "light"

StoredPreference == IF browser.blocked THEN "system" ELSE ParsePreference(choice)

\* `dark` is what the tab has heard of the system, `shown` what React was
\* last given.
Closed ==
    [at |-> "closed", preference |-> "unread", theme |-> "light", dark |-> FALSE,
     shown |-> <<"system", "light">>]

Watching(p) == page[p].at = "watching"

\* What useTheme() is given when the listeners are called.
Snapshot(q) == <<q.preference, q.theme>>
Notified(q) == [q EXCEPT !.shown = Snapshot(q)]

\* apply(), of tab p of which q is what it has become: nothing to do, or a
\* fade, or a cut.
Apply(p, q, theme) ==
    CASE q.theme = theme ->
            page' = [page EXCEPT ![p] = Notified(q)] /\ UNCHANGED fades
      [] q.theme # theme /\ ~browser.still ->
            /\ page' = [page EXCEPT ![p] = q]
            /\ fades' = [fades EXCEPT ![p] = Append(@, theme)]
      [] OTHER ->
            page' = [page EXCEPT ![p] = Notified([q EXCEPT !.theme = theme])] /\ UNCHANGED fades

\* It finds the old theme still there, and leaves it at that, while a fade to
\* the other is on its way.
Undone(p, theme) ==
    /\ page[p].theme = theme
    /\ fades[p] # <<>> /\ Last(fades[p]) # theme

Marks(p, theme) ==
    /\ turned' = IF Undone(p, theme) THEN turned \cup {p} ELSE turned \ {p}
    /\ late' = late \ {p}

-----------------------------------------------------------------------------
\* A page is opened, and the script in its head has run.
Open(p) ==
    /\ page[p].at = "closed"
    /\ page' = [page EXCEPT ![p] =
          [page[p] EXCEPT !.at = "painted", !.dark = systemDark,
                          !.theme = ResolveTheme(StoredPreference, systemDark)]]
    /\ UNCHANGED <<browser, choice, systemDark, notices, fades, turns, history>>

\* The first useTheme() subscribes, and with that the module watches; only
\* then it reads what is stored.
Subscribe(p) ==
    /\ page[p].at = "painted"
    /\ page' = [page EXCEPT ![p] =
          Notified([page[p] EXCEPT !.at = "watching", !.preference = StoredPreference])]
    /\ UNCHANGED <<browser, choice, systemDark, notices, fades, turns, history>>

\* setThemePreference(): the storage tells the other tabs, if it has changed.
SetThemePreference(p, next) ==
    LET changed == ~browser.blocked /\ next # choice
        theme == ResolveTheme(next, page[p].dark)
    IN
    /\ Watching(p) /\ turns.choices < MaxChoices
    /\ turns' = [turns EXCEPT !.choices = @ + 1]
    /\ choice' = IF changed THEN next ELSE choice
    /\ notices' = [t \in Pages |->
          IF changed /\ t # p /\ page[t].at # "closed"
          THEN Append(notices[t], next) ELSE notices[t]]
    /\ Apply(p, [page[p] EXCEPT !.preference = next], theme)
    /\ Marks(p, theme)
    /\ crossed' = IF notices[p] # <<>> THEN crossed \cup {p}
                  ELSE IF changed THEN {} ELSE crossed \ {p}
    /\ UNCHANGED <<browser, systemDark>>

\* The listener of "storage", which goes by what the event says; before there
\* is one, nobody hears it.
Storage(p) ==
    LET preference == ParsePreference(Head(notices[p]))
        theme == ResolveTheme(preference, page[p].dark)
    IN
    /\ notices[p] # <<>>
    /\ notices' = [notices EXCEPT ![p] = Tail(@)]
    /\ \/ /\ Watching(p)
          /\ Apply(p, [page[p] EXCEPT !.preference = preference], theme)
          /\ Marks(p, theme)
       \/ /\ ~Watching(p) /\ late' = late \cup {p}
          /\ UNCHANGED <<page, fades, turned>>
    /\ UNCHANGED <<browser, choice, systemDark, turns, crossed>>

\* Dusk and dawn.
SystemTurns ==
    /\ turns.system < MaxTurns
    /\ turns' = [turns EXCEPT !.system = @ + 1]
    /\ systemDark' = ~systemDark
    /\ UNCHANGED <<browser, choice, page, notices, fades, history>>

\* A mistake the runs must catch: the system has its way with everybody.
FollowAlways(p) == TRUE

\* The listener of the media query has something to do.
Follows(p) == page[p].preference = "system"

\* A tab hears of it; one that does not watch yet is behind.
Media(p) ==
    LET q == [page[p] EXCEPT !.dark = systemDark]
        theme == ResolveTheme("system", systemDark)
    IN
    /\ page[p].at # "closed" /\ page[p].dark # systemDark
    /\ \/ Watching(p) /\ Follows(p) /\ Apply(p, q, theme) /\ Marks(p, theme)
       \/ /\ ~Watching(p) \/ ~Follows(p)
          /\ page' = [page EXCEPT ![p] = q]
          /\ late' = IF Watching(p) THEN late ELSE late \cup {p}
          /\ UNCHANGED <<fades, turned>>
    /\ UNCHANGED <<browser, choice, systemDark, notices, turns, crossed>>

\* swap(), called by the transition.
Swap(p) ==
    /\ fades[p] # <<>>
    /\ fades' = [fades EXCEPT ![p] = Tail(@)]
    /\ page' = [page EXCEPT ![p] = Notified([page[p] EXCEPT !.theme = Head(fades[p])])]
    /\ UNCHANGED <<browser, choice, systemDark, notices, turns, history>>

Init ==
    /\ browser \in [blocked : BOOLEAN, still : BOOLEAN]
    /\ choice = "system" /\ systemDark = FALSE
    /\ page = [p \in Pages |-> Closed]
    /\ notices = [p \in Pages |-> <<>>]
    /\ fades = [p \in Pages |-> <<>>]
    /\ turns = [choices |-> 0, system |-> 0]
    /\ late = {} /\ crossed = {} /\ turned = {}

Next ==
    \/ SystemTurns
    \/ \E p \in Pages :
          \/ Open(p) \/ Subscribe(p) \/ Storage(p) \/ Media(p) \/ Swap(p)
          \/ \E next \in Preference : SetThemePreference(p, next)

Spec == Init /\ [][Next]_vars

-----------------------------------------------------------------------------
\* Nothing is on its way to a tab.
Quiet(p) ==
    /\ Watching(p) /\ notices[p] = <<>> /\ fades[p] = <<>>
    /\ page[p].dark = systemDark

\* "Other tabs and changes of the operating system are followed" (DESIGN.md,
\* Cor): in a tab to which nothing is on its way, the toggle says what is so,
\* the document has the theme of the preference, and the preference is the
\* one stored; but for what came between the script and the first listener,
\* for a choice that a fade on its way has undone, and for one that had an
\* older event yet to come.
ThemesSettle ==
    \A p \in Pages : Quiet(p) =>
        /\ page[p].shown = Snapshot(page[p])
        /\ p \notin late \cup turned =>
              page[p].theme = ResolveTheme(page[p].preference, systemDark)
        /\ p \notin crossed /\ ~browser.blocked => page[p].preference = StoredPreference

=============================================================================
