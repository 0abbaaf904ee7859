---------------------------- MODULE DesktopTabs -----------------------------
(***************************************************************************)
(* The tabs of the desktop client: a group of tabs per workspace, each tab *)
(* with a memory router of its own, and the navigation adapters that turn  *)
(* a push into a move of the tab, a new tab or a change of workspace.      *)
(*                                                                         *)
(* The store keeps the path a router last reported; a router is listened   *)
(* to only while its tab is visible.  A page's code holds on to its tab's  *)
(* router, so a push may come from a tab that is hidden by now.            *)
(*                                                                         *)
(* Sources (apps/desktop/src/renderer/src): stores/tab-store.ts,           *)
(* platform/navigation.tsx, hooks/use-tab-router-sync.ts, App.tsx.         *)
(***************************************************************************)
EXTENDS Naturals, FiniteSets, SequencesExt, FiniteSetsExt

CONSTANTS Slugs, None,  \* the workspaces; no workspace
          Paths,        \* the pages there are, each of a workspace; every
                        \* workspace has "issues", where it starts
          Ids,          \* bound: the tabs there can be at a time
          Background    \* bound: whether hidden tabs navigate

ASSUME TabsAssumption ==
  /\ None \notin Slugs
  /\ \A p \in Paths : p.slug \in Slugs
  /\ \A s \in Slugs : [slug |-> s, page |-> "issues"] \in Paths
  /\ IsFiniteSet(Ids) /\ None \notin Ids
  /\ Background \in BOOLEAN

VARIABLES
  store,    \* activeWorkspaceSlug and byWorkspace
  routers   \* where every tab's router is

vars == <<store, routers>>

Root == [slug |-> None, page |-> "issues"]  \* "/" and every reserved first segment
DefaultPath(s) == [slug |-> s, page |-> "issues"]

Groups(st) == st.byWorkspace
TabIds(tabs) == {tabs[n].id : n \in DOMAIN tabs}
Used(st) == UNION {TabIds(Groups(st)[s].tabs) : s \in DOMAIN Groups(st)}
AllTabs(st) == UNION {Range(Groups(st)[s].tabs) : s \in DOMAIN Groups(st)}
Tab(st, i) == CHOOSE t \in AllTabs(st) : t.id = i
Owner(st, i) == CHOOSE s \in DOMAIN Groups(st) : i \in TabIds(Groups(st)[s].tabs)
IndexOf(tabs, i) == CHOOSE n \in DOMAIN tabs : tabs[n].id = i

HasVisible(st) == st.active # None
Visible(st) == Groups(st)[st.active].activeTabId

MakeTab(i, p) == [id |-> i, path |-> p, pinned |-> FALSE]
SetGroup(st, s, group) ==
  [st EXCEPT !.byWorkspace = [t \in DOMAIN @ \cup {s} |-> IF t = s THEN group ELSE @[t]]]
SetTabs(st, s, tabs) == [st EXCEPT !.byWorkspace[s].tabs = tabs]
SetActive(st, i) ==
  LET s == Owner(st, i)
  IN  [st EXCEPT !.active = s, !.byWorkspace[s].activeTabId = i]

(* createId: one that is not in use; None is beyond the bound.             *)
NewId == IF Ids \subseteq Used(store) THEN None ELSE CHOOSE i \in Ids : i \notin Used(store)

-----------------------------------------------------------------------------
(* The path of the visible tab follows its router (useTabRouterSync).      *)
Sync(st, r) ==
  IF ~HasVisible(st) THEN st
  ELSE LET tabs == Groups(st)[st.active].tabs
       IN  SetTabs(st, st.active,
             [n \in DOMAIN tabs |-> IF tabs[n].id # Visible(st) THEN tabs[n]
                                    ELSE [tabs[n] EXCEPT !.path = r[Visible(st)]]])

\* mutant: the routers of tabs that are gone are kept
RoutersKept(st, r) ==
  [i \in Used(st) \cup DOMAIN r |-> IF i \in DOMAIN r THEN r[i] ELSE Tab(st, i).path]

(* After a step of the store: new tabs get a router at their path, the     *)
(* routers of tabs that are gone are disposed of.                          *)
RoutersOf(st, r) == [i \in Used(st) |-> IF i \in DOMAIN r THEN r[i] ELSE Tab(st, i).path]

After(st, r) ==
  LET now == RoutersOf(st, r) IN [store |-> Sync(st, now), routers |-> now]

Fits(st) == Used(st) \subseteq Ids
Become(st, r) ==
  /\ Fits(st)
  /\ LET after == After(st, r) IN store' = after.store /\ routers' = after.routers

-----------------------------------------------------------------------------
(* Operations of the store.                                                *)
PinnedBoundary(tabs) ==
  LET unpinned == {n \in DOMAIN tabs : ~tabs[n].pinned}
  IN  IF unpinned = {} THEN Len(tabs) ELSE Min(unpinned) - 1

Match(tabs, p) == {n \in DOMAIN tabs : tabs[n].path = p}

(* switchWorkspace with a path: the first tab with that path or a new one. *)
SwitchWorkspace(s, p) ==
  IF s \notin DOMAIN Groups(store)
  THEN [SetGroup(store, s, [tabs |-> <<MakeTab(NewId, p)>>, activeTabId |-> NewId])
          EXCEPT !.active = s]
  ELSE LET tabs == Groups(store)[s].tabs
       IN  IF Match(tabs, p) # {} THEN SetActive(store, tabs[Min(Match(tabs, p))].id)
           ELSE SetActive(SetTabs(store, s, Append(tabs, MakeTab(NewId, p))), NewId)

(* openTab in the active workspace: the first tab with that path becomes   *)
(* the active one; a new one does only when the caller activates it.       *)
OpenTab(p, activate) ==
  LET tabs == Groups(store)[store.active].tabs
      opened == SetTabs(store, store.active, Append(tabs, MakeTab(NewId, p)))
  IN  IF Match(tabs, p) # {} THEN SetActive(store, tabs[Min(Match(tabs, p))].id)
      ELSE IF activate THEN SetActive(opened, NewId) ELSE opened

\* mutant: the group keeps pointing at the tab that was closed
CloseTabOnly(i) ==
  LET s == Owner(store, i)
      tabs == Groups(store)[s].tabs
  IN  IF Len(tabs) = 1
      THEN SetGroup(store, s, [tabs |-> <<MakeTab(NewId, DefaultPath(s))>>, activeTabId |-> NewId])
      ELSE SetTabs(store, s, RemoveAt(tabs, IndexOf(tabs, i)))

(* The last tab of a workspace is replaced by a default one.               *)
CloseTab(i) ==
  LET s == Owner(store, i)
      group == Groups(store)[s]
      n == IndexOf(group.tabs, i)
      rest == RemoveAt(group.tabs, n)
  IN  IF Len(group.tabs) = 1
      THEN SetGroup(store, s, [tabs |-> <<MakeTab(NewId, DefaultPath(s))>>, activeTabId |-> NewId])
      ELSE SetGroup(store, s,
             [tabs |-> rest,
              activeTabId |-> IF group.activeTabId # i THEN group.activeTabId
                              ELSE rest[Min({n, Len(rest)})].id])

(* Pinning puts the tab last of the pinned ones, unpinning first of the    *)
(* others.                                                                 *)
TogglePin(i) ==
  LET s == Owner(store, i)
      tabs == Groups(store)[s].tabs
      n == IndexOf(tabs, i)
      rest == RemoveAt(tabs, n)
  IN  SetTabs(store, s,
        InsertAt(rest, PinnedBoundary(rest) + 1, [tabs[n] EXCEPT !.pinned = ~@]))

\* mutant: a drag goes where it is dropped
ClampNot(tabs, from, to) == to

(* A drag is clamped to the zone of the tab: pinned or not.                *)
Clamp(tabs, from, to) ==
  IF tabs[from].pinned THEN Min({to, PinnedBoundary(tabs)})
  ELSE Max({to, PinnedBoundary(tabs) + 1})

MoveTab(from, to) ==
  LET tabs == Groups(store)[store.active].tabs
      target == Clamp(tabs, from, to)
  IN  SetTabs(store, store.active, InsertAt(RemoveAt(tabs, from), target, tabs[from]))

(* What follows picks "the first" of an object's keys: any of them here.   *)
StoresAt(actives, groups) ==
  {[active |-> a, byWorkspace |-> groups] : a \in IF actives = {} THEN {None} ELSE actives}

(* validateWorkspaceSlugs: groups of other slugs are dropped; the active   *)
(* workspace stays, or is a group that is left, or a valid slug's new one. *)
Seeded(s) == [t \in {s} |-> [tabs |-> <<MakeTab(NewId, DefaultPath(s))>>, activeTabId |-> NewId]]

Validated(valid) ==
  LET left == [s \in DOMAIN Groups(store) \cap valid |-> Groups(store)[s]]
  IN  IF store.active \in valid THEN StoresAt({store.active}, left)
      ELSE IF DOMAIN left # {} \/ valid = {} THEN StoresAt(DOMAIN left, left)
      ELSE UNION {StoresAt({s}, Seeded(s)) : s \in valid}

-----------------------------------------------------------------------------
(* filter: the tabs at the positions in S, in their order.                 *)
Rank(S, n) == Cardinality({m \in S : m <= n})
Filter(tabs, S) == [k \in 1..Cardinality(S) |-> tabs[CHOOSE n \in S : Rank(S, n) = k]]

\* mutant: every workspace starts at its first tab
PointingFirst(tabs, i) == tabs[1].id

(* The persisted store is the live one without the routers.  A start drops *)
(* the tabs whose path is not their group's, then the groups left empty,   *)
(* puts pinned tabs first and mends what no longer points anywhere.        *)
Kept(tabs, s) == Filter(tabs, {n \in DOMAIN tabs : tabs[n].path.slug = s})
PinnedFirst(tabs) ==
  LET pinned == {n \in DOMAIN tabs : tabs[n].pinned}
  IN  Filter(tabs, pinned) \o Filter(tabs, DOMAIN tabs \ pinned)
Pointing(tabs, i) == IF i \in TabIds(tabs) THEN i ELSE tabs[1].id

Merged(persisted) ==
  LET kept(s) == PinnedFirst(Kept(Groups(persisted)[s].tabs, s))
      groups == [s \in {t \in DOMAIN Groups(persisted) : kept(t) # <<>>} |->
                   [tabs |-> kept(s), activeTabId |-> Pointing(kept(s), Groups(persisted)[s].activeTabId)]]
  IN  StoresAt(IF persisted.active \in DOMAIN groups THEN {persisted.active} ELSE DOMAIN groups,
               groups)

(* migrateV1ToV2, migrateV2ToV3: the flat list of version 1, by slug; the  *)
(* active workspace is that of the old active tab.                         *)
Migrated(flat, i) ==
  LET groups == [s \in {flat[n].path.slug : n \in DOMAIN flat} \ {None} |->
                   [tabs |-> Kept(flat, s), activeTabId |-> Pointing(Kept(flat, s), i)]]
      owners == {s \in DOMAIN groups : i \in TabIds(groups[s].tabs)}
  IN  StoresAt(IF owners # {} THEN owners ELSE DOMAIN groups, groups)

(* A first start, or one on what version 1 left: two tabs anywhere, its    *)
(* active tab one of them or gone.                                         *)
Init ==
  /\ \E p, q \in Paths \cup {Root}, i, j \in Ids, k \in Ids \cup {None} :
       /\ i # j
       /\ \E old \in Migrated(<<MakeTab(i, p), MakeTab(j, q)>>, k) : store \in Merged(old)
  /\ routers = [i \in Used(store) |-> Tab(store, i).path]

-----------------------------------------------------------------------------
(* Navigation.  A tab's page pushes on its own router; what is decided     *)
(* before that looks at the active workspace and the active tab.           *)
Live(i) == i \in Used(store) /\ (Background \/ (HasVisible(store) /\ i = Visible(store)))

Moved(i, p) == [routers EXCEPT ![i] = p]
Move(i, p) == Become(store, Moved(i, p))

(* tryRouteToOverlay: an overlay opens and the router is parked on "/".    *)
ToOverlay(i) ==
  /\ Live(i) /\ routers[i] # Root
  /\ Move(i, Root)

ToOtherWorkspace(p) ==
  /\ p.slug # store.active
  /\ Become(SwitchWorkspace(p.slug, p), routers)

\* mutant: a pinned tab moves like any other
ParkedNot(p) == FALSE

(* tryRouteToPinnedNewTab.                                                 *)
Parked(p) ==
  /\ p.slug = store.active
  /\ Tab(store, Visible(store)).pinned /\ routers[Visible(store)] # p

(* What a push makes of the store, and whether the router moves.           *)
Pushed(p) ==
  IF p.slug # store.active THEN SwitchWorkspace(p.slug, p)
  ELSE IF Parked(p) THEN OpenTab(p, TRUE)
  ELSE store
Moves(p) == p.slug = store.active /\ ~Parked(p)
PushedRouters(i, p) == IF Moves(p) THEN Moved(i, p) ELSE routers

Push(i, p) ==
  /\ Live(i) /\ routers[i] # p
  /\ Become(Pushed(p), PushedRouters(i, p))

Replace(i, p) ==
  /\ Live(i) /\ routers[i] # p
  /\ \/ ToOtherWorkspace(p)
     \/ p.slug = store.active /\ Move(i, p)

(* Back or forward: to any page of a workspace the router has been in.     *)
Back(i) ==
  /\ Live(i)
  /\ \E p \in Paths : p.slug \in {Owner(store, i), routers[i].slug} /\ Move(i, p)

OpenInNewTab(p, activate) ==
  /\ HasVisible(store)
  /\ \/ ToOtherWorkspace(p)
     \/ p.slug = store.active /\ Become(OpenTab(p, activate), routers)

(* multica:navigate: a link in a text, or a click on a notification, which *)
(* names the workspace it came from.                                       *)
FollowLink(p) ==
  /\ HasVisible(store)
  /\ Become(OpenTab(p, TRUE), routers)

-----------------------------------------------------------------------------
(* The tab bar, the workspace list, logout and a new start.                *)
AddTab ==
  /\ HasVisible(store)
  /\ LET opened == SetTabs(store, store.active,
                     Append(Groups(store)[store.active].tabs, MakeTab(NewId, DefaultPath(store.active))))
     IN  Become(SetActive(opened, NewId), routers)

Close(i) == i \in Used(store) /\ Become(CloseTab(i), routers)
Activate(i) == i \in Used(store) /\ Become(SetActive(store, i), routers)
Pin(i) == i \in Used(store) /\ Become(TogglePin(i), routers)

Drag(from, to) ==
  /\ HasVisible(store)
  /\ {from, to} \subseteq DOMAIN Groups(store)[store.active].tabs
  /\ Become(MoveTab(from, to), routers)

ReloadActiveTab ==
  /\ HasVisible(store)
  /\ Move(Visible(store), Tab(store, Visible(store)).path)

ValidateWorkspaceSlugs(valid) == \E st \in Validated(valid) : Become(st, routers)

Reset == Become([active |-> None, byWorkspace |-> <<>>], <<>>)

Restart == \E st \in Merged(store) : Become(st, <<>>)

Next ==
  \/ AddTab \/ ReloadActiveTab \/ Reset \/ Restart
  \/ \E p \in Paths : FollowLink(p) \/ \E now \in BOOLEAN : OpenInNewTab(p, now)
  \/ \E i \in Ids : ToOverlay(i) \/ Back(i) \/ Close(i) \/ Activate(i) \/ Pin(i)
  \/ \E i \in Ids, p \in Paths : Push(i, p) \/ Replace(i, p)
  \/ \E from, to \in 1..Cardinality(Ids) : Drag(from, to)
  \/ \E valid \in SUBSET Slugs : ValidateWorkspaceSlugs(valid)

Spec == Init /\ [][Next]_vars

-----------------------------------------------------------------------------
TypeOK ==
  /\ store.active \in Slugs \cup {None} /\ DOMAIN Groups(store) \subseteq Slugs
  /\ \A t \in AllTabs(store) : t \in [id : Ids, path : Paths \cup {Root}, pinned : BOOLEAN]
  /\ DOMAIN routers = Used(store)

(* Every group has a tab and points at one of its own, the active          *)
(* workspace has a group, and no tab is in two places.                     *)
GroupsSound ==
  /\ HasVisible(store) => store.active \in DOMAIN Groups(store)
  /\ \A s \in DOMAIN Groups(store) :
       /\ Groups(store)[s].activeTabId \in TabIds(Groups(store)[s].tabs)
       /\ Cardinality(TabIds(Groups(store)[s].tabs)) = Len(Groups(store)[s].tabs)
       /\ \A t \in DOMAIN Groups(store) \ {s} :
            TabIds(Groups(store)[s].tabs) \cap TabIds(Groups(store)[t].tabs) = {}

(* "pinned tabs always come before unpinned tabs" (tab-store.ts:28).       *)
PinnedFirstAlways ==
  \A s \in DOMAIN Groups(store) : PinnedFirst(Groups(store)[s].tabs) = Groups(store)[s].tabs

(* A restart would bring every tab back that is in its own workspace, in   *)
(* its place, pinned or not, and the active one of its group active.       *)
RestartKeeps ==
  \A st \in Merged(store), s \in DOMAIN Groups(store) :
    LET own == Kept(Groups(store)[s].tabs, s)
    IN  own # <<>> =>
          /\ s \in DOMAIN Groups(st) /\ Groups(st)[s].tabs = own
          /\ Groups(store)[s].activeTabId \in TabIds(own) =>
               Groups(st)[s].activeTabId = Groups(store)[s].activeTabId

(* A hidden tab has navigated away from its stored path.                  *)
Drifted == \E t \in AllTabs(store) : t.path # routers[t.id]

(* A push from the visible tab would show what was pushed, wherever that   *)
(* is - provided no hidden tab has drifted from the path it would be found *)
(* by - and leave a pinned tab where it is.                                *)
PushArrives ==
  HasVisible(store) =>
    \A p \in Paths : routers[Visible(store)] # p /\ Fits(Pushed(p)) =>
      LET from == Visible(store)
          after == After(Pushed(p), PushedRouters(from, p))
      IN  /\ ~Drifted => after.routers[Visible(after.store)] = p
          /\ Tab(store, from).pinned => after.routers[from] = routers[from]
=============================================================================
