-------------------------- MODULE CardPanelsProofs --------------------------
(***************************************************************************)
(* Proofs about CardPanels: what the panels of the card show, for any      *)
(* cameras, users, configurations and bounds, in whichever order reads,    *)
(* loads and tests are answered, time out or come late.                    *)
(***************************************************************************)
EXTENDS CardPanels, TLAPS

-----------------------------------------------------------------------------
(* The inductive invariant.                                                 *)

Reads == [session : Sessions, days : {7, 30}, fresh : BOOLEAN, version : Nat \cup {None}]
Tests == [session : Sessions, fresh : BOOLEAN, expired : BOOLEAN]
Previews == [cam : Cameras \cup {None}, load : Stages \cup {None},
             node : [cam : Cameras, session : Sessions \cup {NoHass}] \cup {None},
             failed : BOOLEAN, late : SUBSET Cameras]

\* The shape of everything but the panels.  The card holds no state that is newer than
\* the integration's.
Basic ==
    /\ attached \in BOOLEAN /\ online \in BOOLEAN /\ hass \in Sessions \cup {NoHass}
    /\ known \in States \cup {None} /\ srv \in States
    /\ known # None => known.version <= srv.version
    /\ expanded \in BOOLEAN /\ days \in {7, 30}
    /\ used \in [BudgetKinds -> Nat]

TabsOK == config \in ConfigTypes /\ tab \in TabNames /\ DefaultIsVisible

\* A read that counts was asked for by the present user, in the range that is chosen,
\* and what the integration answered is not older than what the card knows.
ReadFits ==
    Waiting =>
        /\ history.state = "loading" /\ read.session = hass /\ read.days = days
        /\ Authority /\ known # None
        /\ read.version # None => read.version >= known.version
Panel ==
    /\ history \in [state : HistoryStates, rows : Rows \cup {None}]
    /\ read \in Reads \cup {None}
    /\ (history.rows # None) = (history.state = "ready")
    /\ ReadFits /\ HistoryFits

\* A load has a camera, and nothing on screen yet.
LoadOK(v) == v.load # None => v.cam # None /\ v.node = None /\ ~v.failed
PreviewOK == preview \in Previews /\ LoadOK(preview) /\ PreviewFits /\ pick \in Cameras \cup {None}

\* While an answer to a test may still be told, nothing has been.
Untold == Testing /\ ~test.expired => notice = None
TestOK == test \in Tests \cup {None} /\ Untold

IInv == Basic /\ TabsOK /\ Panel /\ PreviewOK /\ TestOK

-----------------------------------------------------------------------------
(* Tabs and configuration.                                                  *)

LEMMA TabsAre == DOMAIN Tabs = 1..3 /\ TabNames = {"control", "history", "actions"}
<1>1. DOMAIN Tabs = 1..3 /\ Tabs[1] = "control" /\ Tabs[2] = "history" /\ Tabs[3] = "actions"
  BY DEF Tabs
<1>2. 1..3 = {1, 2, 3}  OBVIOUS
<1> QED  BY <1>1, <1>2 DEF TabNames

\* A configuration that the card accepts has a visible tab to begin with.
LEMMA DefaultShows ==
    ASSUME NEW c \in ConfigTypes, CardAccepts(c)
    PROVE  DefaultTab(c) \in VisibleTabs(c) /\ VisibleTabs(c) \subseteq TabNames
<1>1. VisibleTabs(c) \subseteq TabNames /\ VisibleTabs(c) # {}
  BY TabsAre DEF ConfigTypes, VisibleTabs, CardAccepts
<1>2. FirstTab(c) \in VisibleTabs(c)
  <2> DEFINE First(i) == /\ Tabs[i] \in VisibleTabs(c)
                         /\ \A k \in 1..(i - 1) : Tabs[k] \notin VisibleTabs(c)
  <2>1. Tabs[1] = "control" /\ Tabs[2] = "history" /\ Tabs[3] = "actions"  BY DEF Tabs
  <2>2. \E i \in DOMAIN Tabs : First(i)
    <3>1. CASE "control" \in VisibleTabs(c)  BY <3>1, <2>1, TabsAre
    <3>2. CASE "control" \notin VisibleTabs(c) /\ "history" \in VisibleTabs(c)
      <4>1. 1..(2 - 1) = {1}  OBVIOUS
      <4> QED  BY <3>2, <4>1, <2>1, TabsAre
    <3>3. CASE "control" \notin VisibleTabs(c) /\ "history" \notin VisibleTabs(c)
      <4>1. 1..(3 - 1) = {1, 2}  OBVIOUS
      <4> QED  BY <3>3, <4>1, <1>1, <2>1, TabsAre
    <3> QED  BY <3>1, <3>2, <3>3
  <2>3. First(CHOOSE i \in DOMAIN Tabs : First(i))  BY <2>2
  <2> QED  BY <2>3 DEF FirstTab
<1> QED  BY <1>1, <1>2 DEF DefaultTab, CardAccepts

\* What the editor makes of a configuration, and emits, is one that the card accepts.
LEMMA EditorIsSafe ==
    ASSUME NEW old \in ConfigTypes, NEW c \in Candidates(old), EditorAccepts(c)
    PROVE  c \in ConfigTypes /\ CardAccepts(c)
<1>1. VisibleTabs(old) \subseteq TabNames  BY DEF ConfigTypes, VisibleTabs
<1>2. c \in ConfigTypes
  <2>1. CASE \E t \in VisibleTabs(old) : c = [old EXCEPT !.tabs = VisibleTabs(old) \ {t}]
    BY <1>1, <2>1 DEF ConfigTypes
  <2>2. CASE \E t \in TabNames : c = [old EXCEPT !.tabs = VisibleTabs(old) \cup {t}]
    BY <1>1, <2>2 DEF ConfigTypes
  <2>3. CASE \E t \in VisibleTabs(old) : c = [old EXCEPT !.default = t]
    BY <1>1, <2>3 DEF ConfigTypes
  <2>4. CASE \E cams \in SUBSET Cameras : c = [old EXCEPT !.cams = cams]
    BY <2>4 DEF ConfigTypes
  <2>5. CASE c = [old EXCEPT !.compact = ~@]
    BY <2>5 DEF ConfigTypes
  <2> QED  BY <2>1, <2>2, <2>3, <2>4, <2>5 DEF Candidates
<1>3. VisibleTabs(c) # {}  BY DEF EditorAccepts
<1>4. c.tabs # {}
  <2>1. None # {}  BY PanelsAssumption
  <2>2. CASE c.tabs = None  BY ONLY <2>1, <2>2
  <2>3. CASE c.tabs # None  BY <2>3, <1>3 DEF VisibleTabs
  <2> QED  BY <2>2, <2>3
<1> QED  BY <1>2, <1>4 DEF EditorAccepts, CardAccepts

LEMMA SetConfigTabs ==
    ASSUME TabsOK, NEW c \in ConfigTypes, CardAccepts(c), SetConfig(c)
    PROVE  TabsOK'
<1>1. DefaultTab(c) \in VisibleTabs(c) /\ VisibleTabs(c) \subseteq TabNames  BY DefaultShows
<1>2. config' = c /\ tab' \in VisibleTabs(c)  BY <1>1 DEF SetConfig
<1> QED  BY <1>1, <1>2 DEF TabsOK, DefaultIsVisible

\* The steps that change neither the configuration nor the tab.
LEMMA OtherTabs ==
    ASSUME [Next]_vars, ~Write, ~Edit, ~(\E t \in TabNames : SetTab(t)), ~CloseFull
    PROVE  UNCHANGED <<config, tab>>
BY DEF Next, Surroundings, Navigation, Reading, Previewing, Notifying, vars, screen,
       Attach, Detach, GoOffline, GoOnline, Move, Learn, LearnNothing, LearnDenied,
       ChangeSession, OpenFull, PickCamera, Read, Discard, ReadExpires, ServeRead,
       ReadArrives, ReadFails, ReadDenied, ReadIgnored, SetRange, LoadContinues, LoadFails,
       LateLoad, Given, TogglePreview, Test, TestExpires, TestArrives, TestFails, TestDenied,
       TestIgnored

LEMMA TabsStep == ASSUME TabsOK, [Next]_vars PROVE TabsOK'
<1>1. CASE Write
  <2>1. PICK c \in Written : SetConfig(c)  BY <1>1 DEF Write
  <2> QED  BY <2>1, WrittenAssumption, SetConfigTabs
<1>2. CASE Edit
  <2>1. PICK c \in Candidates(config) : EditorAccepts(c) /\ SetConfig(c)  BY <1>2 DEF Edit
  <2> QED  BY <2>1, EditorIsSafe, SetConfigTabs DEF TabsOK
<1>3. ASSUME NEW t \in TabNames, SetTab(t)
      PROVE  TabsOK'
  BY <1>3 DEF SetTab, TabsOK, DefaultIsVisible
<1>4. CASE CloseFull
  BY <1>4, TabsAre DEF CloseFull, TabsOK, DefaultIsVisible
<1>5. CASE UNCHANGED <<config, tab>>
  BY <1>5 DEF TabsOK, DefaultIsVisible
<1> QED  BY <1>1, <1>2, <1>3, <1>4, <1>5, OtherTabs

-----------------------------------------------------------------------------
(* The session, what the card knows, and the bounds.                        *)

LEMMA Bounded ==
    ASSUME used \in [BudgetKinds -> Nat], NEW kind \in BudgetKinds, Use(kind)
    PROVE  used' \in [BudgetKinds -> Nat]
BY DEF Use, BudgetKinds

LEMMA BasicSurroundings == ASSUME Basic, Surroundings PROVE Basic'
<1> USE DEF Basic
<1>1. CASE Attach  BY <1>1 DEF Attach, screen
<1>2. CASE Detach  BY <1>2, Bounded DEF Detach, ClearPanels, screen, BudgetKinds
<1>3. CASE GoOffline  BY <1>3, Bounded DEF GoOffline, ClearPanels, screen, BudgetKinds
<1>4. CASE GoOnline  BY <1>4 DEF GoOnline, screen
<1>5. CASE Move
  <2>1. used' \in [BudgetKinds -> Nat]  BY <1>5, Bounded DEF Move, BudgetKinds
  <2>2. UNCHANGED <<place, known, screen>>  BY <1>5 DEF Move
  <2>3. srv' \in States /\ srv'.version >= srv.version  BY <1>5 DEF Move, States
  <2>4. known # None => known.version <= srv'.version  BY <2>3, PanelsAssumption DEF States
  <2> QED  BY <2>1, <2>2, <2>3, <2>4 DEF place, screen
<1>6. CASE Learn
  <2>1. known' = srv /\ UNCHANGED <<place, screen, srv, used>>  BY <1>6 DEF Learn, ApplyState
  <2>2. srv.version <= srv.version  BY DEF States
  <2> QED  BY <2>1, <2>2 DEF place, screen
<1>7. CASE LearnNothing  BY <1>7 DEF LearnNothing, place, screen
<1>8. CASE LearnDenied  BY <1>8 DEF LearnDenied, Deny, ClearPanels, place, screen
<1>9. ASSUME NEW session \in Sessions \cup {NoHass}, ChangeSession(session)
      PROVE  Basic'
  BY <1>9, Bounded DEF ChangeSession, ClearPanels, screen, BudgetKinds
<1>10. ASSUME NEW c, SetConfig(c)
       PROVE  Basic'
  BY <1>10, Bounded DEF SetConfig, place, BudgetKinds
<1> QED  BY <1>1, <1>2, <1>3, <1>4, <1>5, <1>6, <1>7, <1>8, <1>9, <1>10
         DEF Surroundings, Write, Edit

\* The panels ask for nothing here, and forget what the card knows at most.
LEMMA BasicRest ==
    ASSUME Basic, Navigation \/ Reading \/ Previewing \/ Notifying PROVE Basic'
<1>1. used' \in [BudgetKinds -> Nat]
  BY Bounded DEF Basic, BudgetKinds, Navigation, Reading, Previewing, Notifying, SetTab, OpenFull,
     CloseFull, PickCamera, Read, Discard, ReadExpires, ServeRead, ReadArrives, ReadFails,
     ReadDenied, ReadIgnored, SetRange, LoadContinues, LoadFails, LateLoad, Given,
     TogglePreview, Test, TestExpires, TestArrives, TestFails, TestDenied, TestIgnored
<1>2. UNCHANGED <<place, srv>> /\ known' \in {known, None}
  BY DEF Navigation, Reading, Previewing, Notifying, SetTab, OpenFull,
     CloseFull, PickCamera, Read, Discard, ReadExpires, ServeRead, ReadArrives, ReadFails,
     ReadDenied, ReadIgnored, SetRange, LoadContinues, LoadFails, LateLoad, Given,
     TogglePreview, Test, TestExpires, TestArrives, TestFails, TestDenied, TestIgnored,
     ClearPanels
<1>3. expanded' \in {expanded, TRUE, FALSE} /\ days' \in {days, 7, 30}
  BY DEF Navigation, Reading, Previewing, Notifying, SetTab, OpenFull,
     CloseFull, PickCamera, Read, Discard, ReadExpires, ServeRead, ReadArrives, ReadFails,
     ReadDenied, ReadIgnored, SetRange, LoadContinues, LoadFails, LateLoad, Given,
     TogglePreview, Test, TestExpires, TestArrives, TestFails, TestDenied, TestIgnored, screen
<1> QED  BY <1>1, <1>2, <1>3 DEF Basic, place

-----------------------------------------------------------------------------
(* The history.                                                             *)

\* A history that is invalidated shows nothing, and its read does not count.
LEMMA Invalidated ==
    ASSUME Panel, NEW state \in HistoryStates \ {"ready"}, Invalidate(state)
    PROVE  Panel'
<1>1. None \notin Rows  BY PanelsAssumption
<1>2. history' = [state |-> state, rows |-> None]  BY DEF Invalidate
<1>3. /\ history' \in [state : HistoryStates, rows : Rows \cup {None}]
      /\ (history'.rows # None) = (history'.state = "ready") /\ history'.rows = None
  BY <1>2
<1>4. read' \in Reads \cup {None} /\ ~Waiting'
  BY DEF Panel, Invalidate, Reads, Waiting
<1> QED  BY <1>3, <1>4 DEF Panel, ReadFits, HistoryFits

LEMMA PanelKept ==
    ASSUME Panel, UNCHANGED <<place, known, history, read, days>>
    PROVE  Panel'
BY DEF Panel, ReadFits, HistoryFits, Waiting, Authority, place

\* A newer state with other records invalidates what was read before it; another state
\* with the same records does not change what the history is compared with.
LEMMA PanelLearns == ASSUME Basic, Panel, Learn PROVE Panel'
<1>1. known' = srv /\ UNCHANGED <<place, screen>> /\ Authority  BY DEF Learn, ApplyState
<1>2. CASE (known = None \/ known.version # srv.version) /\ (history.rows # None \/ read # None)
  BY <1>2, Invalidated DEF Learn, ApplyState, HistoryStates
<1>3. CASE history.rows = None /\ read = None /\ KeepHistory
  BY <1>3 DEF KeepHistory, Panel, ReadFits, HistoryFits, Waiting
<1>4. CASE known # None /\ known.version = srv.version /\ KeepHistory
  <2>1. srv # None  BY PanelsAssumption DEF Basic
  <2>2. UNCHANGED <<attached, hass, online, days, history, read>>
    BY <1>1, <1>4 DEF place, screen, KeepHistory
  <2> QED  BY <1>1, <1>4, <2>1, <2>2 DEF Panel, ReadFits, HistoryFits, Waiting, Authority
<1> QED  BY <1>2, <1>3, <1>4 DEF Learn, ApplyState

LEMMA PanelSurroundings == ASSUME Basic, Panel, Surroundings PROVE Panel'
<1> USE DEF HistoryStates
<1>1. CASE Attach \/ Detach \/ GoOffline \/ GoOnline \/ LearnNothing \/ LearnDenied
  BY <1>1, Invalidated DEF Attach, Detach, GoOffline, GoOnline, LearnNothing, LearnDenied, Deny
<1>2. CASE Move  BY <1>2, PanelKept DEF Move, screen
<1>3. CASE Learn  BY <1>3, PanelLearns
<1>4. ASSUME NEW session, ChangeSession(session)
      PROVE  Panel'
  BY <1>4, Invalidated DEF ChangeSession
<1>5. ASSUME NEW c, SetConfig(c)
      PROVE  Panel'
  BY <1>5, Invalidated DEF SetConfig
<1> QED  BY <1>1, <1>2, <1>3, <1>4, <1>5 DEF Surroundings, Write, Edit

LEMMA PanelReading == ASSUME Basic, Panel, Reading PROVE Panel'
<1>1. CASE Read
  <2>1. hass \in Sessions /\ known # None /\ days \in {7, 30} /\ Authority
    BY <1>1 DEF Read, Authority, Sessions, OnHistory, Gated, Basic
  <2>2. /\ history' = [state |-> "loading", rows |-> None]
        /\ read' = [session |-> hass, days |-> days, fresh |-> TRUE, version |-> None]
        /\ UNCHANGED <<attached, hass, online, known, days>>
    BY <1>1 DEF Read, place, screen
  <2>3. /\ read' \in Reads
        /\ history' \in [state : HistoryStates, rows : Rows \cup {None}]
    BY <2>1, <2>2 DEF Reads, HistoryStates
  <2> QED  BY <2>1, <2>2, <2>3 DEF Panel, ReadFits, HistoryFits, Waiting, Authority
<1>2. CASE Discard \/ ReadExpires
  BY <1>2, Invalidated DEF Discard, ReadExpires, Expire, HistoryStates
<1>3. CASE ServeRead
  <2>1. srv.version \in Nat /\ (known # None => srv.version >= known.version)
    BY DEF Basic, States
  <2>2. read \in Reads /\ read' = [read EXCEPT !.version = srv.version]
    BY <1>3 DEF ServeRead, Panel
  <2>3. read' \in Reads /\ read'.version = srv.version /\ (Waiting' => Waiting)
        /\ read'.session = read.session /\ read'.days = read.days
    BY <1>3, <2>1, <2>2 DEF ServeRead, Reads, Waiting
  <2>4. UNCHANGED <<attached, hass, online, known, days, history>>
    BY <1>3 DEF ServeRead, place, screen
  <2> QED  BY <2>1, <2>3, <2>4 DEF Panel, ReadFits, HistoryFits, Authority
<1>4. CASE ReadArrives
  <2>1. /\ read \in Reads /\ read.version \in Nat /\ read.session = hass /\ read.days = days
        /\ Authority /\ known # None /\ read.version >= known.version
    BY <1>4 DEF ReadArrives, Waiting, Panel, ReadFits, Reads
  <2> DEFINE rows == [session |-> read.session, days |-> read.days, version |-> read.version]
  <2>2. rows \in Rows /\ rows # None
    BY <2>1, PanelsAssumption DEF Reads, Rows
  <2>3. history' = [state |-> "ready", rows |-> rows] /\ read' = None
    BY <1>4 DEF ReadArrives
  <2>4. UNCHANGED <<attached, hass, online, known, days>>
    BY <1>4 DEF ReadArrives, place, screen
  <2> QED  BY <2>1, <2>2, <2>3, <2>4
           DEF Panel, ReadFits, HistoryFits, Waiting, Authority, HistoryStates
<1>5. CASE ReadFails \/ ReadDenied
  <2>1. /\ read' = None /\ history'.rows = None /\ history'.state # "ready"
        /\ history' \in [state : HistoryStates, rows : Rows \cup {None}]
    BY <1>5 DEF ReadFails, ReadDenied, HistoryStates
  <2> QED  BY <2>1 DEF Panel, ReadFits, HistoryFits, Waiting
<1>6. CASE ReadIgnored
  <2>1. read' = None /\ UNCHANGED <<attached, hass, online, known, days, history>>
    BY <1>6 DEF ReadIgnored, place, screen
  <2> QED  BY <2>1 DEF Panel, ReadFits, HistoryFits, Waiting, Authority
<1>7. ASSUME NEW d \in {7, 30}, SetRange(d)
      PROVE  Panel'
  BY <1>7, Invalidated DEF SetRange, HistoryStates
<1> QED  BY <1>1, <1>2, <1>3, <1>4, <1>5, <1>6, <1>7 DEF Reading

LEMMA PanelRest == ASSUME Panel, Navigation \/ Previewing \/ Notifying PROVE Panel'
<1>1. CASE TestDenied  BY <1>1, Invalidated DEF TestDenied, HistoryStates
<1>2. CASE ~TestDenied
  <2>1. UNCHANGED <<place, known, history, read, days>>
    BY <1>2 DEF Navigation, Previewing, Notifying, SetTab, OpenFull, CloseFull, PickCamera,
       LoadContinues, LoadFails, LateLoad, Given, TogglePreview, Test, TestExpires,
       TestArrives, TestFails, TestIgnored, screen
  <2> QED  BY <2>1, PanelKept
<1> QED  BY <1>1, <1>2

-----------------------------------------------------------------------------
(* The preview.                                                             *)

LEMMA ClosedIsSafe ==
    ASSUME PreviewOK
    PROVE  /\ ClosePreview \in Previews /\ LoadOK(ClosePreview)
           /\ ClosePreview.cam = None /\ ClosePreview.node = None /\ ClosePreview.load = None
           /\ ~ClosePreview.failed
<1>1. Loading \subseteq Cameras /\ preview.late \subseteq Cameras
  BY DEF PreviewOK, Previews, LoadOK, Loading
<1> DEFINE late == preview.late \cup Loading
<1>2. late \in SUBSET Cameras  BY <1>1
<1>3. ClosePreview = [Closed EXCEPT !.late = late]  BY DEF ClosePreview
<1> HIDE DEF late
<1>4. /\ ClosePreview.cam = None /\ ClosePreview.node = None /\ ClosePreview.load = None
      /\ ClosePreview.failed = FALSE
  BY <1>3 DEF Closed
<1>5. ClosePreview \in Previews  BY <1>2, <1>3 DEF Previews, Closed
<1> QED  BY <1>4, <1>5 DEF LoadOK

LEMMA PickedIsCamera ==
    ASSUME NEW chosen \in Cameras \cup {None}, NEW c, NEW state \in States
    PROVE  Picked(chosen, c, state) \in Cameras \cup {None}
<1>1. VisibleCameras(c, state) \subseteq Cameras  BY DEF VisibleCameras, States
<1>2. VisibleCameras(c, state) # {} =>
        (CHOOSE cam \in VisibleCameras(c, state) : TRUE) \in VisibleCameras(c, state)
  OBVIOUS
<1> QED  BY <1>1, <1>2 DEF Picked

\* _updateUI leaves a preview only to one who may see it.
LEMMA Renders ==
    ASSUME PreviewOK, (known \in States \cup {None})',
           NEW v \in Previews, LoadOK(v), v.node # None => v.node.cam = v.cam /\ v.node.session = hass',
           NEW chosen \in Cameras \cup {None}, RenderCompact(v, chosen)
    PROVE  PreviewOK'
<1>1. pick' \in Cameras \cup {None}
  BY PickedIsCamera DEF RenderCompact
<1>2. Authority' = (attached' /\ hass' \in Admins /\ online')  BY DEF Authority
<1> DEFINE allowed == Previewable(Authority', known')
<1>3. CASE v.cam \notin allowed
  <2>1. preview' = ClosePreview  BY <1>2, <1>3 DEF RenderCompact
  <2> QED  BY <1>1, <2>1, ClosedIsSafe DEF PreviewOK, PreviewFits, LoadOK
<1>4. CASE v.cam \in allowed
  <2>1. v.cam \in Cameras
    BY <1>4 DEF Previewable, States
  <2>2. \/ preview' = v
        \/ preview' = [v EXCEPT !.load = "helpers"] /\ v.node = None /\ ~v.failed
    BY <1>2, <1>4 DEF RenderCompact
  <2>3. None \notin Cameras  BY PanelsAssumption
  <2>4. preview' \in Previews /\ preview'.cam = v.cam /\ preview'.node = v.node /\ LoadOK(preview')
    BY <2>1, <2>2, <2>3 DEF Previews, LoadOK, Stages
  <2>5. (preview.cam)' \in Previewable(Authority', known')  BY <1>4, <2>4
  <2>6. Allowed(preview.cam)'  BY <2>5 DEF Allowed
  <2> QED  BY <1>1, <2>4, <2>6 DEF PreviewOK, PreviewFits, LoadOK
<1> QED  BY <1>3, <1>4

LEMMA RendersKept ==
    ASSUME PreviewOK, (known \in States \cup {None})', UNCHANGED hass, Render(preview)
    PROVE  PreviewOK'
BY Renders DEF PreviewOK, PreviewFits, Render

LEMMA RendersClosed ==
    ASSUME PreviewOK, (known \in States \cup {None})', Render(ClosePreview)
    PROVE  PreviewOK'
BY Renders, ClosedIsSafe DEF PreviewOK, Render

\* A load that goes on, fails or comes late touches only the preview, and shows
\* video only where it was opened.
LEMMA GivenIsSafe ==
    ASSUME Basic, PreviewOK, LoadContinues \/ LoadFails \/ LateLoad
    PROVE  PreviewOK'
<1>1. preview \in Previews /\ LoadOK(preview)  BY DEF PreviewOK
<1>2. UNCHANGED <<attached, hass, online, known, pick>>
  BY DEF LoadContinues, LoadFails, LateLoad, Given, place
<1>3. \A c : Allowed(c)' = Allowed(c)
  BY <1>2 DEF Allowed, Authority
<1>4. CASE LoadContinues /\ Current /\ preview.load # "helpers"
  <2>1. preview' = [preview EXCEPT !.load = None, !.node = Video(preview.cam)]
    BY <1>4 DEF LoadContinues, Given, Loaded
  <2>2. preview.cam \in Cameras /\ Allowed(preview.cam) /\ hass \in Sessions \cup {NoHass}
    BY <1>1, <1>4 DEF Current, Previews, Basic
  <2>3. preview' \in Previews /\ preview'.load = None /\ preview'.cam = preview.cam
        /\ preview'.node = [cam |-> preview.cam, session |-> hass]
    BY <1>1, <2>1, <2>2 DEF Previews, Video
  <2> QED  BY <1>2, <1>3, <2>2, <2>3 DEF PreviewOK, PreviewFits, LoadOK
<1>5. CASE (LoadContinues /\ ~(Current /\ preview.load # "helpers")) \/ LoadFails
  <2>1. preview.load # None /\ preview.node = None /\ preview.cam # None /\ ~preview.failed
    BY <1>1, <1>5 DEF LoadContinues, LoadFails, LoadOK
  <2>2. \/ preview' = [preview EXCEPT !.load = None]
        \/ preview' = [preview EXCEPT !.load = "element"]
        \/ preview' = [preview EXCEPT !.load = None, !.failed = Current]
    BY <1>5 DEF LoadContinues, LoadFails, Given, Loaded, LoadFailed
  <2>3. Current \in BOOLEAN  BY DEF Current
  <2>4. preview' \in Previews /\ LoadOK(preview') /\ preview'.node = None
    BY <1>1, <2>1, <2>2, <2>3 DEF Previews, LoadOK, Stages
  <2> QED  BY <1>2, <2>4 DEF PreviewOK, PreviewFits, LoadOK
<1>6. CASE LateLoad
  <2>1. PICK c \in preview.late : preview' = [preview EXCEPT !.late = @ \ {c}]
    BY <1>6 DEF LateLoad, Given, LateDropped
  <2>2. /\ preview' \in Previews /\ LoadOK(preview')
        /\ preview'.node = preview.node /\ preview'.cam = preview.cam
    BY <1>1, <2>1 DEF Previews, LoadOK
  <2> QED  BY <1>2, <1>3, <2>2 DEF PreviewOK, PreviewFits, LoadOK
<1> QED  BY <1>4, <1>5, <1>6

LEMMA PreviewKept ==
    ASSUME PreviewOK, UNCHANGED <<place, known, preview, pick>>
    PROVE  PreviewOK'
BY DEF PreviewOK, PreviewFits, LoadOK, Allowed, Authority, place

LEMMA PreviewStep ==
    ASSUME Basic, Basic', PreviewOK, Next
    PROVE  PreviewOK'
<1>0. (known \in States \cup {None})'  BY DEF Basic
<1>1. CASE Attach \/ GoOnline \/ Learn \/ LearnNothing
  BY <1>0, <1>1, RendersKept DEF Attach, GoOnline, Learn, LearnNothing, place
<1>2. CASE Detach \/ GoOffline \/ LearnDenied
  BY <1>0, <1>2, RendersClosed DEF Detach, GoOffline, LearnDenied
<1>3. CASE Move  BY <1>3, PreviewKept DEF Move
<1>4. ASSUME NEW session, ChangeSession(session)
      PROVE  PreviewOK'
  BY <1>0, <1>4, RendersClosed DEF ChangeSession
<1>5. ASSUME NEW c, SetConfig(c)
      PROVE  PreviewOK'
  BY <1>0, <1>5, RendersKept DEF SetConfig, place
<1>6. CASE OpenFull \/ CloseFull
  BY <1>0, <1>6, RendersKept DEF OpenFull, CloseFull, place
<1>7. ASSUME NEW t, SetTab(t)
      PROVE  PreviewOK'
  BY <1>0, <1>7, RendersKept, RendersClosed DEF SetTab, AfterTab, place
<1>8. ASSUME NEW c \in Cameras, PickCamera(c)
      PROVE  PreviewOK'
  BY <1>0, <1>8, Renders, ClosedIsSafe DEF PickCamera
<1>9. CASE ServeRead \/ TestIgnored
  BY <1>9, PreviewKept DEF ServeRead, TestIgnored
<1>10. CASE Read \/ Discard \/ ReadExpires \/ ReadArrives \/ ReadFails \/ ReadIgnored
  BY <1>0, <1>10, RendersKept
  DEF Read, Discard, ReadExpires, ReadArrives, ReadFails, ReadIgnored, place
<1>11. CASE ReadDenied \/ TestDenied
  BY <1>0, <1>11, RendersClosed DEF ReadDenied, TestDenied
<1>12. ASSUME NEW d, SetRange(d)
       PROVE  PreviewOK'
  BY <1>0, <1>12, RendersKept DEF SetRange, place
<1>13. CASE LoadContinues \/ LoadFails \/ LateLoad
  BY <1>13, GivenIsSafe
<1>14. ASSUME NEW c \in Cameras, TogglePreview(c)
       PROVE  PreviewOK'
  <2> DEFINE opened == [ClosePreview EXCEPT !.cam = c]
  <2>1. opened \in Previews /\ LoadOK(opened) /\ opened.node = None
    BY ClosedIsSafe DEF Previews, LoadOK
  <2>2. Render(ClosePreview) \/ RenderCompact(opened, pick)
    BY <1>14 DEF TogglePreview, Render
  <2>3. pick \in Cameras \cup {None}  BY DEF PreviewOK
  <2> HIDE DEF opened
  <2> QED  BY <1>0, <2>1, <2>2, <2>3, Renders, RendersClosed
<1>15. CASE Test \/ TestExpires \/ TestArrives \/ TestFails
  BY <1>0, <1>15, RendersKept DEF Test, TestExpires, TestArrives, TestFails, place
<1> QED
  BY <1>1, <1>2, <1>3, <1>4, <1>5, <1>6, <1>7, <1>8, <1>9, <1>10, <1>11, <1>12, <1>13,
     <1>14, <1>15
  DEF Next, Surroundings, Navigation, Reading, Previewing, Notifying, Write, Edit

-----------------------------------------------------------------------------
(* The test notification.                                                   *)

\* A test on the wire that is given up does not count any more.
LEMMA TestCleared == ASSUME TestOK, ClearPanels PROVE TestOK'
BY DEF TestOK, ClearPanels, Tests, Untold, Testing

LEMMA TestStep == ASSUME Basic, TestOK, [Next]_vars PROVE TestOK'
<1>1. CASE Detach \/ GoOffline \/ LearnDenied \/ ReadDenied
  BY <1>1, TestCleared DEF Detach, GoOffline, LearnDenied, Deny, ReadDenied
<1>2. ASSUME NEW session, ChangeSession(session)
      PROVE  TestOK'
  BY <1>2, TestCleared DEF ChangeSession
<1>3. CASE Test
  <2>1. hass \in Sessions  BY <1>3 DEF Test, Authority, Sessions
  <2> QED  BY <1>3, <2>1 DEF Test, TestOK, Tests, Untold, Testing
<1>4. CASE TestExpires
  <2>1. test \in Tests  BY <1>4 DEF TestExpires, Testing, TestOK
  <2>2. test' \in Tests /\ test'.expired
    BY <1>4, <2>1 DEF TestExpires, Tests
  <2> QED  BY <2>2 DEF TestOK, Untold
<1>5. CASE TestArrives \/ TestFails \/ TestDenied \/ TestIgnored
  BY <1>5 DEF TestArrives, TestFails, TestDenied, TestIgnored, TestOK, Untold, Testing
<1>6. CASE UNCHANGED <<test, notice>>
  BY <1>6 DEF TestOK, Untold, Testing
<1>7. \/ Detach \/ GoOffline \/ LearnDenied \/ ReadDenied
      \/ \E session \in Sessions \cup {NoHass} : ChangeSession(session)
      \/ Test \/ TestExpires \/ TestArrives \/ TestFails \/ TestDenied \/ TestIgnored
      \/ UNCHANGED <<test, notice>>
  BY DEF Next, vars, Surroundings, Navigation, Reading, Previewing, Notifying, Attach,
     GoOnline, Move, Learn, LearnNothing, Write, Edit, SetConfig, SetTab, OpenFull, CloseFull,
     PickCamera, Read, Discard, ReadExpires, ServeRead, ReadArrives, ReadFails, ReadIgnored,
     SetRange, LoadContinues, LoadFails, LateLoad, Given, TogglePreview
<1> QED  BY <1>1, <1>2, <1>3, <1>4, <1>5, <1>6, <1>7

-----------------------------------------------------------------------------
(* The invariant.                                                           *)

LEMMA InitEstablishes == Init => IInv
<1> SUFFICES ASSUME Init PROVE IInv  OBVIOUS
<1>1. Basic
  BY DEF Init, Basic, States
<1>2. config \in ConfigTypes /\ CardAccepts(config)  BY WrittenAssumption DEF Init
<1>3. TabsOK
  BY <1>2, DefaultShows DEF Init, TabsOK, DefaultIsVisible
<1>4. Panel
  BY DEF Init, Panel, ReadFits, HistoryFits, Waiting, HistoryStates
<1>5. PreviewOK
  BY DEF Init, PreviewOK, Previews, PreviewFits, LoadOK, Closed
<1>6. TestOK
  BY DEF Init, TestOK, Untold, Testing
<1> QED  BY <1>1, <1>3, <1>4, <1>5, <1>6 DEF IInv

LEMMA NextPreserves == IInv /\ [Next]_vars => IInv'
<1> SUFFICES ASSUME IInv, [Next]_vars PROVE IInv'  OBVIOUS
<1>0. Basic /\ TabsOK /\ Panel /\ PreviewOK /\ TestOK  BY DEF IInv
<1>1. Basic'
  <2>1. CASE Next  BY <1>0, <2>1, BasicSurroundings, BasicRest DEF Next
  <2>2. CASE UNCHANGED vars
    BY <1>0, <2>2 DEF vars, place, screen, Basic
  <2> QED  BY <2>1, <2>2
<1>2. TabsOK'  BY <1>0, TabsStep
<1>3. Panel'
  <2>1. CASE Next  BY <1>0, <2>1, PanelSurroundings, PanelReading, PanelRest DEF Next
  <2>2. CASE UNCHANGED vars
    BY <1>0, <2>2, PanelKept DEF vars, screen
  <2> QED  BY <2>1, <2>2
<1>4. PreviewOK'
  <2>1. CASE Next  BY <1>0, <1>1, <2>1, PreviewStep
  <2>2. CASE UNCHANGED vars  BY <1>0, <2>2, PreviewKept DEF vars
  <2> QED  BY <2>1, <2>2
<1>5. TestOK'  BY <1>0, TestStep
<1> QED  BY <1>1, <1>2, <1>3, <1>4, <1>5 DEF IInv

-----------------------------------------------------------------------------
(* The theorems.                                                            *)

\* The inductive invariant of the panels.
THEOREM AlwaysIInv == Spec => []IInv
<1> QED  BY InitEstablishes, NextPreserves, PTL DEF Spec

\* The shape of the state, and that a read that counts is the one the panel is loading.
THEOREM TypesAreOK == Spec => []TypeOK
<1>1. IInv => TypeOK
  BY DEF IInv, Basic, TabsOK, Panel, ReadFits, PreviewOK, Previews, LoadOK, TypeOK
<1> QED  BY <1>1, AlwaysIInv, PTL

\* Whatever configurations are written and edited one after the other, the card accepts
\* what the visual editor emits and has a visible tab to begin with (setConfig,
\* _visibleTabs, and the editor's _emit).
THEOREM DefaultIsAlwaysVisible == Spec => []DefaultIsVisible
<1>1. IInv => DefaultIsVisible  BY DEF IInv, TabsOK
<1> QED  BY <1>1, AlwaysIInv, PTL

\* A history on screen was read by the present user for the chosen range, and does not
\* lag behind what the card itself knows (_refreshPeriods, _applyState).
THEOREM HistoryAlwaysFits == Spec => []HistoryFits
<1>1. IInv => HistoryFits  BY DEF IInv, Panel
<1> QED  BY <1>1, AlwaysIInv, PTL

\* Live video is only of the camera whose preview is open, for the user who opened it and
\* may see it, however many imports stall or come late (_loadPreview, _syncPreview).
THEOREM PreviewAlwaysFits == Spec => []PreviewFits
<1>1. IInv => PreviewFits  BY DEF IInv, PreviewOK
<1> QED  BY <1>1, AlwaysIInv, PTL

\* A tab that the user leaves takes its preview with it (setActiveTab).
THEOREM LeavingClosesPreview == Spec => TabClosesPreview
<1> DEFINE Left == tab = "control" /\ tab' # "control" /\ config' = config
<1>1. ASSUME PreviewOK, [Next]_vars, Left
      PROVE  preview'.cam = None
  <2>1. ~Write /\ ~Edit /\ ~CloseFull
    BY <1>1 DEF Write, Edit, SetConfig, CloseFull
  <2>2. PICK t \in TabNames : SetTab(t)
    BY <1>1, <2>1, OtherTabs
  <2>3. RenderCompact(ClosePreview, pick) /\ ClosePreview \in Previews /\ ClosePreview.cam = None
    BY <1>1, <2>2, ClosedIsSafe DEF SetTab, AfterTab, Render
  <2>4. preview' = ClosePreview \/ preview' = [ClosePreview EXCEPT !.load = "helpers"]
    BY <2>3 DEF RenderCompact
  <2> QED  BY <2>3, <2>4 DEF Previews
<1>2. IInv /\ [Next]_vars => [Left => preview'.cam = None]_vars
  BY <1>1 DEF IInv
<1> QED  BY <1>2, AlwaysIInv, PTL DEF Spec, TabClosesPreview

\* Only the answer to a read that counts shows a history.
LEMMA OnlyAnswersShow ==
    ASSUME Next, ~ReadArrives, history.state # "ready"
    PROVE  history'.state # "ready"
<1>1. \/ \E state \in HistoryStates \ {"ready"} : Invalidate(state)
      \/ Read \/ ReadFails \/ ReadDenied \/ UNCHANGED history
  BY DEF Next, Surroundings, Navigation, Reading, Previewing, Notifying, Attach, Detach,
     GoOffline, GoOnline, Learn, ApplyState, KeepHistory, LearnNothing, LearnDenied, Deny,
     ChangeSession, Move, Write, Edit, SetConfig, SetTab, OpenFull, CloseFull, PickCamera,
     Discard, ReadExpires, Expire, ServeRead, ReadIgnored, SetRange, LoadContinues,
     LoadFails, LateLoad, Given, TogglePreview, Test, TestExpires, TestArrives, TestFails,
     TestDenied, TestIgnored, HistoryStates
<1> QED  BY <1>1 DEF Invalidate, Read, ReadFails, ReadDenied

\* What is told of a test is told when it expires or is answered.
LEMMA OnlyTestsTell ==
    ASSUME Next, ~TestArrives
    PROVE  notice' \in {notice, None} \/ Told("unconfirmed")
BY DEF Next, Surroundings, Navigation, Reading, Previewing, Notifying, Attach, Detach,
   GoOffline, GoOnline, Learn, LearnNothing, LearnDenied, Deny, ClearPanels,
   ChangeSession, Move, Write, Edit, SetConfig, SetTab, OpenFull, CloseFull, PickCamera,
   Read, ReadFails, ReadArrives, ReadDenied, Discard, ReadExpires, ServeRead, ReadIgnored,
   SetRange, LoadContinues, LoadFails, LateLoad, Given, TogglePreview, Test, TestExpires,
   TestFails, TestDenied, TestIgnored

\* A late history is not shown and a late answer does not turn an unconfirmed test into an
\* accepted one (_periodDeadlineExpired, _testNotification).
THEOREM TimeoutsStayFinal == Spec => TimeoutsAreFinal
<1> DEFINE Final == /\ history.state = "timeout" => history'.state # "ready"
                    /\ notice # None /\ notice.text = "unconfirmed"
                         => notice' = None \/ notice'.text = "unconfirmed"
<1>1. ASSUME IInv, Next
      PROVE  Final
  <2>1. ASSUME history.state = "timeout"
        PROVE  history'.state # "ready"
    <3>1. ~ReadArrives  BY <1>1, <2>1 DEF IInv, Panel, ReadFits, ReadArrives
    <3> QED  BY <1>1, <2>1, <3>1, OnlyAnswersShow
  <2>2. ASSUME notice # None, notice.text = "unconfirmed"
        PROVE  notice' = None \/ notice'.text = "unconfirmed"
    <3>1. CASE TestArrives
      BY <1>1, <2>2, <3>1 DEF IInv, TestOK, Untold, TestArrives, TestTold
    <3>2. CASE ~TestArrives
      BY <1>1, <2>2, <3>2, OnlyTestsTell DEF Told
    <3> QED  BY <3>1, <3>2
  <2> QED  BY <2>1, <2>2
<1>2. IInv /\ [Next]_vars => [Final]_vars  BY <1>1
<1> QED  BY <1>2, AlwaysIInv, PTL DEF Spec, TimeoutsAreFinal
=============================================================================
