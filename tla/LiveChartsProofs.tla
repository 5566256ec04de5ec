--------------------------- MODULE LiveChartsProofs ---------------------------
(***************************************************************************)
(* The websocket carries what the screens hold, and each screen holds what *)
(* it shows as live, for any markets, any number of worker threads and     *)
(* however often the user clicks.                                          *)
(***************************************************************************)
EXTENDS LiveCharts, SequenceTheorems, TLAPS

-----------------------------------------------------------------------------
(* The service.  Its registry, the keys it believes active and the         *)
(* coroutine in charge agree after every call; what was cancelled in time  *)
(* still runs, but is not in charge.                                       *)
ServiceInv ==
  /\ ServiceTypeOK
  /\ activeKeys = Held(subscriptions)
  /\ cancelled \subseteq running
  /\ handle \notin cancelled
  /\ StreamCarriesSubscriptions

Registries == [Owners -> SUBSET Keys]

(* What owners may hold are keys.                                          *)
LEMMA HeldTypes ==
  ASSUME NEW subs \in Registries
  PROVE  Held(subs) \subseteq Keys
BY DEF Held, Registries

(* Every call of the service keeps its registry, keys and coroutine in     *)
(* step (BOT-126).                                                         *)
LEMMA ApplyKeepsService ==
  ASSUME ServiceInv, NEW subs \in Registries, Apply(subs)
  PROVE  ServiceInv'
<1> DEFINE held == Held(subs)
<1>1. held \subseteq Keys BY HeldTypes
<1>2. /\ subscriptions' = subs /\ activeKeys' = held
      /\ Held(subscriptions)' = held
  BY DEF Apply, Held
<1>3. /\ running \subseteq Streams /\ cancelled \subseteq running
      /\ handle \in Streams \cup {None} /\ handle \notin cancelled
      /\ carried \in [Streams -> SUBSET Keys]
      /\ activeKeys = Held(subscriptions)
      /\ \A t \in running \ cancelled : t = handle /\ carried[t] = activeKeys
      /\ handle = None <=> activeKeys = {}
  BY DEF ServiceInv, ServiceTypeOK, StreamCarriesSubscriptions
<1>4. None \notin Streams BY StreamsAssumption DEF None, Streams
<1> HIDE DEF held
<1>5. CASE held = activeKeys
  <2>1. UNCHANGED <<handle, running, carried, cancelled>> BY <1>5 DEF Apply, held
  <2> QED BY <2>1, <1>1, <1>2, <1>3, <1>5
          DEF ServiceInv, ServiceTypeOK, StreamCarriesSubscriptions, Registries
<1>6. CASE held # activeKeys
  <2>1. Replace(held) BY <1>6 DEF Apply, held
  <2>2. cancelled' = cancelled \cup ({handle} \cap running) BY <2>1 DEF Replace
  <2>3. CASE held = {}
    <3>1. handle' = None /\ running' = running /\ carried' = carried
      BY <2>1, <2>3 DEF Replace
    <3> QED BY <3>1, <2>2, <2>3, <1>1, <1>2, <1>3, <1>4
            DEF ServiceInv, ServiceTypeOK, StreamCarriesSubscriptions, Registries
  <2>4. CASE held # {}
    <3>1. PICK t \in Streams :
             /\ t \notin running \cup {handle}
             /\ handle' = t /\ running' = running \cup {t}
             /\ carried' = [carried EXCEPT ![t] = held]
      BY <2>1, <2>4 DEF Replace
    <3>2. /\ carried'[t] = held
          /\ carried' \in [Streams -> SUBSET Keys]
      BY <3>1, <1>1, <1>3
    <3>3. \A s \in running' \ cancelled' : s = t
      BY <3>1, <2>2, <1>3
    <3> QED BY <3>1, <3>2, <3>3, <2>2, <2>4, <1>1, <1>2, <1>3, <1>4
            DEF ServiceInv, ServiceTypeOK, StreamCarriesSubscriptions, Registries
  <2> QED BY <2>3, <2>4
<1> QED BY <1>5, <1>6

(* The calls, with what they leave in the registry.                        *)
LEMMA SubscribeKeepsService ==
  ASSUME ServiceInv, NEW owner \in Owners, NEW key \in Keys, Subscribe(owner, key)
  PROVE  /\ ServiceInv'
         /\ subscriptions' = [subscriptions EXCEPT ![owner] = {key}]
<1>1. [subscriptions EXCEPT ![owner] = {key}] \in Registries
  BY DEF ServiceInv, ServiceTypeOK, Registries
<1>2. Apply([subscriptions EXCEPT ![owner] = {key}]) BY DEF Subscribe
<1> QED BY <1>1, <1>2, ApplyKeepsService DEF Apply

LEMMA ReleaseKeepsService ==
  ASSUME ServiceInv, NEW owner \in Owners, Release(owner)
  PROVE  /\ ServiceInv'
         /\ subscriptions' = [subscriptions EXCEPT ![owner] = {}]
<1>1. [subscriptions EXCEPT ![owner] = {}] \in Registries
  BY DEF ServiceInv, ServiceTypeOK, Registries
<1>2. Apply([subscriptions EXCEPT ![owner] = {}]) BY DEF Release
<1> QED BY <1>1, <1>2, ApplyKeepsService DEF Apply

LEMMA StopAllKeepsService ==
  ASSUME ServiceInv, StopAll
  PROVE  /\ ServiceInv'
         /\ subscriptions' = [o \in Owners |-> {}]
<1>1. [o \in Owners |-> {}] \in Registries BY DEF Registries
<1>2. Apply([o \in Owners |-> {}]) BY DEF StopAll
<1> QED BY <1>1, <1>2, ApplyKeepsService DEF Apply

LEMMA StreamKeepsService ==
  ASSUME ServiceInv, NEW t \in Streams, Die(t) \/ EndCancelled(t)
  PROVE  ServiceInv' /\ subscriptions' = subscriptions
BY DEF ServiceInv, ServiceTypeOK, StreamCarriesSubscriptions, Held, Die, EndCancelled

LEMMA UnchangedService ==
  ASSUME ServiceInv, UNCHANGED serviceVars
  PROVE  ServiceInv' /\ subscriptions' = subscriptions
BY DEF ServiceInv, ServiceTypeOK, StreamCarriesSubscriptions, Held, serviceVars

LEMMA InitService == ServiceInit => ServiceInv
BY DEF ServiceInit, ServiceInv, ServiceTypeOK, StreamCarriesSubscriptions, Held, None

-----------------------------------------------------------------------------
(* The trading chart.  At most one worker still believes in its token: it  *)
(* is the newest, works for the market selected, and has reported nothing. *)
Works(l) == loading[l].step # "idle" /\ ~loading[l].cancelled

LoaderInv(l) ==
  /\ Works(l) => loading[l].market = chart /\ status = "none" /\ closing = "no"
  /\ loading[l].live => live
  /\ loading[l].step = "subscribe" =>
       loading[l].live /\ (loading[l].cancelled => chartSlipped)

ChartFollowed ==
  ~chartSlipped =>
    subscriptions["trading"] =
      IF status = "streaming" /\ closing # "stopped" THEN {chart} ELSE {}

ChartInv ==
  /\ ChartTypeOK
  /\ \A k, l \in Loaders : Works(k) /\ Works(l) => k = l
  /\ \A l \in Loaders : LoaderInv(l)
  /\ ~live => subscriptions["trading"] = {}
  /\ ChartFollowed

LEMMA OwnerFacts == "trading" \in Owners /\ "dashboard" \in Owners /\ "trading" # "dashboard"
BY OwnersAssumption

LEMMA ChartFrame ==
  ASSUME ChartInv, UNCHANGED <<chartVars, closing>>,
         subscriptions'["trading"] = subscriptions["trading"]
  PROVE  ChartInv'
BY DEF ChartInv, ChartTypeOK, Works, LoaderInv, ChartFollowed, chartVars

(* A new worker leaves every other one without its token.                  *)
LEMMA NewLoadFacts ==
  ASSUME ChartInv, NEW l \in Loaders, NEW market \in Keys, NEW goLive \in BOOLEAN,
         NewLoad(l, market, goLive)
  PROVE  /\ loading' \in [Loaders -> [step : {"idle", "sync", "history", "subscribe"},
                                      market : Keys, live : BOOLEAN, cancelled : BOOLEAN]]
         /\ loading'[l].market = market /\ loading'[l].live = goLive
         /\ loading'[l].step # "subscribe"
         /\ \A k \in Loaders \ {l} :
              /\ loading'[k].cancelled /\ loading'[k].step = loading[k].step
              /\ loading'[k].live = loading[k].live
              /\ loading'[k].step = "subscribe" => chartSlipped'
         /\ status' = "none" /\ chartSlipped' \in BOOLEAN
<1>1. loading' = [k \in Loaders |-> IF k = l THEN Load(market, goLive)
                                    ELSE [loading[k] EXCEPT !.cancelled = TRUE]]
  BY DEF NewLoad
<1>2. loading'[l] = Load(market, goLive) BY <1>1
<1>3. \A k \in Loaders \ {l} : loading'[k] = [loading[k] EXCEPT !.cancelled = TRUE]
  BY <1>1
<1>4. status' = "none" /\ chartSlipped' = AtSubscribe BY DEF NewLoad
<1>5. Load(market, goLive) \in [step : {"idle", "sync", "history", "subscribe"},
                               market : Keys, live : BOOLEAN, cancelled : BOOLEAN]
  BY DEF Load
<1>6. \A k \in Loaders : loading[k] \in [step : {"idle", "sync", "history", "subscribe"},
                               market : Keys, live : BOOLEAN, cancelled : BOOLEAN]
  BY DEF ChartInv, ChartTypeOK
<1>7. \A k \in Loaders \ {l} : loading[k].step = "subscribe" => chartSlipped'
  BY <1>4 DEF AtSubscribe
<1>8. \A k \in Loaders : loading'[k] \in [step : {"idle", "sync", "history", "subscribe"},
                               market : Keys, live : BOOLEAN, cancelled : BOOLEAN]
  <2> TAKE k \in Loaders
  <2>1. CASE k = l BY <2>1, <1>2, <1>5
  <2>2. CASE k # l
    <3>1. loading'[k] = [loading[k] EXCEPT !.cancelled = TRUE] BY <2>2, <1>3
    <3>2. loading[k] \in [step : {"idle", "sync", "history", "subscribe"},
                          market : Keys, live : BOOLEAN, cancelled : BOOLEAN]
      BY <1>6
    <3> QED BY <3>1, <3>2
  <2> QED BY <2>1, <2>2
<1>9. loading' \in [Loaders -> [step : {"idle", "sync", "history", "subscribe"},
                               market : Keys, live : BOOLEAN, cancelled : BOOLEAN]]
  BY <1>1, <1>8
<1>10. chartSlipped' \in BOOLEAN BY <1>4 DEF AtSubscribe
<1>11. /\ loading'[l].market = market /\ loading'[l].live = goLive
       /\ loading'[l].step # "subscribe"
  BY <1>2 DEF Load
<1>12. \A k \in Loaders \ {l} :
              /\ loading'[k].cancelled /\ loading'[k].step = loading[k].step
              /\ loading'[k].live = loading[k].live
  BY <1>3, <1>6
<1> QED BY <1>4, <1>7, <1>9, <1>10, <1>11, <1>12

LEMMA ChangeChartKeeps ==
  ASSUME ServiceInv, ChartInv, NEW l \in Loaders, NEW market \in Keys,
         ChangeChart(l, market), closing = "no", closing' = closing
  PROVE  /\ ServiceInv' /\ ChartInv'
         /\ subscriptions'["dashboard"] = subscriptions["dashboard"]
<1>1. live \in BOOLEAN BY DEF ChartInv, ChartTypeOK
<1>2. NewLoad(l, market, live) /\ chart' = market /\ live' = live
  BY DEF ChangeChart
<1>3. /\ ServiceInv' /\ subscriptions'["trading"] = {}
      /\ subscriptions'["dashboard"] = subscriptions["dashboard"]
  <2>1. CASE live
    <3>1. Release("trading") BY <2>1 DEF ChangeChart
    <3>2. ServiceInv' /\ subscriptions' = [subscriptions EXCEPT !["trading"] = {}]
      BY <3>1, OwnerFacts, ReleaseKeepsService
    <3> QED BY <3>2, OwnerFacts DEF ServiceInv, ServiceTypeOK
  <2>2. CASE ~live
    <3>1. UNCHANGED serviceVars BY <2>2 DEF ChangeChart
    <3> QED BY <3>1, <2>2, UnchangedService DEF ChartInv
  <2> QED BY <2>1, <2>2
<1>4. /\ loading'[l].market = market /\ loading'[l].live = live
      /\ loading'[l].step # "subscribe"
      /\ \A k \in Loaders \ {l} :
           /\ loading'[k].cancelled
           /\ loading'[k].step = "subscribe" => loading[k].step = "subscribe" /\ chartSlipped'
           /\ loading'[k].live = loading[k].live
      /\ status' = "none"
  BY <1>1, <1>2, NewLoadFacts
<1>5. ChartTypeOK' BY <1>1, <1>2, NewLoadFacts DEF ChartTypeOK
<1>6. \A k \in Loaders : Works(k)' => k = l BY <1>4 DEF Works
<1>7. ASSUME NEW k \in Loaders PROVE LoaderInv(k)'
  <2>1. CASE k = l BY <2>1, <1>2, <1>4 DEF LoaderInv
  <2>2. CASE k # l
    <3>1. LoaderInv(k) BY DEF ChartInv
    <3> QED BY <3>1, <2>2, <1>2, <1>4 DEF LoaderInv, Works
  <2> QED BY <2>1, <2>2
<1>8. ChartFollowed' BY <1>3, <1>4 DEF ChartFollowed
<1> QED BY <1>2, <1>3, <1>5, <1>6, <1>7, <1>8 DEF ChartInv

LEMMA GoLiveKeeps ==
  ASSUME ServiceInv, ChartInv, NEW l \in Loaders, GoLive(l), closing = "no", closing' = closing
  PROVE  /\ ServiceInv' /\ ChartInv'
         /\ subscriptions'["dashboard"] = subscriptions["dashboard"]
<1>1. chart \in Keys /\ ~live /\ live' = TRUE /\ chart' = chart /\ NewLoad(l, chart, TRUE)
  BY DEF GoLive, ChartInv, ChartTypeOK
<1>2. ServiceInv' /\ subscriptions' = subscriptions BY UnchangedService DEF GoLive
<1>3. /\ loading'[l].market = chart /\ loading'[l].step # "subscribe"
      /\ \A k \in Loaders \ {l} :
           /\ loading'[k].cancelled
           /\ loading'[k].step = "subscribe" => loading[k].step = "subscribe" /\ chartSlipped'
           /\ loading'[k].live = loading[k].live
      /\ status' = "none"
  BY <1>1, NewLoadFacts
<1>4. ChartTypeOK' BY <1>1, NewLoadFacts DEF ChartTypeOK
<1>5. \A k \in Loaders : Works(k)' => k = l BY <1>3 DEF Works
<1>6. ASSUME NEW k \in Loaders PROVE LoaderInv(k)'
  <2>1. CASE k = l BY <2>1, <1>1, <1>3 DEF LoaderInv
  <2>2. CASE k # l
    <3>1. LoaderInv(k) BY DEF ChartInv
    <3> QED BY <3>1, <2>2, <1>1, <1>3 DEF LoaderInv, Works
  <2> QED BY <2>1, <2>2
<1>7. ChartFollowed'
  BY <1>1, <1>2, <1>3 DEF ChartInv, ChartFollowed
<1> QED BY <1>1, <1>2, <1>4, <1>5, <1>6, <1>7 DEF ChartInv

(* A worker moves on: only its step changes.                               *)
LEMMA GoesFacts ==
  ASSUME ChartInv, NEW l \in Loaders, NEW step \in {"idle", "sync", "history", "subscribe"},
         Goes(l, step)
  PROVE  /\ loading' \in [Loaders -> [step : {"idle", "sync", "history", "subscribe"},
                                      market : Keys, live : BOOLEAN, cancelled : BOOLEAN]]
         /\ \A k \in Loaders \ {l} : loading'[k] = loading[k]
         /\ loading'[l].step = step /\ loading'[l].market = loading[l].market
         /\ loading'[l].live = loading[l].live
         /\ loading'[l].cancelled = loading[l].cancelled
<1>1. loading' = [loading EXCEPT ![l].step = step] BY DEF Goes
<1>2. loading \in [Loaders -> [step : {"idle", "sync", "history", "subscribe"},
                               market : Keys, live : BOOLEAN, cancelled : BOOLEAN]]
  BY DEF ChartInv, ChartTypeOK
<1> QED BY <1>1, <1>2

(* Between its calls a worker looks at its token, so that one which goes   *)
(* on to subscribe still has it.                                           *)
LEMMA SilentStepKeeps ==
  ASSUME ServiceInv, ChartInv, NEW l \in Loaders, SyncChart(l) \/ LoadHistory(l),
         closing' = closing
  PROVE  ServiceInv' /\ ChartInv' /\ subscriptions' = subscriptions
<1>1. ServiceInv' /\ subscriptions' = subscriptions
  BY UnchangedService DEF SyncChart, LoadHistory
<1>2. UNCHANGED <<chart, live, status, chartSlipped>> BY DEF SyncChart, LoadHistory
<1>3. /\ loading[l].step # "idle"
      /\ \/ loading[l].cancelled /\ Goes(l, "idle")
         \/ ~loading[l].cancelled /\ Goes(l, "history")
         \/ ~loading[l].cancelled /\ loading[l].live /\ Goes(l, "subscribe")
         \/ Goes(l, "idle")
  BY DEF SyncChart, LoadHistory
<1>4. CASE Goes(l, "idle")
  BY <1>1, <1>2, <1>3, <1>4, GoesFacts DEF ChartInv, ChartTypeOK, Works, LoaderInv, ChartFollowed
<1>5. CASE ~loading[l].cancelled /\ Goes(l, "history")
  BY <1>1, <1>2, <1>3, <1>5, GoesFacts DEF ChartInv, ChartTypeOK, Works, LoaderInv, ChartFollowed
<1>6. CASE ~loading[l].cancelled /\ loading[l].live /\ Goes(l, "subscribe")
  BY <1>1, <1>2, <1>3, <1>6, GoesFacts DEF ChartInv, ChartTypeOK, Works, LoaderInv, ChartFollowed
<1> QED BY <1>1, <1>3, <1>4, <1>5, <1>6

LEMMA StartStreamKeeps ==
  ASSUME ServiceInv, ChartInv, NEW l \in Loaders, StartStream(l), closing' = closing
  PROVE  /\ ServiceInv' /\ ChartInv'
         /\ subscriptions'["dashboard"] = subscriptions["dashboard"]
<1>1. loading[l].market \in Keys /\ loading[l].step = "subscribe"
  BY DEF ChartInv, ChartTypeOK, StartStream
<1>2. Subscribe("trading", loading[l].market) BY DEF StartStream
<1>3. /\ ServiceInv'
      /\ subscriptions' = [subscriptions EXCEPT !["trading"] = {loading[l].market}]
  BY <1>1, <1>2, OwnerFacts, SubscribeKeepsService
<1>4. /\ subscriptions'["trading"] = {loading[l].market}
      /\ subscriptions'["dashboard"] = subscriptions["dashboard"]
  BY <1>3, OwnerFacts DEF ServiceInv, ServiceTypeOK
<1>5. /\ UNCHANGED <<chart, live, chartSlipped>> /\ Goes(l, "idle")
      /\ status' = IF loading[l].cancelled THEN status ELSE "streaming"
  BY DEF StartStream, Report
<1>6. LoaderInv(l) /\ live BY <1>1 DEF ChartInv, LoaderInv
<1>7. ChartInv'
  <2>1. CASE loading[l].cancelled
    BY <2>1, <1>1, <1>4, <1>5, <1>6, GoesFacts
       DEF ChartInv, ChartTypeOK, Works, LoaderInv, ChartFollowed
  <2>2. CASE ~loading[l].cancelled
    <3>1. Works(l) /\ loading[l].market = chart /\ closing = "no"
      BY <2>2, <1>1, <1>6 DEF Works, LoaderInv
    <3>2. \A k \in Loaders : ~Works(k)'
      BY <3>1, <1>5, GoesFacts DEF ChartInv, Works
    <3>3. ChartTypeOK' BY <1>5, <2>2, GoesFacts DEF ChartInv, ChartTypeOK
    <3>4. \A k \in Loaders : LoaderInv(k)'
      BY <3>2, <1>5, GoesFacts DEF ChartInv, LoaderInv
    <3>5. ChartFollowed' BY <3>1, <1>4, <1>5, <2>2 DEF ChartFollowed
    <3> QED BY <3>2, <3>3, <3>4, <3>5, <1>5, <1>6 DEF ChartInv
  <2> QED BY <2>1, <2>2
<1> QED BY <1>3, <1>4, <1>7

LEMMA LoadFailsKeeps ==
  ASSUME ServiceInv, ChartInv, NEW l \in Loaders, LoadFails(l), closing' = closing
  PROVE  ServiceInv' /\ ChartInv' /\ subscriptions' = subscriptions
<1>1. ServiceInv' /\ subscriptions' = subscriptions BY UnchangedService DEF LoadFails
<1>2. /\ UNCHANGED <<chart, live, chartSlipped>> /\ Goes(l, "idle")
      /\ status' = IF loading[l].cancelled THEN status ELSE "failed"
      /\ loading[l].step # "idle"
  BY DEF LoadFails, Report
<1>3. ChartTypeOK' BY <1>2, GoesFacts DEF ChartInv, ChartTypeOK
<1>4. \A k \in Loaders : Works(k)' => Works(k) /\ k # l
  BY <1>2, GoesFacts DEF Works
<1>5. \A k \in Loaders : Works(k)' => status' = status
  BY <1>2, <1>4 DEF ChartInv, Works
<1>6. \A k \in Loaders : LoaderInv(k)'
  BY <1>2, <1>4, <1>5, GoesFacts DEF ChartInv, LoaderInv
<1>7. ChartFollowed'
  BY <1>1, <1>2 DEF ChartInv, ChartFollowed, LoaderInv, Works
<1> QED BY <1>1, <1>2, <1>3, <1>4, <1>6, <1>7 DEF ChartInv

LEMMA CloseChart ==
  ASSUME ServiceInv, ChartInv, CloseScreens
  PROVE  ServiceInv' /\ ChartInv' /\ subscriptions' = subscriptions
<1>1. ServiceInv' /\ subscriptions' = subscriptions BY UnchangedService DEF CloseScreens
<1>2. /\ UNCHANGED <<chart, live, status>> /\ closing = "no" /\ closing' = "screens"
      /\ chartSlipped' = (chartSlipped \/ AtSubscribe)
      /\ loading' = [l \in Loaders |-> [loading[l] EXCEPT !.cancelled = TRUE]]
  BY DEF CloseScreens
<1>3. \A l \in Loaders :
        /\ loading'[l] \in [step : {"idle", "sync", "history", "subscribe"},
                            market : Keys, live : BOOLEAN, cancelled : BOOLEAN]
        /\ loading'[l].cancelled /\ loading'[l].step = loading[l].step
        /\ loading'[l].live = loading[l].live
  <2> TAKE l \in Loaders
  <2>1. loading'[l] = [loading[l] EXCEPT !.cancelled = TRUE] BY <1>2
  <2>2. loading[l] \in [step : {"idle", "sync", "history", "subscribe"},
                        market : Keys, live : BOOLEAN, cancelled : BOOLEAN]
    BY DEF ChartInv, ChartTypeOK
  <2> QED BY <2>1, <2>2
<1>4. ChartTypeOK'
  <2>1. loading' \in [Loaders -> [step : {"idle", "sync", "history", "subscribe"},
                                  market : Keys, live : BOOLEAN, cancelled : BOOLEAN]]
    BY <1>2, <1>3
  <2>2. chartSlipped' \in BOOLEAN BY <1>2 DEF ChartInv, ChartTypeOK, AtSubscribe
  <2> QED BY <1>2, <2>1, <2>2 DEF ChartInv, ChartTypeOK
<1>5. \A l \in Loaders : ~Works(l)' BY <1>3 DEF Works
<1>6. \A l \in Loaders : LoaderInv(l)'
  BY <1>2, <1>3, <1>5 DEF ChartInv, LoaderInv, AtSubscribe
<1>7. ChartFollowed' BY <1>1, <1>2 DEF ChartInv, ChartFollowed
<1> QED BY <1>1, <1>2, <1>4, <1>5, <1>6, <1>7 DEF ChartInv

LEMMA StopServiceKeepsChart ==
  ASSUME ServiceInv, ChartInv, StopService
  PROVE  /\ ServiceInv' /\ ChartInv'
         /\ subscriptions'["trading"] = {} /\ subscriptions'["dashboard"] = {}
<1>1. /\ ServiceInv' /\ subscriptions'["trading"] = {} /\ subscriptions'["dashboard"] = {}
  BY StopAllKeepsService, OwnerFacts DEF StopService
<1>2. UNCHANGED chartVars /\ closing = "screens" /\ closing' = "stopped" BY DEF StopService
<1> QED BY <1>1, <1>2 DEF ChartInv, ChartTypeOK, Works, LoaderInv, ChartFollowed, chartVars

LEMMA InitChart == Init => ServiceInv /\ ChartInv
<1> SUFFICES ASSUME Init PROVE ServiceInv /\ ChartInv
  OBVIOUS
<1>1. ServiceInv /\ subscriptions["trading"] = {}
  BY InitService, OwnerFacts DEF Init, ServiceInit
<1>2. /\ chart \in Keys /\ live \in BOOLEAN /\ status = "none" /\ chartSlipped = FALSE
      /\ closing = "no"
  BY FirstAssumption DEF Init, ChartInit
<1> DEFINE first == CHOOSE k \in Loaders : TRUE
<1>3. loading = [k \in Loaders |-> IF k = first THEN Load(chart, live) ELSE Idle(chart)]
  BY DEF Init, ChartInit
<1> HIDE DEF first
<1>4. \A k \in Loaders :
        /\ loading[k] \in [step : {"idle", "sync", "history", "subscribe"},
                           market : Keys, live : BOOLEAN, cancelled : BOOLEAN]
        /\ loading[k].market = chart /\ loading[k].step # "subscribe"
        /\ loading[k].live => live
        /\ loading[k].step # "idle" => k = first
  BY <1>2, <1>3 DEF Load, Idle
<1>5. loading \in [Loaders -> [step : {"idle", "sync", "history", "subscribe"},
                               market : Keys, live : BOOLEAN, cancelled : BOOLEAN]]
  BY <1>3, <1>4
<1> QED BY <1>1, <1>2, <1>4, <1>5
        DEF ChartInv, ChartTypeOK, Works, LoaderInv, ChartFollowed

-----------------------------------------------------------------------------
(* The dashboard, while nothing has slipped: a worker that still works on  *)
(* a start is awaited by the LOCKED screen, which holds no stream yet; a   *)
(* report that is not stale is the only one, and the screen awaits it.     *)
Awaited == worker # NoWorker /\ worker.step \in {"sync", "history", "subscribe"} /\ ~worker.cancelled

AwaitedInv ==
  Awaited => /\ mode = "LOCKED" /\ worker.market = started /\ closing = "no"
             /\ subscriptions["dashboard"] = {}
             /\ \A i \in DOMAIN reports : reports[i].stale

ReportInv ==
  \A i \in DOMAIN reports :
    ~reports[i].stale =>
      /\ mode = "LOCKED"
      /\ reports[i].kind = "failed" => subscriptions["dashboard"] = {}
      /\ reports[i].kind = "success" /\ closing # "stopped" => subscriptions["dashboard"] # {}
      /\ \A j \in DOMAIN reports : ~reports[j].stale => i = j

BoardFollowed ==
  /\ subscriptions["dashboard"] \subseteq {started}
  /\ mode = "LIVE" /\ closing # "stopped" => subscriptions["dashboard"] # {}
  /\ mode = "IDLE" \/ closing = "stopped" => subscriptions["dashboard"] = {}

BoardInv ==
  /\ BoardTypeOK
  /\ StandsAtSubscribe /\ worker.cancelled => boardSlipped
  /\ ~boardSlipped => AwaitedInv /\ ReportInv /\ BoardFollowed

LEMMA BoardFrame ==
  ASSUME BoardInv, UNCHANGED <<boardVars, closing>>,
         subscriptions'["dashboard"] = subscriptions["dashboard"]
  PROVE  BoardInv'
BY DEF BoardInv, BoardTypeOK, StandsAtSubscribe, Awaited, AwaitedInv, ReportInv, BoardFollowed,
       boardVars

LEMMA InitBoard == Init => BoardInv
<1> SUFFICES ASSUME Init PROVE BoardInv
  OBVIOUS
<1>1. /\ board \in Keys /\ mode = "IDLE" /\ worker = NoWorker /\ reports = << >>
      /\ started = board /\ boardSlipped = FALSE /\ closing = "no"
      /\ subscriptions["dashboard"] = {}
  BY BoardAssumption, OwnerFacts DEF Init, BoardInit, ServiceInit
<1>2. reports \in Seq([kind : {"success", "failed"}, stale : BOOLEAN]) /\ DOMAIN reports = {}
  BY <1>1
<1>3. BoardTypeOK BY <1>1, <1>2 DEF BoardTypeOK
<1> QED BY <1>1, <1>2, <1>3
        DEF BoardInv, StandsAtSubscribe, Awaited, AwaitedInv, ReportInv, BoardFollowed

-----------------------------------------------------------------------------
(* Helpers on the queue and the worker. *)

ReportSet == [kind : {"success", "failed"}, stale : BOOLEAN]

LEMMA SupersededFacts ==
  ASSUME NEW queue \in Seq(ReportSet)
  PROVE  /\ Superseded(queue) \in Seq(ReportSet)
         /\ \A i \in DOMAIN Superseded(queue) : Superseded(queue)[i].stale
<1>1. /\ Len(queue) \in Nat /\ DOMAIN queue = 1 .. Len(queue)
      /\ \A i \in 1 .. Len(queue) : queue[i] \in ReportSet
  BY LenProperties, ElementOfSeq
<1>2. \A i \in 1 .. Len(queue) :
        /\ [queue[i] EXCEPT !.stale = TRUE] \in ReportSet
        /\ [queue[i] EXCEPT !.stale = TRUE].stale
  <2> TAKE i \in 1 .. Len(queue)
  <2>1. queue[i] \in ReportSet BY <1>1
  <2> QED BY <2>1 DEF ReportSet
<1>3. Superseded(queue) = [i \in 1 .. Len(queue) |-> [queue[i] EXCEPT !.stale = TRUE]]
  BY <1>1 DEF Superseded
<1>4. Superseded(queue) \in [1 .. Len(queue) -> ReportSet] BY <1>2, <1>3
<1>5. Superseded(queue) \in Seq(ReportSet) BY <1>1, <1>4, SeqDef
<1>6. \A i \in DOMAIN Superseded(queue) : Superseded(queue)[i].stale BY <1>2, <1>3
<1> QED BY <1>5, <1>6

LEMMA EmitFacts ==
  ASSUME BoardInv, worker # NoWorker, NEW kind \in {"success", "failed"}, Emit(kind)
  PROVE  /\ reports' \in Seq(ReportSet)
         /\ DOMAIN reports' = DOMAIN reports \cup {Len(reports) + 1}
         /\ Len(reports) + 1 \notin DOMAIN reports
         /\ \A i \in DOMAIN reports : reports'[i] = reports[i]
         /\ reports'[Len(reports) + 1].kind = kind
         /\ reports'[Len(reports) + 1].stale = worker.cancelled
<1>1. reports \in Seq(ReportSet) BY DEF BoardInv, BoardTypeOK, ReportSet
<1>2. worker.cancelled \in BOOLEAN BY DEF BoardInv, BoardTypeOK, BoardWorkers
<1> DEFINE e == [kind |-> kind, stale |-> worker.cancelled]
<1>3. e \in ReportSet /\ e.kind = kind /\ e.stale = worker.cancelled BY <1>2 DEF ReportSet
<1>4. reports' = Append(reports, e) BY DEF Emit
<1> HIDE DEF e
<1>5. Len(reports) \in Nat /\ DOMAIN reports = 1 .. Len(reports)
  BY <1>1, LenProperties
<1>6. /\ reports' \in Seq(ReportSet) /\ Len(reports') = Len(reports) + 1
      /\ \A i \in 1 .. Len(reports) : reports'[i] = reports[i]
      /\ reports'[Len(reports) + 1] = e
  BY <1>1, <1>3, <1>4, AppendProperties
<1>7. DOMAIN reports' = 1 .. Len(reports) + 1 BY <1>6, LenProperties
<1> QED BY <1>3, <1>5, <1>6, <1>7

LEMMA TailFacts ==
  ASSUME NEW queue \in Seq(ReportSet), queue # << >>
  PROVE  /\ Tail(queue) \in Seq(ReportSet)
         /\ 1 \in DOMAIN queue /\ Head(queue) = queue[1] /\ queue[1] \in ReportSet
         /\ \A i \in DOMAIN Tail(queue) :
              i \in Nat /\ i + 1 \in DOMAIN queue /\ Tail(queue)[i] = queue[i + 1]
              /\ i + 1 # 1
<1>1. /\ Len(queue) \in Nat /\ DOMAIN queue = 1 .. Len(queue) /\ Len(queue) # 0
  BY LenProperties, EmptySeq
<1>2. /\ Tail(queue) \in Seq(ReportSet) /\ Len(Tail(queue)) = Len(queue) - 1
      /\ \A i \in 1 .. Len(Tail(queue)) : Tail(queue)[i] = queue[i + 1]
      /\ Head(queue) = queue[1] /\ queue[1] \in ReportSet
  BY HeadTailProperties, ElementOfSeq, <1>1
<1>3. DOMAIN Tail(queue) = 1 .. Len(queue) - 1 BY <1>1, <1>2, LenProperties
<1> QED BY <1>1, <1>2, <1>3

LEMMA WorkerFacts ==
  ASSUME BoardInv
  PROVE  /\ WorkerCancelled \in BoardWorkers \cup {NoWorker}
         /\ WorkerCancelled # NoWorker =>
              /\ worker # NoWorker /\ WorkerCancelled.cancelled
              /\ WorkerCancelled.step = worker.step
<1>1. CASE worker = NoWorker BY <1>1 DEF WorkerCancelled
<1>2. CASE worker # NoWorker
  <2>1. worker \in BoardWorkers BY <1>2 DEF BoardInv, BoardTypeOK
  <2>2. WorkerCancelled = [worker EXCEPT !.cancelled = TRUE] BY <1>2 DEF WorkerCancelled
  <2>3. /\ [worker EXCEPT !.cancelled = TRUE] \in BoardWorkers
        /\ [worker EXCEPT !.cancelled = TRUE].cancelled
        /\ [worker EXCEPT !.cancelled = TRUE].step = worker.step
    BY <2>1 DEF BoardWorkers
  <2> QED BY <1>2, <2>2, <2>3
<1> QED BY <1>1, <1>2

LEMMA NewWorkerFacts ==
  ASSUME NEW market \in Keys
  PROVE  /\ NewWorker("start_stream", market) \in BoardWorkers
         /\ NewWorker("start_stream", market).step = "sync"
         /\ ~NewWorker("start_stream", market).cancelled
         /\ NewWorker("start_stream", market).market = market
         /\ NewWorker("load_history", market) \in BoardWorkers
         /\ NewWorker("load_history", market).step = "query"
BY DEF NewWorker, BoardWorkers

LEMMA WorkerGoesFacts ==
  ASSUME BoardInv, worker # NoWorker, worker.step \in {"sync", "history", "subscribe"},
         NEW step \in {"history", "subscribe", "leave"}, WorkerGoes(step)
  PROVE  /\ worker' \in BoardWorkers
         /\ worker'.step = step /\ worker'.cancelled = worker.cancelled
         /\ worker'.market = worker.market
<1>1. worker \in BoardWorkers /\ worker' = [worker EXCEPT !.step = step]
  BY DEF BoardInv, BoardTypeOK, WorkerGoes
<1> QED BY <1>1 DEF BoardWorkers

-----------------------------------------------------------------------------
(* The main thread of the dashboard. *)

(* After a stop nothing is awaited: the worker is cancelled, what it has   *)
(* reported is stale, and the stream is let go of.                         *)
LEMMA StoppedBoard ==
  ASSUME ServiceInv, BoardInv, board' \in Keys, started' = started,
         Release("dashboard"), mode' = "IDLE", worker' = WorkerCancelled,
         reports' = Superseded(reports), boardSlipped' = StandsAtSubscribe
  PROVE  /\ ServiceInv' /\ BoardInv'
         /\ subscriptions'["trading"] = subscriptions["trading"]
<1>1. /\ ServiceInv' /\ subscriptions'["dashboard"] = {}
      /\ subscriptions'["trading"] = subscriptions["trading"]
  BY ReleaseKeepsService, OwnerFacts DEF ServiceInv, ServiceTypeOK
<1>2. /\ reports' \in Seq(ReportSet) /\ \A i \in DOMAIN reports' : reports'[i].stale
  BY SupersededFacts DEF BoardInv, BoardTypeOK, ReportSet
<1>3. /\ worker' \in BoardWorkers \cup {NoWorker}
      /\ worker' # NoWorker => worker'.cancelled /\ worker # NoWorker /\ worker'.step = worker.step
  BY WorkerFacts
<1>4. BoardTypeOK'
  BY <1>2, <1>3 DEF BoardInv, BoardTypeOK, StandsAtSubscribe, ReportSet
<1>5. (StandsAtSubscribe /\ worker.cancelled => boardSlipped)'
  BY <1>3 DEF StandsAtSubscribe
<1>6. AwaitedInv' /\ ReportInv' /\ BoardFollowed'
  BY <1>1, <1>2, <1>3 DEF AwaitedInv, Awaited, ReportInv, BoardFollowed
<1> QED BY <1>1, <1>4, <1>5, <1>6 DEF BoardInv

(* After a start the screen awaits the new worker and nothing else, or has *)
(* a stream that slipped.                                                  *)
LEMMA StartedBoard ==
  ASSUME BoardInv, NEW market \in Keys, board' \in Keys, StartOn(market),
         closing' = "no", subscriptions'["dashboard"] = {} \/ boardSlipped
  PROVE  BoardInv'
<1>1. /\ mode' = "LOCKED" /\ worker' = NewWorker("start_stream", market)
      /\ started' = market /\ reports' = Superseded(reports)
      /\ boardSlipped' = (boardSlipped /\ subscriptions'["dashboard"] # {})
  BY DEF StartOn
<1>2. /\ reports' \in Seq(ReportSet) /\ \A i \in DOMAIN reports' : reports'[i].stale
  BY <1>1, SupersededFacts DEF BoardInv, BoardTypeOK, ReportSet
<1>3. /\ worker' \in BoardWorkers /\ worker'.step = "sync" /\ worker'.market = market
  BY <1>1, NewWorkerFacts
<1>4. BoardTypeOK' BY <1>1, <1>2, <1>3 DEF BoardInv, BoardTypeOK, ReportSet
<1>5. ~boardSlipped' => subscriptions'["dashboard"] = {}
  BY <1>1
<1>6. ~StandsAtSubscribe' BY <1>3 DEF StandsAtSubscribe
<1>7. ~boardSlipped' => AwaitedInv' /\ ReportInv' /\ BoardFollowed'
  BY <1>1, <1>2, <1>3, <1>5 DEF AwaitedInv, ReportInv, BoardFollowed
<1> QED BY <1>4, <1>6, <1>7 DEF BoardInv

LEMMA StartBoardKeeps ==
  ASSUME ServiceInv, BoardInv, StartBoard, closing = "no", closing' = closing
  PROVE  ServiceInv' /\ BoardInv' /\ subscriptions' = subscriptions
<1>1. ServiceInv' /\ subscriptions' = subscriptions BY UnchangedService DEF StartBoard
<1>2. board \in Keys /\ board' = board /\ mode = "IDLE" /\ StartOn(board)
  BY DEF BoardInv, BoardTypeOK, StartBoard
<1>3. subscriptions'["dashboard"] = {} \/ boardSlipped
  BY <1>1, <1>2 DEF BoardInv, BoardFollowed
<1> QED BY <1>1, <1>2, <1>3, StartedBoard

LEMMA StopBoardKeeps ==
  ASSUME ServiceInv, BoardInv, StopBoard
  PROVE  /\ ServiceInv' /\ BoardInv'
         /\ subscriptions'["trading"] = subscriptions["trading"]
<1>1. board \in Keys BY DEF BoardInv, BoardTypeOK
<1> QED BY <1>1, StoppedBoard DEF StopBoard

(* A worker that only reads history takes no part.                         *)
LEMMA QueryingBoard ==
  ASSUME BoardInv, board' \in Keys, UNCHANGED <<mode, reports, started, boardSlipped, closing>>,
         subscriptions'["dashboard"] = subscriptions["dashboard"],
         \/ worker' = worker
         \/ \E market \in Keys : worker' = NewWorker("load_history", market)
  PROVE  BoardInv'
<1>1. CASE worker' = worker
  BY <1>1 DEF BoardInv, BoardTypeOK, StandsAtSubscribe, Awaited, AwaitedInv, ReportInv,
              BoardFollowed
<1>2. CASE \E market \in Keys : worker' = NewWorker("load_history", market)
  <2>1. worker' \in BoardWorkers /\ worker'.step = "query" BY <1>2, NewWorkerFacts
  <2>2. BoardTypeOK' BY <2>1 DEF BoardInv, BoardTypeOK
  <2>3. ~StandsAtSubscribe' /\ ~Awaited' BY <2>1 DEF StandsAtSubscribe, Awaited
  <2>4. ReportInv /\ BoardFollowed => ReportInv' /\ BoardFollowed'
    BY DEF ReportInv, BoardFollowed
  <2> QED BY <2>2, <2>3, <2>4 DEF BoardInv, AwaitedInv
<1> QED BY <1>1, <1>2

LEMMA FormKeeps ==
  ASSUME ServiceInv, BoardInv, closing' = closing,
         LoadBoard \/ \E symbol \in Symbols : ChooseSymbol(symbol)
  PROVE  ServiceInv' /\ BoardInv' /\ subscriptions' = subscriptions
<1>1. ServiceInv' /\ subscriptions' = subscriptions
  BY UnchangedService DEF LoadBoard, ChooseSymbol
<1>2. board \in Keys BY DEF BoardInv, BoardTypeOK
<1>3. CASE LoadBoard
  <2>1. UNCHANGED <<board, mode, reports, started, boardSlipped>>
        /\ worker' = NewWorker("load_history", board)
    BY <1>3 DEF LoadBoard
  <2> QED BY <2>1, <1>1, <1>2, QueryingBoard
<1>4. CASE \E symbol \in Symbols : ChooseSymbol(symbol)
  <2>1. UNCHANGED <<mode, worker, reports, started, boardSlipped>> /\ board' \in Keys
    BY <1>2, <1>4 DEF ChooseSymbol, Keys
  <2> QED BY <2>1, <1>1, QueryingBoard
<1> QED BY <1>1, <1>3, <1>4

LEMMA ChangeIntervalKeeps ==
  ASSUME ServiceInv, BoardInv, NEW interval \in Intervals, ChangeInterval(interval),
         closing = "no", closing' = closing
  PROVE  /\ ServiceInv' /\ BoardInv'
         /\ subscriptions'["trading"] = subscriptions["trading"]
<1>1. board' \in Keys BY DEF BoardInv, BoardTypeOK, ChangeInterval, Keys
<1>2. CASE mode = "LIVE" /\ worker = NoWorker
  <2>1. Release("dashboard") /\ StartOn(board') BY <1>2 DEF ChangeInterval
  <2>2. /\ ServiceInv' /\ subscriptions'["dashboard"] = {}
        /\ subscriptions'["trading"] = subscriptions["trading"]
    BY <2>1, ReleaseKeepsService, OwnerFacts DEF ServiceInv, ServiceTypeOK
  <2> QED BY <1>1, <2>1, <2>2, StartedBoard
<1>3. CASE mode = "LIVE" /\ worker # NoWorker
  <2>1. /\ Release("dashboard") /\ mode' = "IDLE" /\ worker' = WorkerCancelled
        /\ reports' = Superseded(reports) /\ boardSlipped' = StandsAtSubscribe
        /\ started' = started
    BY <1>3 DEF ChangeInterval
  <2> QED BY <1>1, <2>1, StoppedBoard
<1>4. CASE mode # "LIVE"
  <2>1. /\ UNCHANGED <<mode, reports, started, boardSlipped, serviceVars>>
        /\ worker' = IF worker = NoWorker THEN NewWorker("load_history", board') ELSE worker
    BY <1>4 DEF ChangeInterval
  <2>2. ServiceInv' /\ subscriptions' = subscriptions BY <2>1, UnchangedService
  <2> QED BY <1>1, <2>1, <2>2, QueryingBoard
<1> QED BY <1>2, <1>3, <1>4

(* A report that is awaited moves the screen to what is the case, whereas  *)
(* a stale one that moves it is a slip.                                    *)
LEMMA TakeReportKeeps ==
  ASSUME ServiceInv, BoardInv, TakeReport, closing' = closing
  PROVE  ServiceInv' /\ BoardInv' /\ subscriptions' = subscriptions
<1>1. ServiceInv' /\ subscriptions' = subscriptions BY UnchangedService DEF TakeReport
<1>2. /\ reports # << >> /\ reports \in Seq(ReportSet)
      /\ reports' = Tail(reports) /\ mode' = ModeAfter(Head(reports).kind)
      /\ boardSlipped' = (boardSlipped \/ (Head(reports).stale /\ mode' # mode))
      /\ UNCHANGED <<board, worker, started>>
  BY DEF TakeReport, BoardInv, BoardTypeOK, ReportSet
<1>3. /\ Tail(reports) \in Seq(ReportSet)
      /\ 1 \in DOMAIN reports /\ Head(reports) = reports[1] /\ reports[1] \in ReportSet
      /\ \A i \in DOMAIN reports' : i \in Nat /\ i + 1 \in DOMAIN reports
           /\ reports'[i] = reports[i + 1] /\ i + 1 # 1
  BY <1>2, TailFacts
<1>4. mode \in {"IDLE", "LOCKED", "LIVE"} BY DEF BoardInv, BoardTypeOK
<1>5. mode' \in {"IDLE", "LOCKED", "LIVE"} BY <1>2, <1>4 DEF ModeAfter
<1>6. BoardTypeOK'
  <2>1. boardSlipped' \in BOOLEAN BY <1>2, <1>3 DEF BoardInv, BoardTypeOK, ReportSet
  <2> QED BY <2>1, <1>2, <1>3, <1>5 DEF BoardInv, BoardTypeOK, ReportSet
<1>7. (StandsAtSubscribe /\ worker.cancelled => boardSlipped)'
  BY <1>2 DEF BoardInv, StandsAtSubscribe
<1>8. ASSUME ~boardSlipped' PROVE AwaitedInv' /\ ReportInv' /\ BoardFollowed'
  <2>1. ~boardSlipped /\ AwaitedInv /\ ReportInv /\ BoardFollowed
    BY <1>2, <1>8 DEF BoardInv
  <2>2. CASE Head(reports).stale
    <3>1. mode' = mode BY <2>2, <1>2, <1>8
    <3> QED BY <3>1, <2>1, <1>1, <1>2, <1>3
            DEF AwaitedInv, Awaited, ReportInv, BoardFollowed
  <2>3. CASE ~Head(reports).stale
    <3>1. \A i \in DOMAIN reports' : reports'[i].stale
      BY <2>1, <2>3, <1>3 DEF ReportInv
    <3>2. ~Awaited BY <2>1, <2>3, <1>3 DEF AwaitedInv
    <3>3. mode = "LOCKED" /\ (Head(reports).kind = "failed" => subscriptions["dashboard"] = {})
          /\ (Head(reports).kind = "success" /\ closing # "stopped"
                => subscriptions["dashboard"] # {})
      BY <2>1, <2>3, <1>3 DEF ReportInv
    <3>4. \/ Head(reports).kind = "success" /\ mode' = "LIVE"
          \/ Head(reports).kind = "failed" /\ mode' = "IDLE"
      BY <3>3, <1>2, <1>3 DEF ModeAfter, ReportSet
    <3> QED BY <3>1, <3>2, <3>3, <3>4, <2>1, <1>1, <1>2
            DEF AwaitedInv, Awaited, ReportInv, BoardFollowed
  <2> QED BY <2>2, <2>3
<1> QED BY <1>1, <1>6, <1>7, <1>8 DEF BoardInv

-----------------------------------------------------------------------------
(* The worker of the dashboard. *)

LEMMA BoardGoesOn ==
  ASSUME ServiceInv, BoardInv, SyncBoard \/ ReloadBoard, closing' = closing
  PROVE  ServiceInv' /\ BoardInv' /\ subscriptions' = subscriptions
<1>1. ServiceInv' /\ subscriptions' = subscriptions
  BY UnchangedService DEF SyncBoard, ReloadBoard
<1>2. /\ UNCHANGED <<board, mode, reports, started, boardSlipped>>
      /\ worker # NoWorker /\ worker.step \in {"sync", "history"}
      /\ \/ worker.cancelled /\ WorkerGoes("leave")
         \/ ~worker.cancelled /\ WorkerGoes("history")
         \/ ~worker.cancelled /\ WorkerGoes("subscribe")
  BY DEF SyncBoard, ReloadBoard
<1>3. /\ worker' \in BoardWorkers
      /\ worker'.cancelled = worker.cancelled /\ worker'.market = worker.market
      /\ worker'.step = "subscribe" => ~worker.cancelled
  BY <1>2, WorkerGoesFacts
<1>4. BoardTypeOK' BY <1>2, <1>3 DEF BoardInv, BoardTypeOK
<1>5. Awaited' => Awaited BY <1>2, <1>3 DEF Awaited
<1>6. ReportInv /\ BoardFollowed => ReportInv' /\ BoardFollowed'
  BY <1>1, <1>2 DEF ReportInv, BoardFollowed
<1>7. AwaitedInv => AwaitedInv' BY <1>1, <1>2, <1>3, <1>5 DEF AwaitedInv
<1> QED BY <1>1, <1>2, <1>3, <1>4, <1>6, <1>7 DEF BoardInv, StandsAtSubscribe

LEMMA StartWebsocketKeeps ==
  ASSUME ServiceInv, BoardInv, StartWebsocket, closing' = closing
  PROVE  /\ ServiceInv' /\ BoardInv'
         /\ subscriptions'["trading"] = subscriptions["trading"]
<1>1. /\ worker # NoWorker /\ worker.step = "subscribe" /\ worker.market \in Keys
      /\ worker.cancelled \in BOOLEAN
  BY DEF StartWebsocket, StandsAtSubscribe, BoardInv, BoardTypeOK, BoardWorkers
<1>2. /\ Subscribe("dashboard", worker.market) /\ Emit("success") /\ WorkerGoes("leave")
      /\ UNCHANGED <<board, mode, started, boardSlipped>>
  BY DEF StartWebsocket
<1>3. /\ ServiceInv' /\ subscriptions'["dashboard"] = {worker.market}
      /\ subscriptions'["trading"] = subscriptions["trading"]
  BY <1>1, <1>2, SubscribeKeepsService, OwnerFacts DEF ServiceInv, ServiceTypeOK
<1>4. worker' \in BoardWorkers /\ worker'.step = "leave"
  BY <1>1, <1>2, WorkerGoesFacts
<1> DEFINE n == Len(reports) + 1
<1>5. /\ reports' \in Seq(ReportSet)
      /\ DOMAIN reports' = DOMAIN reports \cup {n} /\ n \notin DOMAIN reports
      /\ \A i \in DOMAIN reports : reports'[i] = reports[i]
      /\ reports'[n].kind = "success" /\ reports'[n].stale = worker.cancelled
  BY <1>1, <1>2, EmitFacts
<1> HIDE DEF n
<1>6. BoardTypeOK' BY <1>2, <1>4, <1>5 DEF BoardInv, BoardTypeOK, ReportSet
<1>7. ~StandsAtSubscribe' /\ ~Awaited' BY <1>4 DEF StandsAtSubscribe, Awaited
<1>8. ASSUME ~boardSlipped' PROVE ReportInv' /\ BoardFollowed'
  <2>1. ~boardSlipped /\ ~worker.cancelled
    BY <1>1, <1>2, <1>8 DEF BoardInv, StandsAtSubscribe
  <2>2. /\ mode = "LOCKED" /\ worker.market = started /\ closing = "no"
        /\ \A i \in DOMAIN reports : reports[i].stale
    BY <2>1, <1>1 DEF BoardInv, AwaitedInv, Awaited
  <2> QED BY <2>1, <2>2, <1>2, <1>3, <1>5 DEF ReportInv, BoardFollowed
<1> QED BY <1>3, <1>6, <1>7, <1>8 DEF BoardInv, AwaitedInv

LEMMA StartFailsKeeps ==
  ASSUME ServiceInv, BoardInv, StartFails, closing' = closing
  PROVE  ServiceInv' /\ BoardInv' /\ subscriptions' = subscriptions
<1>1. ServiceInv' /\ subscriptions' = subscriptions BY UnchangedService DEF StartFails
<1>2. /\ worker # NoWorker /\ worker.step \in {"sync", "history"}
      /\ Emit("failed") /\ WorkerGoes("leave")
      /\ UNCHANGED <<board, mode, started, boardSlipped>>
  BY DEF StartFails
<1>3. worker.cancelled \in BOOLEAN BY <1>2 DEF BoardInv, BoardTypeOK, BoardWorkers
<1>4. worker' \in BoardWorkers /\ worker'.step = "leave"
  BY <1>2, WorkerGoesFacts
<1> DEFINE n == Len(reports) + 1
<1>5. /\ reports' \in Seq(ReportSet)
      /\ DOMAIN reports' = DOMAIN reports \cup {n} /\ n \notin DOMAIN reports
      /\ \A i \in DOMAIN reports : reports'[i] = reports[i]
      /\ reports'[n].kind = "failed" /\ reports'[n].stale = worker.cancelled
  BY <1>2, EmitFacts
<1> HIDE DEF n
<1>6. BoardTypeOK' BY <1>2, <1>4, <1>5 DEF BoardInv, BoardTypeOK, ReportSet
<1>7. ~StandsAtSubscribe' /\ ~Awaited' BY <1>4 DEF StandsAtSubscribe, Awaited
<1>8. ASSUME ~boardSlipped' PROVE ReportInv' /\ BoardFollowed'
  <2>1. ~boardSlipped /\ AwaitedInv /\ ReportInv /\ BoardFollowed
    BY <1>2, <1>8 DEF BoardInv
  <2>0. subscriptions'["dashboard"] = subscriptions["dashboard"] /\ mode' = mode
        /\ closing' = closing /\ started' = started
    BY <1>1, <1>2
  <2>2. BoardFollowed' BY <2>0, <2>1 DEF BoardFollowed
  <2>3. CASE worker.cancelled
    <3>1. \A i \in DOMAIN reports' :
             ~reports'[i].stale => i \in DOMAIN reports /\ reports'[i] = reports[i]
      BY <2>3, <1>5
    <3>2. ReportInv' BY <2>0, <2>1, <3>1 DEF ReportInv
    <3> QED BY <2>2, <3>2
  <2>4. CASE ~worker.cancelled
    <3>1. /\ mode = "LOCKED" /\ subscriptions["dashboard"] = {}
          /\ \A i \in DOMAIN reports : reports[i].stale
      BY <2>1, <2>4, <1>2 DEF AwaitedInv, Awaited
    <3>2. \A i \in DOMAIN reports' : ~reports'[i].stale => i = n
      BY <3>1, <1>5
    <3>3. ReportInv' BY <2>0, <3>1, <3>2, <1>5 DEF ReportInv
    <3> QED BY <2>2, <3>3
  <2> QED BY <2>3, <2>4
<1> QED BY <1>1, <1>6, <1>7, <1>8 DEF BoardInv, AwaitedInv

LEMMA BoardLeaves ==
  ASSUME ServiceInv, BoardInv, QueryHistory \/ Leave, closing' = closing
  PROVE  ServiceInv' /\ BoardInv' /\ subscriptions' = subscriptions
<1>1. ServiceInv' /\ subscriptions' = subscriptions
  BY UnchangedService DEF QueryHistory, Leave
<1>2. UNCHANGED <<board, mode, reports, started, boardSlipped>> BY DEF QueryHistory, Leave
<1>3. /\ worker' \in BoardWorkers \cup {NoWorker}
      /\ worker' = NoWorker \/ worker'.step = "leave"
  <2>1. CASE Leave BY <2>1 DEF Leave
  <2>2. CASE QueryHistory
    <3>1. worker \in BoardWorkers /\ worker.step = "query"
          /\ worker' = [worker EXCEPT !.step = "leave"]
      BY <2>2 DEF QueryHistory, WorkerGoes, BoardInv, BoardTypeOK
    <3> QED BY <3>1 DEF BoardWorkers
  <2> QED BY <2>1, <2>2
<1>4. BoardTypeOK' BY <1>2, <1>3 DEF BoardInv, BoardTypeOK
<1>5. ~StandsAtSubscribe' /\ ~Awaited' BY <1>3 DEF StandsAtSubscribe, Awaited
<1>6. ReportInv /\ BoardFollowed => ReportInv' /\ BoardFollowed'
  BY <1>1, <1>2 DEF ReportInv, BoardFollowed
<1> QED BY <1>1, <1>2, <1>4, <1>5, <1>6 DEF BoardInv, AwaitedInv

LEMMA CloseBoard ==
  ASSUME BoardInv, CloseScreens, subscriptions' = subscriptions
  PROVE  BoardInv'
<1>1. /\ UNCHANGED <<board, mode, reports, started>>
      /\ worker' = WorkerCancelled /\ closing = "no" /\ closing' = "screens"
      /\ boardSlipped' = (boardSlipped \/ StandsAtSubscribe)
  BY DEF CloseScreens
<1>2. /\ worker' \in BoardWorkers \cup {NoWorker}
      /\ worker' # NoWorker => worker'.cancelled /\ worker # NoWorker /\ worker'.step = worker.step
  BY <1>1, WorkerFacts
<1>3. BoardTypeOK' BY <1>1, <1>2 DEF BoardInv, BoardTypeOK, StandsAtSubscribe
<1>4. (StandsAtSubscribe /\ worker.cancelled => boardSlipped)'
  BY <1>1, <1>2 DEF StandsAtSubscribe
<1>5. ~Awaited' BY <1>2 DEF Awaited
<1>6. ReportInv /\ BoardFollowed => ReportInv' /\ BoardFollowed'
  BY <1>1 DEF ReportInv, BoardFollowed
<1>7. ~boardSlipped' => ~boardSlipped BY <1>1
<1> QED BY <1>3, <1>4, <1>5, <1>6, <1>7 DEF BoardInv, AwaitedInv

LEMMA StopServiceKeepsBoard ==
  ASSUME BoardInv, StopService, subscriptions'["dashboard"] = {}
  PROVE  BoardInv'
<1>1. UNCHANGED boardVars /\ closing = "screens" /\ closing' = "stopped" BY DEF StopService
<1> QED BY <1>1 DEF BoardInv, BoardTypeOK, StandsAtSubscribe, Awaited, AwaitedInv, ReportInv,
                    BoardFollowed, boardVars

-----------------------------------------------------------------------------
(* All together. *)

ChartsInv ==
  /\ ServiceInv /\ ChartInv /\ BoardInv
  /\ clicks \in 0 .. MaxClicks
  /\ closing \in {"no", "screens", "stopped"}

(* A step of one screen leaves the invariant of the other alone.           *)
LEMMA ChartStepKeeps ==
  ASSUME ChartsInv, NEW l \in Loaders,
         \/ closing = "no" /\ GoLive(l)
         \/ closing = "no" /\ \E market \in Keys : ChangeChart(l, market)
         \/ LoaderStep(l),
         UNCHANGED <<boardVars, closing>>
  PROVE  ServiceInv' /\ ChartInv' /\ BoardInv'
<1>1. ServiceInv /\ ChartInv /\ BoardInv BY DEF ChartsInv
<1>2. /\ ServiceInv' /\ ChartInv'
      /\ subscriptions'["dashboard"] = subscriptions["dashboard"]
  <2>1. CASE closing = "no" /\ GoLive(l) BY <2>1, <1>1, GoLiveKeeps
  <2>2. CASE closing = "no" /\ \E market \in Keys : ChangeChart(l, market)
    BY <2>2, <1>1, ChangeChartKeeps
  <2>3. CASE SyncChart(l) \/ LoadHistory(l) BY <2>3, <1>1, SilentStepKeeps
  <2>4. CASE StartStream(l) BY <2>4, <1>1, StartStreamKeeps
  <2>5. CASE LoadFails(l) BY <2>5, <1>1, LoadFailsKeeps
  <2> QED BY <2>1, <2>2, <2>3, <2>4, <2>5 DEF LoaderStep
<1> QED BY <1>1, <1>2, BoardFrame

LEMMA BoardStepKeeps ==
  ASSUME ChartsInv,
         \/ closing = "no" /\ (StartBoard \/ LoadBoard \/ StopBoard)
         \/ closing = "no" /\ \E symbol \in Symbols : ChooseSymbol(symbol)
         \/ closing = "no" /\ \E interval \in Intervals : ChangeInterval(interval)
         \/ TakeReport \/ BoardWorker,
         UNCHANGED <<chartVars, closing>>
  PROVE  ServiceInv' /\ ChartInv' /\ BoardInv'
<1>1. ServiceInv /\ ChartInv /\ BoardInv BY DEF ChartsInv
<1>2. /\ ServiceInv' /\ BoardInv'
      /\ subscriptions'["trading"] = subscriptions["trading"]
  <2>1. CASE closing = "no" /\ StartBoard BY <2>1, <1>1, StartBoardKeeps
  <2>2. CASE StopBoard BY <2>2, <1>1, StopBoardKeeps
  <2>3. CASE LoadBoard \/ \E symbol \in Symbols : ChooseSymbol(symbol)
    BY <2>3, <1>1, FormKeeps
  <2>4. CASE closing = "no" /\ \E interval \in Intervals : ChangeInterval(interval)
    BY <2>4, <1>1, ChangeIntervalKeeps
  <2>5. CASE TakeReport BY <2>5, <1>1, TakeReportKeeps
  <2>6. CASE SyncBoard \/ ReloadBoard BY <2>6, <1>1, BoardGoesOn
  <2>7. CASE StartWebsocket BY <2>7, <1>1, StartWebsocketKeeps
  <2>8. CASE StartFails BY <2>8, <1>1, StartFailsKeeps
  <2>9. CASE QueryHistory \/ Leave BY <2>9, <1>1, BoardLeaves
  <2> QED BY <2>1, <2>2, <2>3, <2>4, <2>5, <2>6, <2>7, <2>8, <2>9 DEF BoardWorker
<1> QED BY <1>1, <1>2, ChartFrame

LEMMA NextKeeps ==
  ASSUME ChartsInv, [Next]_vars
  PROVE  ChartsInv'
<1>0. MaxClicks \in Nat BY ClicksAssumption
<1>1. ServiceInv /\ ChartInv /\ BoardInv BY DEF ChartsInv
<1>2. CASE ChartClick
  <2>1. PICK l \in Loaders :
          \/ closing = "no" /\ GoLive(l)
          \/ closing = "no" /\ \E market \in Keys : ChangeChart(l, market)
    BY <1>2 DEF ChartClick, Click
  <2>2. /\ UNCHANGED <<boardVars, closing>>
        /\ clicks < MaxClicks /\ clicks' = clicks + 1
    BY <1>2 DEF ChartClick, Click
  <2> QED BY <2>1, <2>2, <1>0, ChartStepKeeps DEF ChartsInv
<1>3. CASE BoardClick
  <2>1. /\ \/ closing = "no" /\ (StartBoard \/ LoadBoard \/ StopBoard)
           \/ closing = "no" /\ \E symbol \in Symbols : ChooseSymbol(symbol)
           \/ closing = "no" /\ \E interval \in Intervals : ChangeInterval(interval)
        /\ UNCHANGED <<chartVars, closing>>
        /\ clicks < MaxClicks /\ clicks' = clicks + 1
    BY <1>3 DEF BoardClick, Click
  <2> QED BY <2>1, <1>0, BoardStepKeeps DEF ChartsInv
<1>4. CASE BoardReport \/ BoardWorks
  <2>1. (TakeReport \/ BoardWorker) /\ UNCHANGED <<chartVars, clicks, closing>>
    BY <1>4 DEF BoardReport, BoardWorks, NoClick
  <2> QED BY <2>1, BoardStepKeeps DEF ChartsInv
<1>5. CASE \E l \in Loaders : ChartWorks(l)
  <2>1. PICK l \in Loaders : LoaderStep(l) /\ UNCHANGED <<boardVars, clicks, closing>>
    BY <1>5 DEF ChartWorks, NoClick
  <2> QED BY <2>1, ChartStepKeeps DEF ChartsInv
<1>6. CASE \E t \in Streams : StreamDies(t) \/ StreamEnds(t)
  <2>1. PICK t \in Streams : /\ Die(t) \/ EndCancelled(t)
                             /\ UNCHANGED <<chartVars, boardVars, clicks, closing>>
    BY <1>6 DEF StreamDies, StreamEnds, NoClick
  <2>2. ServiceInv' /\ subscriptions' = subscriptions BY <2>1, <1>1, StreamKeepsService
  <2> QED BY <2>1, <2>2, <1>1, ChartFrame, BoardFrame DEF ChartsInv
<1>7. CASE CloseScreens
  <2>1. ServiceInv' /\ ChartInv' /\ subscriptions' = subscriptions
    BY <1>7, <1>1, CloseChart
  <2>2. BoardInv' BY <1>7, <1>1, <2>1, CloseBoard
  <2> QED BY <1>7, <2>1, <2>2 DEF ChartsInv, CloseScreens
<1>8. CASE StopService
  <2>1. /\ ServiceInv' /\ ChartInv'
        /\ subscriptions'["dashboard"] = {}
    BY <1>8, <1>1, StopServiceKeepsChart
  <2>2. BoardInv' BY <1>8, <1>1, <2>1, StopServiceKeepsBoard
  <2> QED BY <1>8, <2>1, <2>2 DEF ChartsInv, StopService
<1>9. CASE UNCHANGED vars
  <2>1. UNCHANGED <<serviceVars, chartVars, boardVars, clicks, closing>> BY <1>9 DEF vars
  <2>2. ServiceInv' /\ subscriptions' = subscriptions BY <2>1, <1>1, UnchangedService
  <2> QED BY <2>1, <2>2, <1>1, ChartFrame, BoardFrame DEF ChartsInv
<1> QED BY <1>2, <1>3, <1>4, <1>5, <1>6, <1>7, <1>8, <1>9 DEF Next

LEMMA ChartsInvariant == Spec => []ChartsInv
<1>1. Init => ChartsInv
  BY InitChart, InitBoard, ClicksAssumption DEF Init, ChartsInv
<1>2. ChartsInv /\ [Next]_vars => ChartsInv' BY NextKeeps
<1> QED BY <1>1, <1>2, PTL DEF Spec

(* Every variable keeps its type, for any markets, threads and bounds.     *)
THEOREM TypeCorrect == Spec => []TypeOK
<1>1. ChartsInv => TypeOK
  BY DEF ChartsInv, ServiceInv, ChartInv, BoardInv, TypeOK
<1> QED BY <1>1, ChartsInvariant, PTL

(* Whichever threads call subscribe, release_owner and stop_all, and       *)
(* whenever coroutines die or end, one websocket at most is in charge and  *)
(* it carries exactly what the screens hold.                               *)
THEOREM StreamCarriesSubscriptionsHolds == Spec => []StreamCarriesSubscriptions
<1>1. ChartsInv => StreamCarriesSubscriptions BY DEF ChartsInv, ServiceInv
<1> QED BY <1>1, ChartsInvariant, PTL

(* Each screen holds the key it shows as live, unless a worker was         *)
(* cancelled between its last look at its token and subscribe, or a stale  *)
(* report was believed: there is no third way to get it wrong.             *)
THEOREM SubscriptionsFollowScreensHolds == Spec => []SubscriptionsFollowScreens
<1>1. ChartsInv => SubscriptionsFollowScreens
  BY DEF ChartsInv, ChartInv, BoardInv, ChartFollowed, BoardFollowed, SubscriptionsFollowScreens
<1> QED BY <1>1, ChartsInvariant, PTL

=============================================================================
