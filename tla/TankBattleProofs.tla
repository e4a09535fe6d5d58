-------------------------- MODULE TankBattleProofs ---------------------------
(***************************************************************************)
(* Proofs about TankBattle, for any players, teams, limits and timers: no  *)
(* tank is left half dead, a win is noticed in the tick that brings it     *)
(* about, the result of a game that is over stays, and kills, deaths and   *)
(* the teams' scores agree.                                                *)
(***************************************************************************)
EXTENDS TankBattle, Sums, SequenceTheorems, TLAPS

\* Where the tick loop may be in each phase.
PhaseInv ==
    /\ phase \in {"unset", "lobby"} => loop = "off"
    /\ phase = "playing" => loop \in {"sleeping", "bullets", "respawns", "deciding", "panicked"}
    /\ phase = "game_over" => loop \in {"off", "sleeping", "ended"}

\* Nothing is counted for a player who has not been registered, or before the start.
NothingYetInv ==
    /\ \A p \in Players : tank[p] = "none" => respawn[p] = 0
    /\ loop = "off" => /\ \A p \in Players : kills[p] = 0
                       /\ \A c \in {"red", "blue"} : scores[c] = 0

\* TankBattle's invariants that need these; WinIsPrompt says nothing of a tick under way,
\* which begins below the limits and ends in Decide.
IInv == TypeOK /\ PhaseInv /\ NothingYetInv /\ AliveOrComingBack /\ WinIsPrompt

LEMMA NumbersArePositive ==
  /\ MaxHealth \in Nat \ {0} /\ RespawnTicks \in Nat \ {0} /\ CooldownTicks \in Nat \ {0}
  /\ DMKillLimit \in Nat \ {0} /\ TeamKillLimit \in Nat \ {0} /\ MaxShots \in Nat \ {0}
  BY NumbersAssumption

-----------------------------------------------------------------------------
(* Types.                                                                  *)

LEMMA InitTypes == Init => TypeOK
<1> SUFFICES ASSUME Init PROVE TypeOK
  OBVIOUS
<1> USE NumbersArePositive DEF Init
<1>1. /\ health \in [Players -> 0..MaxHealth]
      /\ respawn \in [Players -> 0..RespawnTicks]
      /\ sinceFire \in [Players -> 0..CooldownTicks]
      /\ shots \in 0..MaxShots
  OBVIOUS
<1>2. /\ tank \in [Players -> {"none", "alive", "dead", "left"}]
      /\ team \in [Players -> 0..2]
      /\ kills \in [Players -> Nat]
      /\ deaths \in [Players -> Nat]
      /\ scores \in [{"red", "blue"} -> Nat]
  OBVIOUS
<1>3. /\ mapLoaded \in BOOLEAN
      /\ mode \in Modes \cup {"unset"}
      /\ phase \in {"unset", "lobby", "playing", "game_over"}
      /\ winner \in Players \cup {"red", "blue", None}
  OBVIOUS
<1>4. /\ bullets \in Seq(Players) /\ kept \in Seq(Players)
      /\ loop \in {"off", "sleeping", "bullets", "respawns", "deciding", "ended", "panicked"}
      /\ loop # "bullets" => kept = <<>>
  OBVIOUS
<1> QED
  BY ONLY <1>1, <1>2, <1>3, <1>4 DEF TypeOK

LEMMA HostKeepsTypes ==
  ASSUME TypeOK, Host
  PROVE  TypeOK'
<1> USE DEF TypeOK, gameVars, tankVars, gunVars
<1>1. ASSUME NEW m \in Modes, OnInit(m) PROVE TypeOK'
  BY <1>1 DEF OnInit
<1>2. ASSUME NEW p \in Players, NEW t \in Teams, RegisterPlayer(p, t) PROVE TypeOK'
  <2>1. team' \in [Players -> 0..2]
    BY <1>2, TeamsAssumption DEF RegisterPlayer
  <2>2. health' \in [Players -> 0..MaxHealth]
    BY <1>2, NumbersArePositive DEF RegisterPlayer
  <2>3. tank' \in [Players -> {"none", "alive", "dead", "left"}]
    BY <1>2 DEF RegisterPlayer
  <2> QED
    BY <1>2, <2>1, <2>2, <2>3 DEF RegisterPlayer
<1>3. ASSUME NEW p \in Players, OnPlayerLeave(p) PROVE TypeOK'
  BY <1>3 DEF OnPlayerLeave
<1>4. CASE OnStart
  BY <1>4 DEF OnStart, MutexFree
<1>5. CASE OnEnd
  BY <1>5 DEF OnEnd
<1> QED
  BY <1>1, <1>2, <1>3, <1>4, <1>5 DEF Host

\* Bullets only leave the slice they were in for the new one.
LEMMA MovedKeepsTypes ==
  ASSUME TypeOK, NEW fliesOn \in BOOLEAN, Moved(fliesOn)
  PROVE  /\ bullets' \in Seq(Players) /\ kept' \in Seq(Players)
         /\ Head(bullets) \in Players
         /\ loop' = "bullets" /\ shots' \in 0..MaxShots
         /\ sinceFire' \in [Players -> 0..CooldownTicks]
         /\ phase' \in {"unset", "lobby", "playing", "game_over"}
<1>1. Head(bullets) \in Players /\ Tail(bullets) \in Seq(Players)
  BY HeadTailProperties DEF TypeOK, Moved
<1>2. kept' \in Seq(Players)
  BY <1>1, AppendProperties DEF TypeOK, Moved
<1> QED
  BY <1>1, <1>2 DEF TypeOK, Moved

\* A tank that is hit has health left to lose.
LEMMA HitKeepsTypes ==
  ASSUME TypeOK, AliveOrComingBack, NEW q \in Players, BulletHits(q)
  PROVE  TypeOK'
<1> DEFINE p == Head(bullets)
<1>1. Moved(FALSE)
  BY DEF BulletHits
<1>2. p \in Players
  BY <1>1, MovedKeepsTypes
<1>3. health[q] - 1 \in 0..MaxHealth
  BY NumbersArePositive DEF TypeOK, AliveOrComingBack, BulletHits, Tanks
<1>4. /\ health' \in [Players -> 0..MaxHealth]
      /\ respawn' \in [Players -> 0..RespawnTicks]
      /\ tank' \in [Players -> {"none", "alive", "dead", "left"}]
      /\ deaths' \in [Players -> Nat]
  <2>1. /\ health \in [Players -> 0..MaxHealth]
        /\ respawn \in [Players -> 0..RespawnTicks]
        /\ tank \in [Players -> {"none", "alive", "dead", "left"}]
        /\ deaths \in [Players -> Nat]
    BY DEF TypeOK
  <2>2. TimerAfter(health[q] - 1) \in 0..RespawnTicks
    BY NumbersArePositive DEF TimerAfter
  <2> QED
    BY <1>3, <2>1, <2>2 DEF BulletHits
<1>5. kills' \in [Players -> Nat]
  <2>1. kills \in [Players -> Nat]
    BY DEF TypeOK
  <2> QED
    BY <1>2, <2>1 DEF BulletHits, KillsWith
<1>6. scores' \in [{"red", "blue"} -> Nat]
  <2>1. scores \in [{"red", "blue"} -> Nat]
    BY DEF TypeOK
  <2> QED
    BY <2>1 DEF BulletHits, Scored
<1>7. UNCHANGED <<mapLoaded, mode, team, winner>>
  BY DEF BulletHits
<1> QED
  BY <1>1, <1>4, <1>5, <1>6, <1>7, MovedKeepsTypes DEF TypeOK

LEMMA TickLoopKeepsTypes ==
  ASSUME TypeOK, AliveOrComingBack, TickLoop
  PROVE  TypeOK'
<1> USE DEF gameVars, tankVars, gunVars
<1>1. CASE TickBegins
  <2>1. sinceFire' \in [Players -> 0..CooldownTicks]
    <3>1. sinceFire \in [Players -> 0..CooldownTicks]
      BY DEF TypeOK
    <3> QED
      BY <1>1, <3>1, NumbersArePositive DEF TickBegins, GunsCool
  <2> QED
    BY <1>1, <2>1 DEF TypeOK, TickBegins
<1>2. CASE BulletMisses
  BY <1>2, MovedKeepsTypes DEF TypeOK, BulletMisses
<1>3. CASE \E q \in Players : BulletHits(q)
  BY <1>3, HitKeepsTypes
<1>4. CASE BulletsMoved
  BY <1>4 DEF TypeOK, BulletsMoved
<1>5. CASE UpdateRespawns
  <2>1. /\ health \in [Players -> 0..MaxHealth]
        /\ respawn \in [Players -> 0..RespawnTicks]
        /\ tank \in [Players -> {"none", "alive", "dead", "left"}]
    BY DEF TypeOK
  <2>2. health' \in [Players -> 0..MaxHealth]
    BY <1>5, <2>1, NumbersArePositive DEF UpdateRespawns, HealthNow
  <2>3. respawn' \in [Players -> 0..RespawnTicks]
    BY <1>5, <2>1, NumbersArePositive DEF UpdateRespawns
  <2>4. tank' \in [Players -> {"none", "alive", "dead", "left"}]
    BY <1>5, <2>1 DEF UpdateRespawns
  <2> QED
    BY <1>5, <2>2, <2>3, <2>4 DEF TypeOK, UpdateRespawns
<1>6. CASE Decide
  <2>1. Winners \subseteq Players \cup {"red", "blue"}
    BY DEF Winners, Tanks
  <2> QED
    BY <1>6, <2>1 DEF TypeOK, Decide
<1> QED
  BY <1>1, <1>2, <1>3, <1>4, <1>5, <1>6 DEF TickLoop

LEMMA FireKeepsTypes ==
  ASSUME TypeOK, NEW p \in Players, Fire(p)
  PROVE  TypeOK'
<1>1. bullets' \in Seq(Players)
  BY AppendProperties DEF TypeOK, Fire
<1>2. shots' \in 0..MaxShots /\ sinceFire' \in [Players -> 0..CooldownTicks]
  <2>1. shots \in 0..MaxShots /\ sinceFire \in [Players -> 0..CooldownTicks]
    BY DEF TypeOK
  <2> QED
    BY <2>1, NumbersArePositive DEF Fire
<1> QED
  BY <1>1, <1>2 DEF TypeOK, Fire, gameVars, tankVars

-----------------------------------------------------------------------------
(* Phases, tanks and limits.                                               *)

LEMMA InitIInv == Init => IInv
<1> SUFFICES ASSUME Init PROVE IInv
  OBVIOUS
<1>1. TypeOK
  BY InitTypes
<1>2. PhaseInv /\ WinIsPrompt
  BY DEF Init, PhaseInv, WinIsPrompt
<1>3. NothingYetInv /\ AliveOrComingBack
  BY DEF Init, NothingYetInv, AliveOrComingBack, Tanks
<1> QED
  BY <1>1, <1>2, <1>3 DEF IInv

LEMMA HostKeepsIInv ==
  ASSUME IInv, Host
  PROVE  IInv'
<1> USE DEF IInv, PhaseInv, gameVars, tankVars, gunVars, MutexFree
<1>1. TypeOK'
  BY HostKeepsTypes
<1>2. ASSUME NEW m \in Modes, OnInit(m) PROVE IInv'
  BY <1>1, <1>2
     DEF OnInit, TypeOK, NothingYetInv, AliveOrComingBack, WinIsPrompt, Tanks
<1>3. ASSUME NEW p \in Players, NEW t \in Teams, RegisterPlayer(p, t) PROVE IInv'
  <2>1. PhaseInv' /\ NothingYetInv' /\ WinIsPrompt'
    BY <1>3 DEF RegisterPlayer, NothingYetInv, WinIsPrompt
  <2>2. tank \in [Players -> {"none", "alive", "dead", "left"}] /\ DOMAIN health = Players
    BY DEF TypeOK
  <2>3. AliveOrComingBack'
    BY <1>3, <2>2, NumbersArePositive DEF RegisterPlayer, NothingYetInv, AliveOrComingBack, Tanks
  <2> QED
    BY <1>1, <2>1, <2>3
<1>4. ASSUME NEW p \in Players, OnPlayerLeave(p) PROVE IInv'
  BY <1>1, <1>4
     DEF OnPlayerLeave, TypeOK, NothingYetInv, AliveOrComingBack, WinIsPrompt, Tanks
<1>5. CASE OnStart
  BY <1>1, <1>5, NumbersArePositive
     DEF OnStart, TypeOK, NothingYetInv, AliveOrComingBack, WinIsPrompt, Tanks
<1>6. CASE OnEnd
  BY <1>1, <1>6
     DEF OnEnd, TypeOK, NothingYetInv, AliveOrComingBack, WinIsPrompt, Tanks
<1> QED
  BY <1>2, <1>3, <1>4, <1>5, <1>6 DEF Host

\* A hit leaves the tank alive with health, or dead with a full timer.
LEMMA HitKeepsIInv ==
  ASSUME IInv, NEW q \in Players, BulletHits(q)
  PROVE  IInv'
<1> DEFINE h == health[q] - 1
<1>1. TypeOK /\ TypeOK'
  BY HitKeepsTypes DEF IInv
<1>2. loop = "bullets" /\ loop' = loop /\ phase' = phase
  BY DEF BulletHits, Moved
<1>3. PhaseInv' /\ WinIsPrompt'
  BY <1>2 DEF IInv, PhaseInv, WinIsPrompt, MutexFree
<1>4. /\ tank[q] = "alive" /\ h \in Nat
      /\ tank' = [tank EXCEPT ![q] = IF h <= 0 THEN "dead" ELSE "alive"]
      /\ health' = [health EXCEPT ![q] = h]
      /\ respawn' = [respawn EXCEPT ![q] = TimerAfter(h)]
  BY <1>1, NumbersArePositive DEF IInv, TypeOK, AliveOrComingBack, BulletHits, Tanks
<1>5. AliveOrComingBack'
  <2>1. /\ health \in [Players -> 0..MaxHealth]
        /\ respawn \in [Players -> 0..RespawnTicks]
        /\ tank \in [Players -> {"none", "alive", "dead", "left"}]
        /\ AliveOrComingBack
    BY <1>1 DEF TypeOK, IInv
  <2> QED
    BY <1>4, <2>1, NumbersArePositive DEF AliveOrComingBack, Tanks, TimerAfter
<1>6. NothingYetInv'
  BY <1>1, <1>2, <1>4 DEF IInv, TypeOK, NothingYetInv
<1> QED
  BY <1>1, <1>3, <1>5, <1>6 DEF IInv

\* updateRespawns: a timer that runs out brings the tank back with full health.
LEMMA RespawnsKeepIInv ==
  ASSUME IInv, UpdateRespawns
  PROVE  IInv'
<1> USE DEF IInv, UpdateRespawns, gameVars, gunVars
<1>1. TypeOK /\ TypeOK'
  BY TickLoopKeepsTypes DEF TickLoop
<1>2. PhaseInv' /\ WinIsPrompt'
  BY DEF PhaseInv, WinIsPrompt, MutexFree
<1>3. AliveOrComingBack'
  <2>1. /\ health \in [Players -> 0..MaxHealth]
        /\ respawn \in [Players -> 0..RespawnTicks]
        /\ tank \in [Players -> {"none", "alive", "dead", "left"}]
        /\ AliveOrComingBack
    BY <1>1 DEF TypeOK
  <2>2. UpdateRespawns
    OBVIOUS
  <2> QED
    BY ONLY <2>1, <2>2, NumbersArePositive
       DEF UpdateRespawns, AliveOrComingBack, Tanks, Respawning, HealthNow
<1>4. NothingYetInv'
  BY <1>1 DEF TypeOK, NothingYetInv, Respawning
<1> QED
  BY <1>1, <1>2, <1>3, <1>4

\* The tick goes on only if nobody has won: then nobody is at a limit.
LEMMA NobodyHasWon ==
  ASSUME Winners = {}, TypeOK
  PROVE  /\ mode = "dm" => \A p \in Tanks : kills[p] < DMKillLimit
         /\ mode = "team" => \A c \in {"red", "blue"} : scores[c] < TeamKillLimit
<1>1. /\ \A p \in Tanks : kills[p] \in Nat
      /\ \A c \in {"red", "blue"} : scores[c] \in Nat
  BY DEF TypeOK, Tanks
<1>2. \A p \in Tanks : ~(mode = "dm" /\ kills[p] >= DMKillLimit)
  BY DEF Winners
<1>3. ~(mode = "team" /\ scores["red"] >= TeamKillLimit)
  BY DEF Winners
<1>4. ~(mode = "team" /\ scores["blue"] >= TeamKillLimit)
  BY <1>1, <1>3, NumbersArePositive DEF Winners
<1> QED
  BY <1>1, <1>2, <1>3, <1>4, NumbersArePositive

LEMMA TickLoopKeepsIInv ==
  ASSUME IInv, TickLoop
  PROVE  IInv'
<1> USE DEF IInv, PhaseInv, gameVars, tankVars, gunVars, MutexFree
<1>1. TypeOK /\ TypeOK'
  BY TickLoopKeepsTypes
<1>2. CASE TickBegins
  BY <1>1, <1>2 DEF TickBegins, NothingYetInv, AliveOrComingBack, WinIsPrompt, Tanks
<1>3. CASE BulletMisses \/ BulletsMoved
  BY <1>1, <1>3
     DEF BulletMisses, Moved, BulletsMoved, NothingYetInv, AliveOrComingBack, WinIsPrompt, Tanks
<1>4. CASE \E q \in Players : BulletHits(q)
  BY <1>4, HitKeepsIInv
<1>5. CASE UpdateRespawns
  BY <1>5, RespawnsKeepIInv
<1>6. CASE Decide
  <2>1. /\ loop = "deciding" /\ loop' \in {"sleeping", "ended"}
        /\ UNCHANGED <<tank, health, respawn, kills, deaths, scores, mode>>
        /\ \/ phase' = "game_over"
           \/ phase' = phase /\ Winners = {} /\ loop' = "sleeping"
    BY <1>6 DEF Decide
  <2>2. PhaseInv' /\ NothingYetInv' /\ AliveOrComingBack'
    BY <2>1 DEF NothingYetInv, AliveOrComingBack, Tanks
  <2>3. WinIsPrompt'
    BY <1>1, <2>1, NobodyHasWon DEF WinIsPrompt, Tanks
  <2> QED
    BY <1>1, <2>2, <2>3
<1> QED
  BY <1>2, <1>3, <1>4, <1>5, <1>6 DEF TickLoop

LEMMA FireKeepsIInv ==
  ASSUME IInv, NEW p \in Players, Fire(p)
  PROVE  IInv'
  BY FireKeepsTypes
     DEF IInv, Fire, PhaseInv, NothingYetInv, AliveOrComingBack, WinIsPrompt, Tanks, MutexFree,
         gameVars, tankVars

-----------------------------------------------------------------------------
(* Theorems.                                                               *)

LEMMA StutterKeepsIInv ==
  ASSUME IInv, UNCHANGED vars
  PROVE  IInv'
<1>1. TypeOK'
  BY DEF IInv, TypeOK, vars
<1>2. PhaseInv' /\ NothingYetInv' /\ AliveOrComingBack' /\ WinIsPrompt'
  BY DEF IInv, PhaseInv, NothingYetInv, AliveOrComingBack, WinIsPrompt, Tanks, MutexFree, vars
<1> QED
  BY <1>1, <1>2 DEF IInv

LEMMA Invariance == Spec => []IInv
<1>1. IInv /\ [Next]_vars => IInv'
  BY HostKeepsIInv, TickLoopKeepsIInv, FireKeepsIInv, StutterKeepsIInv DEF Next
<1> QED
  BY <1>1, InitIInv, PTL DEF Spec

\* The state has its types; health and timers stay between zero and their maximum.
THEOREM TypeCorrect == Spec => []TypeOK
<1>1. IInv => TypeOK
  BY DEF IInv
<1> QED
  BY <1>1, Invariance, PTL

\* A tank in the game is alive with health and without a timer, or dead with its timer
\* running, at every step of a tick.
THEOREM TanksAreAliveOrComingBack == Spec => []AliveOrComingBack
<1>1. IInv => AliveOrComingBack
  BY DEF IInv
<1> QED
  BY <1>1, Invariance, PTL

\* The tick in which somebody reaches the limit ends the game.
THEOREM WinsArePrompt == Spec => []WinIsPrompt
<1>1. IInv => WinIsPrompt
  BY DEF IInv
<1> QED
  BY <1>1, Invariance, PTL

\* Once the game is over no step counts anything or names another winner: the loop is
\* never in a tick then.
THEOREM ResultsAreFinal == Spec => ResultIsFinal
<1>1. ASSUME IInv, Next, phase = "game_over"
      PROVE  UNCHANGED <<phase, kills, deaths, scores, winner>>
  <2> USE <1>1 DEF IInv, PhaseInv, gameVars, tankVars, gunVars
  <2>1. loop \in {"off", "sleeping", "ended"}
    OBVIOUS
  <2>2. CASE Host
    BY <2>2 DEF Host, OnInit, RegisterPlayer, OnPlayerLeave, OnStart, OnEnd
  <2>3. CASE TickLoop
    BY <2>1, <2>3
       DEF TickLoop, TickBegins, BulletMisses, BulletHits, Moved, BulletsMoved, UpdateRespawns, Decide
  <2>4. CASE \E p \in Players : Fire(p)
    BY <2>4 DEF Fire
  <2> QED
    BY <1>1, <2>2, <2>3, <2>4 DEF Next
<1>2. IInv /\ [Next]_vars =>
          [phase = "game_over" => UNCHANGED <<phase, kills, deaths, scores, winner>>]_vars
  BY <1>1
<1> QED
  BY <1>2, Invariance, PTL DEF Spec, ResultIsFinal

-----------------------------------------------------------------------------
(* Kills, deaths and scores.                                               *)

\* Whoever has a bullet in flight has been registered.
OwnersInv ==
    /\ \A i \in 1..Len(bullets) : tank[bullets[i]] # "none"
    /\ \A i \in 1..Len(kept) : tank[kept[i]] # "none"

CountsInv == OwnersInv /\ KillsAreDeaths /\ ScoresAreKills

LEMMA TotalsAre ==
  /\ Total(kills) = Sum(kills, Players) /\ Total(deaths) = Sum(deaths, Players)
  /\ \A t : KillsOf(t) = Sum(kills, {p \in Players : team[p] = t})
  BY DEF Total, KillsOf, Sum

LEMMA TotalsArePrimed ==
  /\ Total(kills)' = Sum(kills', Players) /\ Total(deaths)' = Sum(deaths', Players)
  /\ \A t \in 0..2 : KillsOf(t)' = Sum(kills', {p \in Players : team'[p] = t})
<1>1. Total(kills)' = Sum(kills', Players)
  BY DEF Total, Sum, MapThenSumSet, MapThenFoldSet
<1>2. Total(deaths)' = Sum(deaths', Players)
  BY DEF Total, Sum, MapThenSumSet, MapThenFoldSet
<1>3. ASSUME NEW t \in 0..2
      PROVE  KillsOf(t)' = Sum(kills', {p \in Players : team'[p] = t})
  BY DEF KillsOf, Sum, MapThenSumSet, MapThenFoldSet
<1> QED
  BY <1>1, <1>2, <1>3

LEMMA InitCounts == Init => CountsInv
<1> SUFFICES ASSUME Init PROVE CountsInv
  OBVIOUS
<1> USE DEF Init
<1>1. OwnersInv
  BY DEF OwnersInv
<1>2. Total(kills) = 0 /\ Total(deaths) = 0
  BY TotalsAre, SumOfZeros, PlayersAssumption
<1> QED
  BY <1>1, <1>2 DEF CountsInv, KillsAreDeaths, ScoresAreKills

\* A registered player stays one, and one who has left does not come back.
LEMMA TanksGoOneWay ==
  ASSUME IInv, Next, NEW p \in Players
  PROVE  /\ tank[p] # "none" => tank'[p] # "none"
         /\ tank[p] = "left" => tank'[p] = "left"
<1> USE DEF tankVars
<1>1. tank \in [Players -> {"none", "alive", "dead", "left"}]
  BY DEF IInv, TypeOK
<1>2. CASE Host
  BY <1>1, <1>2 DEF Host, OnInit, RegisterPlayer, OnPlayerLeave, OnStart, OnEnd, Tanks
<1>3. CASE TickLoop
  <2>1. CASE \E q \in Players : BulletHits(q)
    BY <1>1, <2>1 DEF BulletHits
  <2>2. CASE UpdateRespawns
    BY <1>1, <2>2 DEF UpdateRespawns, Respawning
  <2> QED
    BY <1>3, <2>1, <2>2 DEF TickLoop, TickBegins, BulletMisses, BulletsMoved, Decide
<1>4. CASE \E q \in Players : Fire(q)
  BY <1>4 DEF Fire
<1> QED
  BY <1>2, <1>3, <1>4 DEF Next

LEMMA OwnersStay ==
  ASSUME IInv, OwnersInv, Next
  PROVE  OwnersInv'
<1> USE DEF gunVars
<1>1. bullets \in Seq(Players) /\ kept \in Seq(Players)
  BY DEF IInv, TypeOK
<1>2. \A p \in Players : tank[p] # "none" => tank'[p] # "none"
  BY TanksGoOneWay
<1>3. /\ \A i \in 1..Len(bullets) : bullets[i] \in Players /\ tank'[bullets[i]] # "none"
      /\ \A i \in 1..Len(kept) : kept[i] \in Players /\ tank'[kept[i]] # "none"
  BY <1>1, <1>2, ElementOfSeq DEF OwnersInv
<1>4. CASE UNCHANGED <<bullets, kept>>
  BY <1>3, <1>4 DEF OwnersInv
<1>5. ASSUME NEW p \in Players, Fire(p) PROVE OwnersInv'
  <2>1. tank'[p] # "none" /\ bullets' = Append(bullets, p) /\ kept' = kept
    BY <1>2, <1>5 DEF Fire
  <2>2. /\ Len(bullets') = Len(bullets) + 1 /\ bullets'[Len(bullets) + 1] = p
        /\ \A i \in 1..Len(bullets) : bullets'[i] = bullets[i]
    BY <1>1, <2>1, AppendProperties
  <2>3. Len(bullets) \in Nat
    BY <1>1, LenProperties
  <2>4. \A i \in 1..Len(bullets') : i \in 1..Len(bullets) \/ i = Len(bullets) + 1
    BY <2>2, <2>3
  <2> QED
    BY <1>3, <2>1, <2>2, <2>4 DEF OwnersInv
<1>6. ASSUME NEW fliesOn \in BOOLEAN, Moved(fliesOn) PROVE OwnersInv'
  <2>1. /\ bullets # <<>> /\ bullets' = Tail(bullets)
        /\ kept' = IF fliesOn THEN Append(kept, Head(bullets)) ELSE kept
    BY <1>6 DEF Moved
  <2>2. /\ Len(bullets) \in Nat \ {0} /\ Len(kept) \in Nat
        /\ Len(bullets') = Len(bullets) - 1
        /\ \A i \in 1..Len(bullets') : bullets'[i] = bullets[i + 1]
    BY <1>1, <2>1, HeadTailProperties, EmptySeq, LenProperties
  <2>3. \A i \in 1..Len(bullets') : tank'[bullets'[i]] # "none"
    <3>1. \A i \in 1..Len(bullets') : i + 1 \in 1..Len(bullets)
      BY <2>2
    <3> QED
      BY <1>3, <2>2, <3>1
  <2>4. Head(bullets) \in Players /\ tank'[Head(bullets)] # "none"
    <3>1. Head(bullets) = bullets[1] /\ 1 \in 1..Len(bullets)
      BY <1>1, <2>2
    <3> QED
      BY <1>3, <3>1
  <2>5. CASE fliesOn
    <3>1. /\ Len(kept') = Len(kept) + 1 /\ kept'[Len(kept) + 1] = Head(bullets)
          /\ \A i \in 1..Len(kept) : kept'[i] = kept[i]
      BY <1>1, <2>1, <2>4, <2>5, AppendProperties
    <3>2. \A i \in 1..Len(kept') : i \in 1..Len(kept) \/ i = Len(kept) + 1
      BY <2>2, <3>1
    <3> QED
      BY <1>3, <2>3, <2>4, <3>1, <3>2 DEF OwnersInv
  <2>6. CASE ~fliesOn
    BY <1>3, <2>1, <2>3, <2>6 DEF OwnersInv
  <2> QED
    BY <2>5, <2>6
<1>7. CASE BulletsMoved
  <2>1. bullets' = kept /\ kept' = <<>>
    BY <1>7 DEF BulletsMoved
  <2> QED
    BY <1>3, <2>1 DEF OwnersInv
<1>8. CASE TickLoop
  BY <1>4, <1>6, <1>7, <1>8
     DEF TickLoop, TickBegins, BulletMisses, BulletHits, UpdateRespawns, Decide
<1>9. CASE Host
  BY <1>4, <1>9 DEF Host, OnInit, RegisterPlayer, OnPlayerLeave, OnStart, OnEnd
<1> QED
  BY <1>5, <1>8, <1>9 DEF Next

\* Where nothing is counted the totals stay.
LEMMA NothingIsCounted ==
  ASSUME KillsAreDeaths, ScoresAreKills, UNCHANGED <<kills, deaths, scores, team, mode>>,
         \A p \in Players : tank[p] = "left" => tank'[p] = "left"
  PROVE  KillsAreDeaths' /\ ScoresAreKills'
<1>1. /\ Total(kills)' = Total(kills) /\ Total(deaths)' = Total(deaths)
      /\ \A t \in 0..2 : KillsOf(t)' = KillsOf(t)
  BY TotalsAre, TotalsArePrimed
<1>2. KillsAreDeaths'
  BY <1>1 DEF KillsAreDeaths
<1>3. ScoresAreKills'
  BY <1>1 DEF ScoresAreKills
<1> QED
  BY <1>2, <1>3

\* Before the start everything is zero, so that modes and teams may change.
LEMMA NothingIsCountedYet ==
  ASSUME IInv, KillsAreDeaths, loop = "off", UNCHANGED <<kills, deaths, scores>>,
         \A p \in Players : tank[p] = "left" => tank'[p] = "left"
  PROVE  KillsAreDeaths' /\ ScoresAreKills'
<1>1. Total(kills)' = Total(kills) /\ Total(deaths)' = Total(deaths)
  BY TotalsAre, TotalsArePrimed
<1>2. KillsAreDeaths'
  BY <1>1 DEF KillsAreDeaths
<1>3. scores'["red"] = 0 /\ scores'["blue"] = 0 /\ \A p \in Players : kills'[p] = 0
  BY DEF IInv, NothingYetInv
<1>4. ASSUME NEW t \in 0..2 PROVE KillsOf(t)' = 0
  <2>1. IsFiniteSet({p \in Players : team'[p] = t})
    BY PlayersAssumption, FS_Subset
  <2>2. Sum(kills', {p \in Players : team'[p] = t}) = 0
    BY <1>3, <2>1, SumOfZeros
  <2> QED
    BY <2>2, TotalsArePrimed
<1>5. ScoresAreKills'
  BY <1>3, <1>4 DEF ScoresAreKills
<1> QED
  BY <1>2, <1>5

\* A hit is one more death and, if the bullet's owner is still there, one more kill, for
\* the owner's team as well.
LEMMA HitKeepsCounts ==
  ASSUME IInv, CountsInv, NEW q \in Players, BulletHits(q)
  PROVE  KillsAreDeaths' /\ ScoresAreKills'
<1> DEFINE p == Head(bullets)
           Of(t) == {r \in Players : team[r] = t}
<1>1. TypeOK /\ KillsAreDeaths /\ ScoresAreKills
  BY DEF IInv, CountsInv
<1>2. p \in Players /\ tank[p] # "none"
  <2>1. bullets \in Seq(Players) /\ bullets # <<>>
    BY <1>1 DEF TypeOK, BulletHits, Moved
  <2>2. p = bullets[1] /\ 1 \in 1..Len(bullets)
    BY <2>1, EmptySeq
  <2> QED
    BY <2>1, <2>2, ElementOfSeq DEF CountsInv, OwnersInv
<1>3. /\ kills \in [Players -> Nat] /\ deaths \in [Players -> Nat]
      /\ scores \in [{"red", "blue"} -> Nat] /\ team \in [Players -> 0..2]
      /\ tank \in [Players -> {"none", "alive", "dead", "left"}]
  BY <1>1 DEF TypeOK
<1>4. /\ IsFiniteSet(Players) /\ \A t : IsFiniteSet(Of(t))
      /\ \A r \in Players : kills[r] \in Nat /\ deaths[r] \in Nat
  BY <1>3, PlayersAssumption, FS_Subset
<1>5. /\ Sum(kills, Players) \in Nat /\ Sum(deaths, Players) \in Nat
      /\ \A t : Sum(kills, Of(t)) \in Nat
  BY <1>4, SumIsNat
<1>6. /\ deaths' = [deaths EXCEPT ![q] = @ + 1] /\ UNCHANGED <<team, mode>>
      /\ kills' = [kills EXCEPT ![p] = IF p \in Tanks THEN kills[p] + 1 ELSE kills[p]]
      /\ scores' = IF p \in Tanks THEN Scored(p) ELSE scores
  BY DEF BulletHits, KillsWith
<1>7. Sum(deaths', Players) = Sum(deaths, Players) + 1
  <2>1. deaths'[q] = deaths[q] + 1 /\ \A r \in Players \ {q} : deaths'[r] = deaths[r]
    BY <1>3, <1>6
  <2> QED
    BY <1>4, <2>1, SumOfOneMore
<1> HIDE DEF p, Of
<1>8. CASE p \in Tanks
  <2>1. kills'[p] = kills[p] + 1 /\ \A r \in Players \ {p} : kills'[r] = kills[r]
    BY <1>2, <1>3, <1>6, <1>8
  <2>2. Sum(kills', Players) = Sum(kills, Players) + 1
    BY <1>2, <1>4, <2>1, SumOfOneMore
  <2>3. ASSUME NEW t \in 0..2
        PROVE  Sum(kills', Of(t)) = Sum(kills, Of(t)) + (IF team[p] = t THEN 1 ELSE 0)
    <3>1. Of(t) \subseteq Players /\ (p \in Of(t) <=> team[p] = t)
      BY <1>2 DEF Of
    <3>2. CASE team[p] = t
      <4>1. Sum(kills', Of(t)) = Sum(kills, Of(t)) + 1
        BY <1>4, <2>1, <3>1, <3>2, SumOfOneMore
      <4> QED
        BY <3>2, <4>1
    <3>3. CASE team[p] # t
      <4>1. Sum(kills', Of(t)) = Sum(kills, Of(t))
        BY <1>4, <2>1, <3>1, <3>3, SumAgrees
      <4> QED
        BY <1>5, <3>3, <4>1
    <3> QED
      BY <3>2, <3>3
  <2>4. KillsAreDeaths'
    <3>1. \A r \in Players : tank[r] = "left" => tank'[r] = "left"
      BY TanksGoOneWay DEF Next, TickLoop
    <3>2. /\ Total(kills)' = Total(kills) + 1 /\ Total(deaths)' = Total(deaths) + 1
          /\ Total(kills) \in Nat /\ Total(deaths) \in Nat
      BY <1>5, <1>7, <2>2, TotalsAre, TotalsArePrimed
    <3> QED
      BY <1>1, <3>1, <3>2 DEF KillsAreDeaths
  <2>5. ScoresAreKills'
    <3>1. KillsOf(1)' = Sum(kills', Of(1)) /\ KillsOf(2)' = Sum(kills', Of(2))
      BY <1>6, TotalsArePrimed DEF Of
    <3>2. KillsOf(1) = Sum(kills, Of(1)) /\ KillsOf(2) = Sum(kills, Of(2))
      BY TotalsAre DEF Of
    <3>3. mode = "team" => /\ scores'["red"] = scores["red"] + (IF team[p] = 1 THEN 1 ELSE 0)
                           /\ scores'["blue"] = scores["blue"] + (IF team[p] = 2 THEN 1 ELSE 0)
      BY <1>3, <1>6, <1>8 DEF Scored
    <3>4. /\ Sum(kills', Of(1)) = Sum(kills, Of(1)) + (IF team[p] = 1 THEN 1 ELSE 0)
          /\ Sum(kills', Of(2)) = Sum(kills, Of(2)) + (IF team[p] = 2 THEN 1 ELSE 0)
      BY <2>3
    <3> QED
      BY <1>1, <1>6, <3>1, <3>2, <3>3, <3>4 DEF ScoresAreKills
  <2> QED
    BY <2>4, <2>5
<1>9. CASE p \notin Tanks
  <2>1. tank[p] = "left"
    BY <1>2, <1>3, <1>9 DEF Tanks
  <2>2. kills' = kills /\ scores' = scores
    BY <1>2, <1>3, <1>6, <1>9
  <2>3. tank'[p] = "left"
    BY <1>2, <2>1, TanksGoOneWay DEF Next, TickLoop
  <2>4. KillsAreDeaths'
    <3>1. /\ Total(kills)' = Total(kills) /\ Total(deaths)' = Total(deaths) + 1
          /\ Total(kills) \in Nat /\ Total(deaths) \in Nat
      BY <1>5, <1>7, <2>2, TotalsAre, TotalsArePrimed
    <3> QED
      BY <1>1, <1>2, <2>3, <3>1 DEF KillsAreDeaths
  <2>5. ScoresAreKills'
    <3>1. \A t \in 0..2 : KillsOf(t)' = KillsOf(t)
      BY <1>6, <2>2, TotalsAre, TotalsArePrimed
    <3> QED
      BY <1>1, <1>6, <2>2, <3>1 DEF ScoresAreKills
  <2> QED
    BY <2>4, <2>5
<1> QED
  BY <1>8, <1>9

LEMMA CountsStep ==
  ASSUME IInv, CountsInv, Next
  PROVE  CountsInv'
<1> USE DEF tankVars, gameVars
<1>1. OwnersInv'
  BY OwnersStay DEF CountsInv
<1>2. KillsAreDeaths /\ ScoresAreKills
  BY DEF CountsInv
<1>3. \A p \in Players : tank[p] = "left" => tank'[p] = "left"
  BY TanksGoOneWay
<1>4. ASSUME UNCHANGED <<kills, deaths, scores, team, mode>>
      PROVE  KillsAreDeaths' /\ ScoresAreKills'
  BY <1>2, <1>3, <1>4, NothingIsCounted
<1>5. ASSUME NEW m \in Modes, OnInit(m)
      PROVE  KillsAreDeaths' /\ ScoresAreKills'
  <2>1. loop = "off" /\ UNCHANGED <<kills, deaths, scores>>
    BY <1>5 DEF OnInit
  <2> QED
    BY <1>2, <1>3, <2>1, NothingIsCountedYet
<1>6. ASSUME NEW p \in Players, NEW t \in Teams, RegisterPlayer(p, t)
      PROVE  KillsAreDeaths' /\ ScoresAreKills'
  <2>1. loop = "off" /\ UNCHANGED <<kills, deaths, scores>>
    BY <1>6 DEF RegisterPlayer, IInv, PhaseInv
  <2> QED
    BY <1>2, <1>3, <2>1, NothingIsCountedYet
<1>7. ASSUME NEW q \in Players, BulletHits(q)
      PROVE  KillsAreDeaths' /\ ScoresAreKills'
  BY <1>7, HitKeepsCounts
<1>8. KillsAreDeaths' /\ ScoresAreKills'
  <2>1. CASE Host
    BY <1>4, <1>5, <1>6, <2>1 DEF Host, OnPlayerLeave, OnStart, OnEnd
  <2>2. CASE TickLoop
    BY <1>4, <1>7, <2>2
       DEF TickLoop, TickBegins, BulletMisses, BulletsMoved, UpdateRespawns, Decide
  <2>3. CASE \E p \in Players : Fire(p)
    BY <1>4, <2>3 DEF Fire
  <2> QED
    BY <2>1, <2>2, <2>3 DEF Next
<1> QED
  BY <1>1, <1>8 DEF CountsInv

LEMMA CountsInvariance == Spec => []CountsInv
<1>1. ASSUME IInv, CountsInv, UNCHANGED vars PROVE CountsInv'
  <2>1. OwnersInv'
    BY <1>1 DEF CountsInv, OwnersInv, vars
  <2>2. KillsAreDeaths' /\ ScoresAreKills'
    BY <1>1, NothingIsCounted DEF CountsInv, vars
  <2> QED
    BY <2>1, <2>2 DEF CountsInv
<1>2. IInv /\ CountsInv /\ [Next]_vars => CountsInv'
  BY <1>1, CountsStep
<1> QED
  BY <1>2, InitCounts, Invariance, PTL DEF Spec

\* Kills never exceed deaths, and equal them as long as nobody has left: no bullet counts
\* twice, whoever fires, is hit, comes back or leaves.
THEOREM KillsMatchDeaths == Spec => []KillsAreDeaths
<1>1. CountsInv => KillsAreDeaths
  BY DEF CountsInv
<1> QED
  BY <1>1, CountsInvariance, PTL

\* In team mode a team's score is the sum of its players' kills.
THEOREM ScoresMatchKills == Spec => []ScoresAreKills
<1>1. CountsInv => ScoresAreKills
  BY DEF CountsInv
<1> QED
  BY <1>1, CountsInvariance, PTL
=============================================================================
