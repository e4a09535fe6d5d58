----------------------------- MODULE TankBattle -----------------------------
(***************************************************************************)
(* The tank battle's Game, driven through the game.Game interface: a host  *)
(* loads the map (OnInit), registers the players and starts the game;      *)
(* then the players' messages, the host's calls and the goroutine of the   *)
(* tick loop share Game.mu.  OnInit is optional here because the lobby of  *)
(* this server never calls it.                                             *)
(*                                                                         *)
(* The tick loop holds the mutex from TickBegins to Decide; its parts are  *)
(* steps.  Geometry is abstracted: in a tick a bullet flies on, is lost to *)
(* a wall or the screen's edge, or hits any living tank but its owner's.   *)
(* So are the key inputs, which move tanks and do nothing else: a buffered *)
(* PlayerInput never has Fire, OnMessage having fired and returned before. *)
(***************************************************************************)
EXTENDS Integers, Sequences, FiniteSets, FiniteSetsExt

CONSTANTS
    Players,        \* real player ids; each is registered at most once, under one game id
    Teams,          \* the teams the host registers players for: 1 is red, 2 is blue, 0 neither
    MaxHealth,      \* TankMaxHealth
    RespawnTicks,   \* ticks until TankRespawnTime, counted down in floats, is used up
    CooldownTicks,  \* ticks in BulletCooldown
    DMKillLimit, TeamKillLimit,
    MaxShots,       \* bound: bullets fired in a behaviour
    None

ASSUME PlayersAssumption == IsFiniteSet(Players) /\ None \notin Players
ASSUME TeamsAssumption == Teams \subseteq 0..2
ASSUME NumbersAssumption ==
    {MaxHealth, RespawnTicks, CooldownTicks, DMKillLimit, TeamKillLimit, MaxShots}
        \subseteq Nat \ {0}

VARIABLES
    mapLoaded,  \* gameMap # nil
    mode,       \* "unset" before OnInit
    phase,      \* "unset" before OnInit
    tank,       \* per player: "none", "alive", "dead", or "left" after OnPlayerLeave
    team,       \* Player.Team
    health,     \* Player.Health
    respawn,    \* Player.spawnTimer in ticks
    sinceFire,  \* tick - lastFire, counted up to CooldownTicks
    kills, deaths,
    scores,     \* "red" and "blue"
    winner,
    bullets,    \* the owners of the bullets in flight, those still to be moved in a tick
    kept,       \* newBullets: those that have been moved and fly on
    shots,      \* bullets fired so far
    loop        \* where the tick loop is; "panicked" when OnStart has

gameVars == <<mapLoaded, mode, team, scores, winner>>
tankVars == <<tank, health, respawn, kills, deaths>>
gunVars == <<bullets, kept, shots, sinceFire>>
vars == <<mapLoaded, mode, phase, tank, team, health, respawn, sinceFire, kills, deaths,
          scores, winner, bullets, kept, shots, loop>>

\* What OnInit may be told; "other" is any string that is no mode.
Modes == {"dm", "team", "other"}

\* The types of the state; the slice being rebuilt is empty outside updateBullets.
TypeOK ==
    /\ mapLoaded \in BOOLEAN
    /\ mode \in Modes \cup {"unset"}
    /\ phase \in {"unset", "lobby", "playing", "game_over"}
    /\ tank \in [Players -> {"none", "alive", "dead", "left"}]
    /\ team \in [Players -> 0..2]
    /\ health \in [Players -> 0..MaxHealth]
    /\ respawn \in [Players -> 0..RespawnTicks]
    /\ sinceFire \in [Players -> 0..CooldownTicks]
    /\ kills \in [Players -> Nat]
    /\ deaths \in [Players -> Nat]
    /\ scores \in [{"red", "blue"} -> Nat]
    /\ winner \in Players \cup {"red", "blue", None}
    /\ bullets \in Seq(Players)
    /\ kept \in Seq(Players)
    /\ shots \in 0..MaxShots
    /\ loop \in {"off", "sleeping", "bullets", "respawns", "deciding", "ended", "panicked"}
    /\ loop # "bullets" => kept = <<>>

Init ==
    /\ mapLoaded = FALSE
    /\ mode = "unset" /\ phase = "unset"
    /\ tank = [p \in Players |-> "none"]
    /\ team = [p \in Players |-> 0]
    /\ health = [p \in Players |-> 0]
    /\ respawn = [p \in Players |-> 0]
    /\ sinceFire = [p \in Players |-> 0]
    /\ kills = [p \in Players |-> 0]
    /\ deaths = [p \in Players |-> 0]
    /\ scores = [c \in {"red", "blue"} |-> 0]
    /\ winner = None
    /\ bullets = <<>> /\ kept = <<>>
    /\ shots = 0
    /\ loop = "off"

\* Keys of Game.players.
Tanks == {p \in Players : tank[p] \in {"alive", "dead"}}

MutexFree == loop \in {"off", "sleeping", "ended"}

-----------------------------------------------------------------------------
(* The host's calls, in the order of the interface.                        *)

\* Before anybody is registered; the rest of the state is what NewGame made it.
OnInit(m) ==
    /\ MutexFree
    /\ phase = "unset" /\ Tanks = {} /\ loop = "off"
    /\ mapLoaded' = TRUE
    /\ mode' = m
    /\ phase' = "lobby"
    /\ UNCHANGED <<tankVars, gunVars, team, scores, winner, loop>>

RegisterPlayer(p, t) ==
    /\ MutexFree
    /\ phase \in {"unset", "lobby"} /\ tank[p] = "none"
    /\ tank' = [tank EXCEPT ![p] = "alive"]
    /\ team' = [team EXCEPT ![p] = t]
    /\ health' = [health EXCEPT ![p] = MaxHealth]
    /\ UNCHANGED <<mapLoaded, mode, phase, scores, winner, respawn, kills, deaths, gunVars, loop>>

\* Once per game.  The tanks still are as they were registered, which is what
\* OnStart makes them.  On the nil map it panics at the first one, mutex held.
OnStart ==
    /\ MutexFree
    /\ phase \in {"unset", "lobby"}
    /\ phase' = "playing"
    /\ loop' = IF mapLoaded \/ Tanks = {} THEN "sleeping" ELSE "panicked"
    /\ UNCHANGED <<gameVars, tankVars, gunVars>>

\* The bullets of the player fly on.
OnPlayerLeave(p) ==
    /\ MutexFree
    /\ p \in Tanks
    /\ tank' = [tank EXCEPT ![p] = "left"]
    /\ UNCHANGED <<gameVars, health, respawn, kills, deaths, phase, gunVars, loop>>

\* In any phase.  On the nil map the snapshot for the result then panics, which changes
\* nothing and keeps no mutex.
OnEnd ==
    /\ MutexFree
    /\ phase' = "game_over"
    /\ UNCHANGED <<gameVars, tankVars, gunVars, loop>>

\* OnMessage with fire, in any phase.  At exactly CooldownTicks the rounding of
\* tick * TickDuration may still refuse, and the message has no effect.
Fire(p) ==
    /\ MutexFree
    /\ tank[p] = "alive"
    /\ sinceFire[p] >= CooldownTicks
    /\ shots < MaxShots
    /\ sinceFire' = [sinceFire EXCEPT ![p] = 0]
    /\ bullets' = Append(bullets, p)
    /\ shots' = shots + 1
    /\ UNCHANGED <<gameVars, tankVars, phase, kept, loop>>

-----------------------------------------------------------------------------
(* The tick loop.                                                          *)

\* tick++, as the guns' cooldown sees it.
GunsCool ==
    sinceFire' = [p \in Players |->
                     IF sinceFire[p] < CooldownTicks THEN sinceFire[p] + 1 ELSE sinceFire[p]]

\* Mutant: the phase is not looked at.
MutTickBegins ==
    /\ loop = "sleeping"
    /\ loop' = "bullets"
    /\ GunsCool
    /\ UNCHANGED <<gameVars, tankVars, phase, bullets, kept, shots>>

\* The checks of stopTick, which implies the phase, and of the phase; tick++.
TickBegins ==
    /\ loop = "sleeping"
    /\ \/ /\ phase # "playing"
          /\ loop' = "ended"
          /\ UNCHANGED sinceFire
       \/ /\ phase = "playing"
          /\ loop' = "bullets"
          /\ GunsCool
    /\ UNCHANGED <<gameVars, tankVars, phase, bullets, kept, shots>>

\* The next bullet leaves the old slice; those in fliesOn go to the new one.
Moved(fliesOn) ==
    /\ loop = "bullets"
    /\ bullets # <<>>
    /\ bullets' = Tail(bullets)
    /\ kept' = IF fliesOn THEN Append(kept, Head(bullets)) ELSE kept
    /\ UNCHANGED <<shots, sinceFire, loop, phase>>

BulletMisses ==
    /\ \E fliesOn \in BOOLEAN : Moved(fliesOn)
    /\ UNCHANGED <<gameVars, tankVars>>

\* Mutant: the score is that of the tank's colour that was hit.
MutScored(p) ==
    [scores EXCEPT !["red"] = IF mode = "team" /\ team[p] = 1 THEN @ + 1 ELSE @,
                   !["blue"] = IF mode = "team" /\ team[p] # 1 THEN @ + 1 ELSE @]

\* The team score after a kill of p's.
Scored(p) ==
    [scores EXCEPT !["red"] = IF mode = "team" /\ team[p] = 1 THEN @ + 1 ELSE @,
                   !["blue"] = IF mode = "team" /\ team[p] = 2 THEN @ + 1 ELSE @]

\* Mutant: the timer is only set for a tank that has been hit below zero.
MutTimerAfter(h) == IF h < 0 THEN RespawnTicks ELSE 0

\* spawnTimer of a tank that is left with health h.
TimerAfter(h) == IF h <= 0 THEN RespawnTicks ELSE 0

\* Mutant: only the hit that destroys the tank is credited.
MutKillsWith(p, h) == IF p \in Tanks /\ h <= 0 THEN kills[p] + 1 ELSE kills[p]

\* Kills of the owner p of a bullet that leaves a tank with health h: any hit counts.
\* An owner who has left is not credited.
KillsWith(p, h) == IF p \in Tanks THEN kills[p] + 1 ELSE kills[p]

\* A hit counts as a kill and a death whether or not the tank survives it.
BulletHits(q) ==
    LET p == Head(bullets)
        h == health[q] - 1
    IN  /\ Moved(FALSE)
        /\ tank[q] = "alive" /\ q # p
        /\ health' = [health EXCEPT ![q] = h]
        /\ deaths' = [deaths EXCEPT ![q] = @ + 1]
        /\ kills' = [kills EXCEPT ![p] = KillsWith(p, h)]
        /\ scores' = IF p \in Tanks THEN Scored(p) ELSE scores
        /\ tank' = [tank EXCEPT ![q] = IF h <= 0 THEN "dead" ELSE "alive"]
        /\ respawn' = [respawn EXCEPT ![q] = TimerAfter(h)]
        /\ UNCHANGED <<mapLoaded, mode, team, winner>>

\* Mutant: the new slice is used again in the next tick.
MutBulletsMoved ==
    /\ loop = "bullets"
    /\ bullets = <<>>
    /\ bullets' = kept
    /\ loop' = "respawns"
    /\ UNCHANGED <<gameVars, tankVars, phase, kept, shots, sinceFire>>

BulletsMoved ==
    /\ loop = "bullets"
    /\ bullets = <<>>
    /\ bullets' = kept
    /\ kept' = <<>>
    /\ loop' = "respawns"
    /\ UNCHANGED <<gameVars, tankVars, phase, shots, sinceFire>>

Respawning == {p \in Players : tank[p] = "dead" /\ respawn[p] = 1}

\* Mutant: a tank comes back with the health it died with.
MutHealthNow(p) == health[p]

\* Health after updateRespawns.
HealthNow(p) == IF p \in Respawning THEN MaxHealth ELSE health[p]

UpdateRespawns ==
    /\ loop = "respawns"
    /\ respawn' = [p \in Players |-> IF tank[p] = "dead" /\ respawn[p] > 0 THEN respawn[p] - 1 ELSE respawn[p]]
    /\ tank' = [p \in Players |-> IF p \in Respawning THEN "alive" ELSE tank[p]]
    /\ health' = [p \in Players |-> HealthNow(p)]
    /\ loop' = "deciding"
    /\ UNCHANGED <<gameVars, kills, deaths, phase, gunVars>>

\* Mutant: exactly the limit.
MutWinners ==
    {p \in Tanks : mode = "dm" /\ kills[p] = DMKillLimit}
        \cup {c \in {"red", "blue"} : mode = "team" /\ scores[c] = TeamKillLimit}

\* The winners checkWinCondition may choose from: of the players, in map order, the
\* first one at the limit; red before blue; without a mode nobody.
Winners ==
    {p \in Tanks : mode = "dm" /\ kills[p] >= DMKillLimit}
        \cup {c \in {"red", "blue"} : /\ mode = "team" /\ scores[c] >= TeamKillLimit
                                      /\ c = "blue" => scores["red"] < TeamKillLimit}

\* checkWinCondition, the mutex is released, and a finished game ends the loop.
Decide ==
    /\ loop = "deciding"
    /\ \/ /\ winner' \in Winners
          /\ phase' = "game_over"
          /\ loop' = "ended"
       \/ /\ Winners = {}
          /\ loop' = "sleeping"
          /\ UNCHANGED <<phase, winner>>
    /\ UNCHANGED <<mapLoaded, mode, team, scores, tankVars, gunVars>>

-----------------------------------------------------------------------------
TickLoop ==
    \/ TickBegins \/ BulletMisses \/ (\E q \in Players : BulletHits(q)) \/ BulletsMoved
    \/ UpdateRespawns \/ Decide

Host ==
    \/ \E m \in Modes : OnInit(m)
    \/ \E p \in Players, t \in Teams : RegisterPlayer(p, t)
    \/ \E p \in Players : OnPlayerLeave(p)
    \/ OnStart \/ OnEnd

Next == Host \/ TickLoop \/ \E p \in Players : Fire(p)

Spec == Init /\ [][Next]_vars

\* The ticker fires for ever, its goroutine is scheduled, and the host's broadcast
\* function, which the loop calls between two ticks, returns.
FairSpec == Spec /\ WF_vars(TickLoop)

-----------------------------------------------------------------------------
(* Properties.                                                             *)

\* A tank in the game is alive with health left and no timer, or dead with its timer
\* running: hits, deaths and respawns leave none half dead or dead for good.
AliveOrComingBack ==
    \A p \in Tanks :
        IF tank[p] = "alive" THEN health[p] > 0 /\ respawn[p] = 0
                             ELSE health[p] = 0 /\ respawn[p] > 0

Total(count) == MapThenSumSet(LAMBDA p : count[p], Players)

\* Every kill is somebody's death and, as long as nobody has left, the other way round:
\* no bullet counts twice, respawning keeps the counts.
KillsAreDeaths ==
    /\ Total(kills) <= Total(deaths)
    /\ (\A p \in Players : tank[p] # "left") => Total(kills) = Total(deaths)

KillsOf(t) == MapThenSumSet(LAMBDA p : kills[p], {p \in Players : team[p] = t})

\* In team mode a team's score is the sum of its players' kills, those who have left
\* included.
ScoresAreKills ==
    mode = "team" => scores["red"] = KillsOf(1) /\ scores["blue"] = KillsOf(2)

\* Between two ticks of a running game nobody in it is at the limit: the tick that
\* reaches it also ends the game, also when one tick takes the count past the limit.
WinIsPrompt ==
    MutexFree /\ phase = "playing" =>
        /\ mode = "dm" => \A p \in Tanks : kills[p] < DMKillLimit
        /\ mode = "team" => \A c \in {"red", "blue"} : scores[c] < TeamKillLimit

\* Once the game is over, by a win or by OnEnd between two ticks, nothing is counted
\* any more and the winner stays, whatever is still in flight.
ResultIsFinal ==
    [][phase = "game_over" => UNCHANGED <<phase, kills, deaths, scores, winner>>]_vars

\* A game that is over gives its tick loop up, if it had one, whoever ended it and
\* wherever the loop was: no ticker keeps running for it.
LoopEnds == (phase = "game_over") ~> (loop \in {"off", "ended"})

\* A dead tank comes back unless its player leaves or the game ends first.
DeadTankReturns ==
    \A p \in Players :
        (tank[p] = "dead") ~> (tank[p] # "dead" \/ phase = "game_over")
=============================================================================
