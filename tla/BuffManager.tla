----------------------------- MODULE BuffManager -----------------------------
(***************************************************************************)
(* CBuffManager (game-systems/buff_system.cpp): the buffs of one character,*)
(* indexed by instance id and by effect, the stat commands each of them    *)
(* has executed, and the character's stats.  One action is one call; the   *)
(* loop of TickAll over the expired buffs takes one action per buff, in    *)
(* any order, as unordered_map gives none.                                 *)
(***************************************************************************)
EXTENDS Integers, Sequences, FiniteSets

CONSTANTS
    Ids,            \* instance ids
    Effects,        \* effect types
    Levels,         \* buff levels
    Durations,      \* remainTime of a new buff, in tenths of seconds
    Attrs,          \* attributes of the character
    CommandLists,   \* lists of stat commands a buff may carry
    BaseStats,      \* the stats without any buff
    EnchantWidth,   \* number of values of enchantTimes (256)
    MaxAdds         \* bound: calls of AddBuff

TickTenths == 10    \* one tick, in tenths of seconds

Commands == [attrId : Attrs, delta : Int]

ASSUME BuffAssumption ==
    /\ Levels \subseteq Int
    /\ Durations \subseteq Nat \ {0}
    /\ CommandLists \subseteq Seq(Commands)
    /\ BaseStats \in [Attrs -> Int]
    /\ EnchantWidth \in Nat \ {0}
    /\ MaxAdds \in Nat

VARIABLES
    m_byId,         \* the buffs, by instance id
    m_byEffect,     \* the id of the buff with an effect
    m_commands,     \* the commands executed, by instance id
    stats,          \* the character's stat array
    expired,        \* ids TickAll has still to remove
    adds            \* calls of AddBuff so far

vars == <<m_byId, m_byEffect, m_commands, stats, expired, adds>>

BuffEntry == [effectId : Effects, level : Levels,
              remainTime : Int, enchantTimes : 0 .. EnchantWidth - 1]

-----------------------------------------------------------------------------
(* Maps with keys added and erased. *)
With(map, key, value) ==
    [k \in DOMAIN map \cup {key} |-> IF k = key THEN value ELSE map[k]]
Without(map, key) == [k \in DOMAIN map \ {key} |-> map[k]]

(* What a list of commands adds to an attribute in all. *)
Delta(commands, attr) ==
    LET sum[i \in 0 .. Len(commands)] ==
          IF i = 0 THEN 0
          ELSE sum[i - 1] + (IF commands[i].attrId = attr
                               THEN commands[i].delta ELSE 0)
    IN sum[Len(commands)]

(* ApplyStatDelta for each command of a list, and for its inverse. *)
Applied(array, commands) ==
    [a \in Attrs |-> array[a] + Delta(commands, a)]

\* Mutant: the commands are forgotten without being undone.
NotRolledBack(array, commands) == array

RolledBack(array, commands) ==
    [a \in Attrs |-> array[a] - Delta(commands, a)]

-----------------------------------------------------------------------------
Init ==
    /\ m_byId = << >> /\ m_byEffect = << >> /\ m_commands = << >>
    /\ stats = BaseStats
    /\ expired = {} /\ adds = 0

\* AddBuff is called between ticks; an instance id is unique among live buffs.
Adding(id) ==
    /\ expired = {}
    /\ id \notin DOMAIN m_byId
    /\ adds < MaxAdds
    /\ adds' = adds + 1

\* The effect is not active: execute the commands, enter both maps.
AddNew(id, buff, commands) ==
    /\ Adding(id)
    /\ buff.effectId \notin DOMAIN m_byEffect
    /\ m_commands' = With(m_commands, id, commands)
    /\ stats' = Applied(stats, commands)
    /\ m_byId' = With(m_byId, id, buff)
    /\ m_byEffect' = With(m_byEffect, buff.effectId, id)
    /\ UNCHANGED expired
\* The buff that is active with the effect of a new one.
Existing(buff) == m_byEffect[buff.effectId]

\* enchantTimes is a byte.
Restacked(times) == (times + 1) % EnchantWidth

\* The same level is active: restart its time and count the restack.
Restack(id, buff) ==
    /\ Adding(id)
    /\ buff.effectId \in DOMAIN m_byEffect
    /\ buff.level = m_byId[Existing(buff)].level
    /\ m_byId' = [m_byId EXCEPT
         ![Existing(buff)].remainTime = buff.remainTime,
         ![Existing(buff)].enchantTimes = Restacked(@)]
    /\ UNCHANGED <<m_byEffect, m_commands, stats, expired>>

\* A higher level is active: AddBuff returns false.
Reject(id, buff) ==
    /\ Adding(id)
    /\ buff.effectId \in DOMAIN m_byEffect
    /\ buff.level < m_byId[Existing(buff)].level
    /\ UNCHANGED <<m_byId, m_byEffect, m_commands, stats, expired>>

\* Mutant: only looks for a difference.
Differs(buff) == buff.level # m_byId[Existing(buff)].level

Outranks(buff) == buff.level > m_byId[Existing(buff)].level

\* A lower level is active: remove it, then enter the new buff.
Replace(id, buff, commands) ==
    /\ Adding(id)
    /\ buff.effectId \in DOMAIN m_byEffect
    /\ Outranks(buff)
    /\ m_commands' = With(Without(m_commands, Existing(buff)), id, commands)
    /\ stats' = Applied(RolledBack(stats, m_commands[Existing(buff)]), commands)
    /\ m_byId' = With(Without(m_byId, Existing(buff)), id, buff)
    /\ m_byEffect' = With(Without(m_byEffect, buff.effectId), buff.effectId, id)
    /\ UNCHANGED expired

NewBuff == [effectId : Effects, level : Levels,
            remainTime : Durations, enchantTimes : {0}]

AddBuff ==
    \E id \in Ids, buff \in NewBuff :
      \/ Restack(id, buff)
      \/ Reject(id, buff)
      \/ \E commands \in CommandLists :
           AddNew(id, buff, commands) \/ Replace(id, buff, commands)

\* Mutant: the entry of the effect stays.
RemovalKeepsEffect(id) ==
    /\ id \in DOMAIN m_byId
    /\ stats' = RolledBack(stats, m_commands[id])
    /\ m_commands' = Without(m_commands, id)
    /\ m_byId' = Without(m_byId, id)
    /\ UNCHANGED m_byEffect

\* The body of RemoveBuff for an id that is found.
Removal(id) ==
    /\ id \in DOMAIN m_byId
    /\ stats' = RolledBack(stats, m_commands[id])
    /\ m_commands' = Without(m_commands, id)
    /\ m_byEffect' = Without(m_byEffect, m_byId[id].effectId)
    /\ m_byId' = Without(m_byId, id)

\* RemoveBuff called from outside, between ticks.
RemoveBuff ==
    /\ expired = {}
    /\ \E id \in Ids : Removal(id)
    /\ UNCHANGED <<expired, adds>>

\* Mutant: not yet when the time is exactly up.
TimeIsPast(buff) == buff.remainTime - TickTenths < 0

TimeIsUp(buff) == buff.remainTime - TickTenths <= 0

\* The first loop of TickAll: a second passes for every buff, and the ones
\* whose time is up are collected.
TickAll ==
    /\ expired = {} /\ m_byId # << >>
    /\ m_byId' = [id \in DOMAIN m_byId |->
                    [m_byId[id] EXCEPT !.remainTime = @ - TickTenths]]
    /\ expired' = {id \in DOMAIN m_byId : TimeIsUp(m_byId[id])}
    /\ UNCHANGED <<m_byEffect, m_commands, stats, adds>>

\* The second loop: one collected buff is removed.
Expire ==
    /\ \E id \in expired : Removal(id) /\ expired' = expired \ {id}
    /\ UNCHANGED adds

Next == AddBuff \/ RemoveBuff \/ TickAll \/ Expire

(* TickAll is called once per second and runs to its end. *)
Spec == Init /\ [][Next]_vars /\ WF_vars(TickAll) /\ WF_vars(Expire)

-----------------------------------------------------------------------------
(* Properties *)

\* A map from some of the keys K to values V.
IsMap(map, K, V) == DOMAIN map \subseteq K /\ map \in [DOMAIN map -> V]

TypeOK ==
    /\ IsMap(m_byId, Ids, BuffEntry)
    /\ IsMap(m_byEffect, Effects, Ids)
    /\ IsMap(m_commands, Ids, CommandLists)
    /\ stats \in [Attrs -> Int]
    /\ expired \in SUBSET Ids
    /\ adds \in 0 .. MaxAdds

(* The three maps agree: every buff is found by its effect and by its id,  *)
(* no effect has two buffs, and a buff's commands are kept exactly as long *)
(* as the buff.  RemoveBuff erases the effect of whatever buff it finds,   *)
(* so a single disagreement would make later calls remove the wrong entry. *)
IndexesAgree ==
    /\ DOMAIN m_commands = DOMAIN m_byId
    /\ \A id \in DOMAIN m_byId :
         /\ m_byId[id].effectId \in DOMAIN m_byEffect
         /\ m_byEffect[m_byId[id].effectId] = id
    /\ \A e \in DOMAIN m_byEffect :
         /\ m_byEffect[e] \in DOMAIN m_byId
         /\ m_byId[m_byEffect[e]].effectId = e

(* What a set of buffs adds to an attribute in all. *)
Total(commandsOf, attr) ==
    LET sum[S \in SUBSET DOMAIN commandsOf] ==
          IF S = {} THEN 0
          ELSE LET id == CHOOSE x \in S : TRUE
               IN Delta(commandsOf[id], attr) + sum[S \ {id}]
    IN sum[DOMAIN commandsOf]

(* Rollback is exact: after any history of restacks, rejections,           *)
(* replacements, removals and expiries the stats are the base ones plus    *)
(* the commands of the buffs that are active now.                          *)
StatsAreActiveBuffs ==
    \A a \in Attrs : stats[a] = BaseStats[a] + Total(m_commands, a)

(* Between ticks every active buff has time left: none is overdue.         *)
NoneOverdue ==
    expired = {} => \A id \in DOMAIN m_byId : m_byId[id].remainTime > 0

(* TickAll removes each collected buff once, and the buff is still there   *)
(* to be found.                                                            *)
ExpiredAreActive == expired \subseteq DOMAIN m_byId

(* Both: a tick removes what has run out, all of it and once.              *)
TickIsExact == NoneOverdue /\ ExpiredAreActive

(* While an effect stays on the character its level never drops.           *)
NeverWeakened ==
    [][\A e \in DOMAIN m_byEffect \cap DOMAIN m_byEffect' :
         m_byId'[m_byEffect'[e]].level >= m_byId[m_byEffect[e]].level]_vars

(* Once nothing is added any more every buff expires, and the character    *)
(* has its base stats again.                                               *)
EverythingExpires == <>[](m_byId = << >> /\ stats = BaseStats)
=============================================================================
