---------------------------- MODULE MCGameSystems ----------------------------
(***************************************************************************)
(* The two game systems in one instance for TLC.  They share no state, so  *)
(* their steps need no interleaving: buffs come and go beside one          *)
(* attacker, and attackers grow beside a manager without buffs.            *)
(*                                                                         *)
(* Buffs: two effects, three instance ids, two levels, times of one and of *)
(* two ticks, and command lists that change one or both attributes, one of *)
(* them twice.                                                             *)
(***************************************************************************)
EXTENDS BuffManager, Combat

CONSTANTS i1, i2, i3, atk, def

MCIds == {i1, i2, i3}
MCAttrs == {atk, def}
MCCommandLists == {
    << [attrId |-> atk, delta |-> 3] >>,
    << [attrId |-> atk, delta |-> 5], [attrId |-> def, delta |-> -2],
       [attrId |-> atk, delta |-> 1] >> }
MCBaseStats == [a \in {atk, def} |-> 10]

Newcomer == CHOOSE s \in CombatStats : TRUE

GameInit == Init /\ CombatInit

GameNext == \/ Next /\ attacker = Newcomer /\ UNCHANGED combatVars
            \/ Grow /\ adds = 0 /\ UNCHANGED vars

GameSpec == /\ GameInit /\ [][GameNext]_<<vars, combatVars>>
            /\ WF_vars(TickAll) /\ WF_vars(Expire)
=============================================================================
