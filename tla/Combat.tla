-------------------------------- MODULE Combat --------------------------------
(***************************************************************************)
(* combat_formula.cpp: the damage of an attack, layer by layer with the    *)
(* conversions of C++, and the share of experience a kill earns.  The two  *)
(* float members are multiples of 1/4, which a float holds exactly; a      *)
(* share of experience is in hundredths.  Values are far from the ends of  *)
(* int32_t.                                                                *)
(***************************************************************************)
EXTENDS Integers

CONSTANTS
    Strength, Agility, Level, Monster, WeaponMin, WeaponMax, OffhandMin,
    OffhandMax, Bonus, Penalty, Multiplier, HP, MP, Rate     \* the values of the members

ASSUME StatsAssumption ==
    Strength \cup Agility \cup Level \cup WeaponMin \cup WeaponMax \cup Monster
         \cup OffhandMin \cup OffhandMax \cup Bonus \cup Penalty \cup Multiplier
         \cup HP \cup MP \cup Rate \subseteq Nat

VARIABLES attacker,     \* the CombatStats of an attacker
          monster       \* the level of the monsters it kills

combatVars == <<attacker, monster>>

Equipment == Bonus \cup {-p : p \in Penalty}

CombatStats ==
    [strength : Strength, agility : Agility, level : Level,
     weaponDamageMin : WeaponMin, weaponDamageMax : WeaponMax,
     offhandDamageMin : OffhandMin, offhandDamageMax : OffhandMax,
     equipmentBonus : Equipment, buffDamageMultiplier : Multiplier,     \* in quarters
     currentHP : HP, currentMP : MP, conversionRate : Rate,         \* in quarters
     hpConversionActive : BOOLEAN, mpConversionActive : BOOLEAN]

Greater(a, b) == IF a > b THEN a ELSE b

\* A quotient and a conversion to int32_t drop the fraction.
Truncated(n, d) == IF n >= 0 THEN n \div d ELSE -((-n) \div d)

-----------------------------------------------------------------------------
CalcBaseDamage(s) == Greater(s.strength * 2 + s.level * 3 + s.agility \div 4, 1)

\* Mutant: two weapons deal their average.
CalcWeaponDamageAverage(s) ==
    IF s.offhandDamageMax > 0
      THEN (s.weaponDamageMin + s.weaponDamageMax
              + s.offhandDamageMin + s.offhandDamageMax) \div 4
      ELSE (s.weaponDamageMin + s.weaponDamageMax) \div 2

CalcWeaponDamage(s) ==
    (s.weaponDamageMin + s.weaponDamageMax) \div 2 +
    (IF s.offhandDamageMax > 0
       THEN (((s.offhandDamageMin + s.offhandDamageMax) \div 2) * 60) \div 100
       ELSE 0)

CalcConversionBonus(s) ==
    (IF s.hpConversionActive THEN Truncated(s.currentHP * s.conversionRate, 4) ELSE 0) +
    (IF s.mpConversionActive THEN Truncated(s.currentMP * s.conversionRate, 4) ELSE 0)

\* Layers 1 to 3.
Unbuffed(s) == CalcBaseDamage(s) + CalcWeaponDamage(s) + s.equipmentBonus

\* Mutant: the conversion is added before the multiplier.
CalculateDamageBefore(s) ==
    Greater(Truncated((Unbuffed(s) + CalcConversionBonus(s)) * s.buffDamageMultiplier, 4), 1)

CalculateDamage(s) ==
    Greater(Truncated(Unbuffed(s) * s.buffDamageMultiplier, 4)
              + CalcConversionBonus(s), 1)

CalcExpDeclineRate(playerLevel, monsterLevel) ==
    LET diff == playerLevel - monsterLevel
    IN CASE diff <= 5  -> 100
         [] 5 < diff /\ diff <= 10 -> 80
         [] 10 < diff /\ diff <= 15 -> 50
         [] 15 < diff /\ diff <= 20 -> 20
         [] OTHER -> 1

-----------------------------------------------------------------------------
CombatInit == attacker \in CombatStats /\ monster \in Monster

\* A character grows in one member: a level, an item, a buff, a skill.
Grow ==
    /\ attacker' \in {[attacker EXCEPT !.strength = v] : v \in Strength}
            \cup {[attacker EXCEPT !.agility = v] : v \in Agility}
            \cup {[attacker EXCEPT !.level = v] : v \in Level}
            \cup {[attacker EXCEPT !.weaponDamageMin = v] : v \in WeaponMin}
            \cup {[attacker EXCEPT !.weaponDamageMax = v] : v \in WeaponMax}
            \cup {[attacker EXCEPT !.offhandDamageMin = v] : v \in OffhandMin}
            \cup {[attacker EXCEPT !.offhandDamageMax = v] : v \in OffhandMax}
            \cup {[attacker EXCEPT !.equipmentBonus = v] : v \in Equipment}
            \cup {[attacker EXCEPT !.buffDamageMultiplier = v] : v \in Multiplier}
            \cup {[attacker EXCEPT !.currentHP = v] : v \in HP}
            \cup {[attacker EXCEPT !.currentMP = v] : v \in MP}
            \cup {[attacker EXCEPT !.conversionRate = v] : v \in Rate}
            \cup {[attacker EXCEPT !.hpConversionActive = TRUE]}
            \cup {[attacker EXCEPT !.mpConversionActive = TRUE]}
    /\ \A m \in DOMAIN attacker \ {"hpConversionActive", "mpConversionActive"} :
         attacker'[m] >= attacker[m]
    /\ UNCHANGED monster

CombatSpec == CombatInit /\ [][Grow]_combatVars

-----------------------------------------------------------------------------
(* Reference definition *)

\* The damage before any rounding, in 160ths.
Exact(s) ==
    (40 * (s.strength * 2 + s.level * 3 + s.equipmentBonus) + 10 * s.agility
       + 20 * (s.weaponDamageMin + s.weaponDamageMax)
       + (IF s.offhandDamageMax > 0
            THEN 12 * (s.offhandDamageMin + s.offhandDamageMax) ELSE 0))
      * s.buffDamageMultiplier
    + 40 * s.conversionRate * ((IF s.hpConversionActive THEN s.currentHP ELSE 0)
                                + (IF s.mpConversionActive THEN s.currentMP ELSE 0))

(* The seven roundings of the layers stay small: the damage is never more  *)
(* than the formula without them, and less by under three points times the *)
(* multiplier, plus three for the last three conversions.  (For            *)
(* attackers above the floors of the first and the last layer and with no  *)
(* penalty that outweighs the rest.)                                       *)
RoundingBounded ==
    Exact(attacker) >= 160 /\ Unbuffed(attacker) >= 0
      /\ attacker.strength * 2 + attacker.level * 3 >= 1 =>
        LET lost == Exact(attacker) - 160 * CalculateDamage(attacker)
        IN /\ lost >= 0
           /\ lost < 120 * attacker.buffDamageMultiplier + 480

(* Nothing a character gains makes it weaker, through the truncations, the *)
(* off-hand weapon's threshold and the floors (only a multiplier on an     *)
(* item penalty that outweighs the rest may), and a level gained never     *)
(* earns more from the same monster, over all five steps of the table.     *)
GrowthIsMonotonic ==
    [][/\ Unbuffed(attacker) >= 0 => CalculateDamage(attacker') >= CalculateDamage(attacker)
       /\ CalcExpDeclineRate(attacker'.level, monster)
            <= CalcExpDeclineRate(attacker.level, monster)]_combatVars
=============================================================================
