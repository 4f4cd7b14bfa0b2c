---------------------------- MODULE StivaleProofs ---------------------------
(***************************************************************************)
(* What the stivale loaders promise holds for all kernels, displays,       *)
(* processors and dates, over any number of attempts.                      *)
(***************************************************************************)
EXTENDS Stivale, IntervalTheorems

(***************************************************************************)
(* GetBestGfxMode, for every table of modes and every size.                *)
(***************************************************************************)

Options == [mode : Int, width : Nat, height : Nat, exact : BOOLEAN]

LEMMA ModesTyped ==
    ASSUME NEW modes \in SizedModeTables, NEW n \in 1 .. Len(modes)
    PROVE  modes[n].bgr \in BOOLEAN /\ modes[n].width \in Nat /\ modes[n].height \in Nat
<1> DEFINE Mode == [bgr : BOOLEAN, width : Nat \ {0}, height : Nat \ {0}]
<1>1. modes \in Seq(Mode)
  BY DEF SizedModeTables
<1>2. modes[n] \in Mode
  <2> HIDE DEF Mode
  <2> QED BY <1>1
<1> QED BY ONLY <1>2

\* The variables of the loop after each mode.
SearchOf(modes, width, height, option) ==
    /\ GoodOption(modes, width, height) = option[Len(modes)].mode
    /\ option[0] = NoOption
    /\ \A n \in 1 .. Len(modes) :
          option[n] = NextOption(modes[n], n, width, height, option[n - 1])

LEMMA OptionsExist ==
    ASSUME NEW modes \in SizedModeTables, NEW width, NEW height
    PROVE  \E option \in [0 .. Len(modes) -> Options] : SearchOf(modes, width, height, option)
<1>1. PICK len \in Nat : len = Len(modes)
  BY DEF SizedModeTables
<1> DEFINE step == [n \in 1 .. len |-> [best \in Options |-> NextOption(modes[n], n, width, height, best)]]
           Rec(f) == [n \in 0 .. len |->
                IF n = 0 THEN NoOption ELSE NextOption(modes[n], n, width, height, f[n - 1])]
           option == CHOOSE f : f = Rec(f)
<1>2. NoOption \in Options
  BY DEF NoOption, Options, NoMode
<1>3. ASSUME NEW n \in 1 .. len, NEW best \in Options
      PROVE  NextOption(modes[n], n, width, height, best) \in Options
  <2>1. modes[n].width \in Nat /\ modes[n].height \in Nat
    BY <1>1, ModesTyped
  <2>2. [best EXCEPT !.mode = n - 1, !.exact = TRUE] \in Options
    <3>1. n - 1 \in Int /\ TRUE \in BOOLEAN
      OBVIOUS
    <3> QED BY ONLY <3>1, best \in Options DEF Options
  <2>3. [mode |-> n - 1, width |-> modes[n].width, height |-> modes[n].height, exact |-> FALSE] \in Options
    BY <2>1 DEF Options
  <2>4. \/ NextOption(modes[n], n, width, height, best) = best
        \/ NextOption(modes[n], n, width, height, best) = [best EXCEPT !.mode = n - 1, !.exact = TRUE]
        \/ NextOption(modes[n], n, width, height, best) =
              [mode |-> n - 1, width |-> modes[n].width, height |-> modes[n].height, exact |-> FALSE]
    BY ONLY Zenon DEF NextOption
  <2> QED BY ONLY <2>2, <2>3, <2>4, best \in Options, Zenon
<1>4. step \in [1 .. len -> [Options -> Options]]
  BY <1>3
<1>5. \A n \in 1 .. len, best \in Options : step[n][best] = NextOption(modes[n], n, width, height, best)
  OBVIOUS
<1> HIDE DEF step
<1>6. PICK f \in [0 .. len -> Options] : Iterates(f, len, NoOption, step)
  BY <1>2, <1>4, BoundedRecursion
<1>7. f = Rec(f)
  <2>1. ASSUME NEW n \in 0 .. len, n # 0
        PROVE  f[n] = NextOption(modes[n], n, width, height, f[n - 1])
    <3>1. n \in 1 .. len /\ n - 1 \in 0 .. len
      BY <1>1, <2>1
    <3>2. f[n - 1] \in Options
      BY <1>6, <3>1
    <3> QED BY <1>5, <1>6, <3>1, <3>2 DEF Iterates
  <2> QED BY <1>6, <2>1 DEF Iterates
<1>8. option = Rec(option)
  <2> HIDE DEF Rec
  <2> QED BY <1>7
<1>9. /\ option[0] = NoOption
      /\ \A n \in 1 .. len : option[n] = NextOption(modes[n], n, width, height, option[n - 1])
      /\ DOMAIN option = 0 .. len
  <2> HIDE DEF option
  <2> QED BY <1>1, <1>8
<1>10. option \in [0 .. len -> Options]
  <2> DEFINE T == {n \in 0 .. len : option[n] \in Options}
  <2> HIDE DEF option
  <2>1. 0 \in T
    BY <1>1, <1>2, <1>9
  <2>2. \A n \in 1 .. len : n - 1 \in T => n \in T
    BY <1>1, <1>3, <1>9
  <2>3. 0 .. len \subseteq T
    <3> HIDE DEF T
    <3> QED BY <1>1, <2>1, <2>2, BoundedInduction
  <2>4. option = [n \in 0 .. len |-> option[n]]
    BY <1>8
  <2> QED BY <2>3, <2>4
<1>11. GoodOption(modes, width, height) = option[len].mode
  BY <1>1 DEF GoodOption
<1> HIDE DEF option
<1> QED BY <1>1, <1>9, <1>10, <1>11 DEF SearchOf

\* What is good of the first n modes: an exact one that ended the search; or none is
\* exact, and the option is nothing, as none fits, or one of those that fit and, where
\* modes differ in both dimensions, one of the largest of them.
Searched(modes, option, n, fitting, exact, chain) ==
    \/ option.exact /\ option.mode \in exact
    \/ /\ ~option.exact /\ \A m \in exact : m >= n
       /\ \/ option.mode = NoMode /\ option.width = 0 /\ option.height = 0 /\ \A m \in fitting : m >= n
          \/ /\ option.mode \in fitting
             /\ IsSize(modes[option.mode + 1], option.width, option.height)
             /\ chain => \A m \in fitting : m < n => ~Larger(modes[m + 1], option)

LEMMA SearchStep ==
    ASSUME NEW modes \in SizedModeTables, NEW width \in Nat, NEW height \in Nat,
           NEW n \in 1 .. Len(modes), NEW best \in Options,
           NEW fitting, NEW exact, NEW chain \in BOOLEAN,
           fitting = {m \in 0 .. Len(modes) - 1 :
                modes[m + 1].bgr /\ ~(modes[m + 1].width > width /\ modes[m + 1].height > height)},
           exact = {m \in fitting : IsSize(modes[m + 1], width, height)},
           chain => \A i, j \in 1 .. Len(modes) :
                \/ Larger(modes[i], modes[j]) \/ Larger(modes[j], modes[i])
                \/ IsSize(modes[i], modes[j].width, modes[j].height),
           Searched(modes, best, n - 1, fitting, exact, chain)
    PROVE  Searched(modes, NextOption(modes[n], n, width, height, best), n, fitting, exact, chain)
<1> DEFINE after == NextOption(modes[n], n, width, height, best)
<1>1. PICK len \in Nat : len = Len(modes)
  BY DEF SizedModeTables
<1>2. \A m \in 1 .. len : modes[m].bgr \in BOOLEAN /\ modes[m].width \in Nat /\ modes[m].height \in Nat
  BY <1>1, ModesTyped
<1>3. /\ best.mode \in Int /\ best.width \in Nat /\ best.height \in Nat /\ best.exact \in BOOLEAN
  BY DEF Options
<1>4. /\ n \in 1 .. len /\ n - 1 \in 0 .. len - 1 /\ n - 1 + 1 = n
      /\ \A m \in 0 .. len - 1 : m + 1 \in 1 .. len /\ (m >= n - 1 => m = n - 1 \/ m >= n)
      /\ \A m \in 0 .. len - 1 : m < n => m = n - 1 \/ m < n - 1
  BY <1>1
<1>5. /\ \A m : m \in fitting <=>
            m \in 0 .. len - 1 /\ modes[m + 1].bgr /\ ~(modes[m + 1].width > width /\ modes[m + 1].height > height)
      /\ \A m : m \in exact <=> m \in fitting /\ IsSize(modes[m + 1], width, height)
  BY <1>1
<1>6. CASE best.exact
  BY ONLY <1>6, Searched(modes, best, n - 1, fitting, exact, chain), Zenon DEF NextOption, Searched
<1>7. CASE ~best.exact /\ ~modes[n].bgr
  <2>1. after = best
    BY <1>7 DEF NextOption
  <2>2. n - 1 \notin fitting /\ n - 1 \notin exact
    BY <1>4, <1>5, <1>7
  <2> QED BY ONLY <1>4, <1>5, <1>7, <2>1, <2>2, Searched(modes, best, n - 1, fitting, exact, chain) DEF Searched
<1>8. CASE ~best.exact /\ modes[n].bgr /\ IsSize(modes[n], width, height)
  <2>1. after = [best EXCEPT !.mode = n - 1, !.exact = TRUE]
    BY <1>8 DEF NextOption
  <2>2. after.exact /\ after.mode = n - 1
    BY <2>1 DEF Options
  <2>3. n - 1 \in exact
    BY <1>2, <1>4, <1>5, <1>8 DEF IsSize
  <2> QED BY <2>2, <2>3 DEF Searched
<1>9. CASE /\ ~best.exact /\ modes[n].bgr /\ ~IsSize(modes[n], width, height)
           /\ PassedOver(modes[n], width, height, best)
  <2>1. after = best
    BY <1>9 DEF NextOption
  <2>2. n - 1 \notin exact
    BY <1>4, <1>5, <1>9
  <2>3. n - 1 \in fitting => best.mode # NoMode /\ ~Larger(modes[n], best)
    <3>1. modes[n].width \in Nat /\ modes[n].height \in Nat
      BY <1>2, <1>4
    <3>2. n - 1 \in fitting => ~(modes[n].width > width /\ modes[n].height > height)
      BY <1>4, <1>5
    <3>3. best.mode = NoMode => best.width = 0 /\ best.height = 0
      BY <1>3, <1>5, <1>9 DEF Searched, NoMode
    <3> QED BY ONLY <1>3, <1>9, <3>1, <3>2, <3>3 DEF PassedOver, Larger
  <2> QED BY ONLY <1>4, <1>5, <1>9, <2>1, <2>2, <2>3, Searched(modes, best, n - 1, fitting, exact, chain) DEF Searched
<1>10. CASE /\ ~best.exact /\ modes[n].bgr /\ ~IsSize(modes[n], width, height)
            /\ ~PassedOver(modes[n], width, height, best)
  <2>1. after = [mode |-> n - 1, width |-> modes[n].width, height |-> modes[n].height, exact |-> FALSE]
    BY <1>10 DEF NextOption
  <2>2. /\ after.mode = n - 1 /\ ~after.exact
        /\ after.width = modes[n].width /\ after.height = modes[n].height
    BY ONLY <2>1
  <2>3. n - 1 \notin exact /\ n - 1 \in fitting
    BY <1>2, <1>4, <1>5, <1>10 DEF PassedOver
  <2>4. \A m \in exact : m >= n
    BY ONLY <1>4, <1>5, <1>10, <2>3, Searched(modes, best, n - 1, fitting, exact, chain) DEF Searched
  <2>5. IsSize(modes[n - 1 + 1], after.width, after.height)
    BY <1>4, <2>2 DEF IsSize
  <2>6. ASSUME chain, NEW m \in fitting, m < n PROVE ~Larger(modes[m + 1], after)
    <3>1. /\ modes[n].width \in Nat /\ modes[n].height \in Nat /\ m + 1 \in 1 .. len
          /\ modes[m + 1].width \in Nat /\ modes[m + 1].height \in Nat
      BY <1>2, <1>4, <1>5
    <3>2. CASE m = n - 1
      <4>1. modes[m + 1].width = after.width
        BY <1>4, <2>2, <3>2
      <4> QED BY ONLY <3>1, <4>1 DEF Larger
    <3>3. CASE m < n - 1
      <4>1. best.mode \in fitting /\ IsSize(modes[best.mode + 1], best.width, best.height) /\ ~Larger(modes[m + 1], best)
        <5>1. m \in 0 .. len - 1 /\ ~(m >= n - 1)
          BY <1>4, <1>5, <2>6, <3>3
        <5> QED BY ONLY <1>10, <2>6, <3>3, <5>1, Searched(modes, best, n - 1, fitting, exact, chain) DEF Searched
      <4>2. best.mode + 1 \in 1 .. Len(modes) /\ n \in 1 .. Len(modes)
        BY <1>1, <1>4, <1>5, <4>1
      <4>3. \/ Larger(modes[n], modes[best.mode + 1]) \/ Larger(modes[best.mode + 1], modes[n])
            \/ IsSize(modes[n], modes[best.mode + 1].width, modes[best.mode + 1].height)
        BY <2>6, <4>2
      <4>4. ~(modes[n].width < best.width /\ modes[n].height < best.height)
        BY ONLY <1>10 DEF PassedOver
      <4>5. modes[best.mode + 1].width = best.width /\ modes[best.mode + 1].height = best.height
        BY ONLY <4>1 DEF IsSize
      <4>6. \/ modes[n].width > best.width /\ modes[n].height > best.height
            \/ modes[n].width = best.width /\ modes[n].height = best.height
        BY ONLY <4>3, <4>4, <4>5, <3>1, <1>3 DEF Larger, IsSize
      <4>7. ~(modes[m + 1].width > best.width /\ modes[m + 1].height > best.height)
        BY ONLY <4>1 DEF Larger
      <4>8. ~(modes[m + 1].width > modes[n].width /\ modes[m + 1].height > modes[n].height)
        BY ONLY <4>6, <4>7, <3>1, <1>3
      <4> HIDE DEF after
      <4> QED BY ONLY <2>2, <4>8 DEF Larger
    <3>4. m = n - 1 \/ m < n - 1
      BY <1>4, <1>5, <2>6
    <3> QED BY ONLY <3>2, <3>3, <3>4
  <2>7. Searched(modes, after, n, fitting, exact, chain)
    <3> HIDE DEF after
    <3> QED BY ONLY <2>2, <2>3, <2>4, <2>5, <2>6, chain \in BOOLEAN, Zenon DEF Searched
  <2> QED BY <2>7
<1>11. best.exact \in BOOLEAN /\ modes[n].bgr \in BOOLEAN
  BY <1>2, <1>3, <1>4
<1> HIDE DEF after
<1> QED BY ONLY <1>6, <1>7, <1>8, <1>9, <1>10, <1>11
\* The modes that fit a size and those that have it exactly, and the tables of modes that
\* differ in both dimensions.
FittingOf(modes, width, height) ==
    {m \in 0 .. Len(modes) - 1 :
        modes[m + 1].bgr /\ ~(modes[m + 1].width > width /\ modes[m + 1].height > height)}
ExactOf(modes, width, height) ==
    {m \in FittingOf(modes, width, height) : IsSize(modes[m + 1], width, height)}
ChainOf(modes) ==
    \A i, j \in 1 .. Len(modes) :
        \/ Larger(modes[i], modes[j]) \/ Larger(modes[j], modes[i])
        \/ IsSize(modes[i], modes[j].width, modes[j].height)

\* GetBestGfxMode finds a mode of the wished size if there is one, and else one that
\* fits; of modes that differ in both dimensions the largest that fits.
THEOREM GetBestGfxModeResult ==
    ASSUME NEW modes \in SizedModeTables, NEW width \in Nat, NEW height \in Nat,
           NEW mode \in GetBestGfxMode(modes, width, height), FittingOf(modes, width, height) # {}
    PROVE  /\ mode \in (IF ExactOf(modes, width, height) # {} THEN ExactOf(modes, width, height)
                        ELSE FittingOf(modes, width, height))
           /\ ChainOf(modes) => \A m \in FittingOf(modes, width, height) :
                                    ~Larger(modes[m + 1], modes[mode + 1])
<1> DEFINE fitting == FittingOf(modes, width, height)
           exact == ExactOf(modes, width, height)
<1>a. PICK chain \in BOOLEAN : chain <=> ChainOf(modes)
  <2>1. CASE ChainOf(modes)
    BY <2>1
  <2>2. CASE ~ChainOf(modes)
    BY <2>2
  <2> QED BY <2>1, <2>2
<1>b. /\ fitting = {m \in 0 .. Len(modes) - 1 :
                modes[m + 1].bgr /\ ~(modes[m + 1].width > width /\ modes[m + 1].height > height)}
      /\ exact = {m \in fitting : IsSize(modes[m + 1], width, height)}
  BY DEF FittingOf, ExactOf
<1>c. chain => \A i, j \in 1 .. Len(modes) :
                \/ Larger(modes[i], modes[j]) \/ Larger(modes[j], modes[i])
                \/ IsSize(modes[i], modes[j].width, modes[j].height)
  BY <1>a DEF ChainOf
<1>d. fitting # {}
  OBVIOUS
<1> HIDE DEF fitting, exact
<1>1. PICK len \in Nat : len = Len(modes)
  BY DEF SizedModeTables
<1>0. PICK option \in [0 .. Len(modes) -> Options] : SearchOf(modes, width, height, option)
  BY OptionsExist
<1>2. /\ option \in [0 .. len -> Options]
      /\ GoodOption(modes, width, height) = option[len].mode
      /\ option[0] = NoOption
      /\ \A n \in 1 .. len : option[n] = NextOption(modes[n], n, width, height, option[n - 1])
  BY <1>0, <1>1 DEF SearchOf
<1> DEFINE S(n) == Searched(modes, option[n], n, fitting, exact, chain)
           T == {n \in 0 .. len : S(n)}
<1>3. 0 \in T
  <2>1. /\ ~option[0].exact /\ option[0].mode = NoMode
        /\ option[0].width = 0 /\ option[0].height = 0
    BY ONLY <1>2 DEF NoOption
  <2>2. (\A m \in fitting : m >= 0) /\ \A m \in exact : m >= 0
    BY <1>1, <1>b
  <2> QED BY <1>1, <2>1, <2>2 DEF Searched
<1>4. ASSUME NEW n \in 1 .. len, n - 1 \in T PROVE n \in T
  <2>1. n - 1 \in 0 .. len /\ n \in 0 .. len /\ n \in 1 .. Len(modes)
    BY <1>1
  <2>2. option[n - 1] \in Options
    BY <1>2, <2>1
  <2>3. S(n - 1)
    BY <1>4
  <2>4. Searched(modes, NextOption(modes[n], n, width, height, option[n - 1]), n, fitting, exact, chain)
    BY <1>b, <1>c, <2>1, <2>2, <2>3, SearchStep
  <2> QED BY <1>2, <2>1, <2>4
<1>5. S(len)
  <2> HIDE DEF T
  <2>1. 0 .. len \subseteq T
    BY <1>1, <1>3, <1>4, BoundedInduction
  <2> QED BY <1>1, <2>1 DEF T
<1>6. option[len] \in Options
  BY <1>1, <1>2
<1>7. PICK found \in Options : found = option[len]
  BY <1>6
<1>8. Searched(modes, found, len, fitting, exact, chain) /\ GoodOption(modes, width, height) = found.mode
  BY <1>2, <1>5, <1>7
<1>9. \A m \in fitting : m \in 0 .. len - 1 /\ m + 1 \in 1 .. len /\ ~(m >= len)
  BY <1>1, <1>b
<1>10. exact \subseteq fitting
  BY <1>b
<1>11. found.mode \in fitting
  BY ONLY <1>8, <1>9, <1>10, <1>d, chain \in BOOLEAN, Zenon DEF Searched
<1>12. mode = found.mode
  <2>1. found.mode # NoMode
    BY <1>9, <1>11 DEF NoMode
  <2> QED BY <1>8, <2>1 DEF GetBestGfxMode
<1>13. \A m \in 1 .. len : modes[m].width \in Nat /\ modes[m].height \in Nat
  BY <1>1, ModesTyped
<1>14. ASSUME found.exact
       PROVE  /\ mode \in (IF exact # {} THEN exact ELSE fitting)
              /\ chain => \A m \in fitting : ~Larger(modes[m + 1], modes[mode + 1])
  <2>1. mode \in exact
    BY <1>8, <1>9, <1>10, <1>12, <1>14 DEF Searched
  <2>2. modes[mode + 1].width = width /\ modes[mode + 1].height = height
    BY <1>b, <2>1 DEF IsSize
  <2>3. ASSUME NEW m \in fitting PROVE ~Larger(modes[m + 1], modes[mode + 1])
    <3>1. ~(modes[m + 1].width > width /\ modes[m + 1].height > height)
      BY <1>b
    <3> QED BY ONLY <2>2, <3>1 DEF Larger
  <2> QED BY <2>1, <2>3
<1>15. ASSUME ~found.exact
       PROVE  /\ mode \in (IF exact # {} THEN exact ELSE fitting)
              /\ chain => \A m \in fitting : ~Larger(modes[m + 1], modes[mode + 1])
  <2>1. /\ \A m \in exact : m >= len
        /\ IsSize(modes[mode + 1], found.width, found.height)
        /\ chain => \A m \in fitting : m < len => ~Larger(modes[m + 1], found)
    BY ONLY <1>8, <1>9, <1>11, <1>12, <1>15, chain \in BOOLEAN, Zenon DEF Searched
  <2>2. exact = {}
    BY <1>9, <1>10, <2>1
  <2>3. ASSUME chain, NEW m \in fitting PROVE ~Larger(modes[m + 1], modes[mode + 1])
    <3>1. m < len
      BY <1>9
    <3>2. ~Larger(modes[m + 1], found)
      BY <2>1, <2>3, <3>1
    <3> QED BY ONLY <2>1, <3>2 DEF Larger, IsSize
  <2> QED BY <1>11, <1>12, <2>2, <2>3
<1>16. /\ mode \in (IF exact # {} THEN exact ELSE fitting)
       /\ ChainOf(modes) => \A m \in fitting : ~Larger(modes[m + 1], modes[mode + 1])
  BY <1>a, <1>14, <1>15
<1> QED BY <1>16 DEF fitting, exact

(***************************************************************************)
(* GetJdn, for every date.                                                 *)
(***************************************************************************)

\* How many multiples are below the next year, and how many below this one.
LEMMA OneMoreFour ==
    ASSUME NEW y \in Nat
    PROVE  /\ (y + 3) \div 4 \in Int /\ y \div 4 \in Int
           /\ y \div 4 + 1 = (y + 3) \div 4 + (IF y % 4 = 0 THEN 1 ELSE 0)
  OBVIOUS

LEMMA OneMoreHundred ==
    ASSUME NEW y \in Nat
    PROVE  /\ (y + 99) \div 100 \in Int /\ y \div 100 \in Int
           /\ y \div 100 + 1 = (y + 99) \div 100 + (IF y % 100 = 0 THEN 1 ELSE 0)
  OBVIOUS

LEMMA OneMoreFourHundred ==
    ASSUME NEW y \in Nat
    PROVE  /\ (y + 399) \div 400 \in Int /\ y \div 400 \in Int
           /\ y \div 400 + 1 = (y + 399) \div 400 + (IF y % 400 = 0 THEN 1 ELSE 0)
  OBVIOUS

LEMMA MultiplesOfMultiples ==
    ASSUME NEW y \in Nat
    PROVE  (y % 400 = 0 => y % 100 = 0) /\ (y % 100 = 0 => y % 4 = 0)
  OBVIOUS

Leap(year) == IF IsLeap(year) THEN 1 ELSE 0

\* The leap years below a year, in closed form.
Leaps(year) == (year + 3) \div 4 - (year + 99) \div 100 + (year + 399) \div 400

LEMMA LeapsTyped ==
    ASSUME NEW y \in Nat
    PROVE  Leaps(y) \in Int /\ Leap(y) \in 0 .. 1
  BY OneMoreFour, OneMoreHundred, OneMoreFourHundred DEF Leaps, Leap

LEMMA LeapsOfThisYear ==
    ASSUME NEW y \in Nat
    PROVE  y \div 4 - y \div 100 + y \div 400 + 1 = Leaps(y) + Leap(y)
  BY OneMoreFour, OneMoreHundred, OneMoreFourHundred, MultiplesOfMultiples DEF Leaps, Leap, IsLeap

LEMMA LeapsOfNextYear ==
    ASSUME NEW y \in Nat
    PROVE  Leaps(y + 1) = Leaps(y) + Leap(y)
<1>1. /\ (y + 1 + 3) \div 4 = y \div 4 + 1
      /\ (y + 1 + 99) \div 100 = y \div 100 + 1
      /\ (y + 1 + 399) \div 400 = y \div 400 + 1
  OBVIOUS
<1>2. y \div 4 \in Int /\ y \div 100 \in Int /\ y \div 400 \in Int
  BY OneMoreFour, OneMoreHundred, OneMoreFourHundred
<1>3. Leaps(y + 1) = (y + 1 + 3) \div 4 - (y + 1 + 99) \div 100 + (y + 1 + 399) \div 400
  BY DEF Leaps
<1>4. Leaps(y + 1) = y \div 4 - y \div 100 + y \div 400 + 1
  BY ONLY <1>1, <1>2, <1>3
<1> QED BY ONLY <1>4, LeapsOfThisYear, y \in Nat

\* The closed form is right, in every year.
LEMMA LeapYearsCounted ==
    ASSUME NEW year \in Nat
    PROVE  LeapYearsBefore(year) = Leaps(year)
<1> DEFINE Before(y) == {x \in 0 .. y - 1 : IsLeap(x)}
           T == {y \in 0 .. year : IsFiniteSet(Before(y)) /\ Cardinality(Before(y)) = Leaps(y)}
<1>1. 0 \in T
  <2>1. Before(0) = {}
    OBVIOUS
  <2>2. Leaps(0) = 0
    BY DEF Leaps
  <2>3. IsFiniteSet({}) /\ Cardinality({}) = 0
    BY FS_EmptySet
  <2>4. IsFiniteSet(Before(0)) /\ Cardinality(Before(0)) = Leaps(0)
    BY ONLY <2>1, <2>2, <2>3
  <2> QED BY <2>4
<1>2. ASSUME NEW i \in 1 .. year, i - 1 \in T PROVE i \in T
  <2>1. PICK y \in Nat : y = i - 1 /\ i = y + 1
    OBVIOUS
  <2>2. IsFiniteSet(Before(y)) /\ Cardinality(Before(y)) = Leaps(y)
    BY <1>2, <2>1
  <2>3. y \notin Before(y) /\ Before(y + 1) = (IF IsLeap(y) THEN Before(y) \cup {y} ELSE Before(y))
    <3>1. y \notin 0 .. y - 1 /\ 0 .. y + 1 - 1 = (0 .. y - 1) \cup {y}
      OBVIOUS
    <3>2. ASSUME NEW x PROVE x \in Before(y + 1) <=> (x \in Before(y) \/ (x = y /\ IsLeap(y)))
      BY ONLY <3>1
    <3>3. y \notin Before(y)
      BY ONLY <3>1
    <3> HIDE DEF Before
    <3>4. CASE IsLeap(y)
      BY ONLY <3>2, <3>3, <3>4
    <3>5. CASE ~ IsLeap(y)
      BY ONLY <3>2, <3>3, <3>5
    <3> QED BY ONLY <3>4, <3>5
  <2>4. IsFiniteSet(Before(y + 1)) /\ Cardinality(Before(y + 1)) = Leaps(y) + Leap(y)
    <3> HIDE DEF Before
    <3>1. CASE IsLeap(y)
      <4>1. IsFiniteSet(Before(y) \cup {y}) /\ Cardinality(Before(y) \cup {y}) = Cardinality(Before(y)) + 1
        BY <2>2, <2>3, FS_AddElement
      <4> QED BY ONLY <2>2, <2>3, <3>1, <4>1 DEF Leap
    <3>2. CASE ~ IsLeap(y)
      <4>1. Leaps(y) + 0 = Leaps(y)
        BY LeapsTyped
      <4> QED BY ONLY <2>2, <2>3, <3>2, <4>1 DEF Leap
    <3> QED BY <3>1, <3>2
  <2>5. IsFiniteSet(Before(i)) /\ Cardinality(Before(i)) = Leaps(i)
    <3> HIDE DEF Before
    <3> QED BY <2>1, <2>4, LeapsOfNextYear
  <2> HIDE DEF Before
  <2> QED BY <2>5
<1>3. 0 .. year \subseteq T
  <2> HIDE DEF T
  <2> QED BY <1>1, <1>2, BoundedInduction
<1>4. Cardinality(Before(year)) = Leaps(year)
  <2> HIDE DEF Before
  <2> QED BY <1>3
<1> QED BY <1>4 DEF LeapYearsBefore

\* The days before each month, of a leap year and of another.
MonthTable(leap) ==
    [m \in 1 .. 12 |->
        CASE m = 1 -> 0 [] m = 2 -> 31 [] m = 3 -> 59 + leap [] m = 4 -> 90 + leap
          [] m = 5 -> 120 + leap [] m = 6 -> 151 + leap [] m = 7 -> 181 + leap
          [] m = 8 -> 212 + leap [] m = 9 -> 243 + leap [] m = 10 -> 273 + leap
          [] m = 11 -> 304 + leap [] m = 12 -> 334 + leap]

LEMMA MonthTableTyped ==
    ASSUME NEW leap \in 0 .. 1, NEW m \in 1 .. 12
    PROVE  MonthTable(leap)[m] \in Nat
  BY DEF MonthTable

LEMMA MonthsAdded ==
    ASSUME NEW y \in Nat
    PROVE  DaysBefore(y) = MonthTable(Leap(y))
<1> DEFINE leap == Leap(y)
           Table == MonthTable(leap)
           Rec(f) == [m \in 1 .. 12 |-> IF m = 1 THEN 0 ELSE f[m - 1] + MonthLength(y, m - 1)]
           before == CHOOSE f : f = Rec(f)
<1>1. leap \in 0 .. 1
  BY LeapsTyped
<1>2. /\ MonthLength(y, 1) = 31 /\ MonthLength(y, 2) = 28 + leap /\ MonthLength(y, 3) = 31
      /\ MonthLength(y, 4) = 30 /\ MonthLength(y, 5) = 31 /\ MonthLength(y, 6) = 30
      /\ MonthLength(y, 7) = 31 /\ MonthLength(y, 8) = 31 /\ MonthLength(y, 9) = 30
      /\ MonthLength(y, 10) = 31 /\ MonthLength(y, 11) = 30
  BY DEF MonthLength, Leap
<1> HIDE DEF leap
<1>3. ASSUME NEW m \in 1 .. 12
      PROVE  Table[m] = IF m = 1 THEN 0 ELSE Table[m - 1] + MonthLength(y, m - 1)
  BY <1>1, <1>2 DEF MonthTable
<1>4. Table = Rec(Table)
  BY <1>3 DEF MonthTable
<1>5. before = Rec(before)
  <2> HIDE DEF Table, Rec
  <2> QED BY <1>4
<1>6. DaysBefore(y) = before
  BY DEF DaysBefore
<1>7. before = Table
  <2> HIDE DEF before
  <2> DEFINE T == {i \in 0 .. 11 : before[i + 1] = Table[i + 1]}
  <2>1. 0 \in T
    <3>1. before[1] = 0
      BY ONLY <1>5
    <3>2. Table[1] = 0
      BY DEF MonthTable
    <3> HIDE DEF Table
    <3> QED BY <3>1, <3>2
  <2>2. ASSUME NEW i \in 1 .. 11, i - 1 \in T PROVE i \in T
    <3>1. before[i] = Table[i]
      BY <2>2
    <3>2. i + 1 \in 1 .. 12 /\ i + 1 # 1 /\ i + 1 - 1 = i
      OBVIOUS
    <3>3. Table[i + 1] = Table[i] + MonthLength(y, i)
      <4> HIDE DEF Table
      <4> QED BY ONLY <1>3, <3>2
    <3>4. before[i + 1] = before[i] + MonthLength(y, i)
      BY ONLY <1>5, <3>2
    <3> HIDE DEF Table
    <3> QED BY <3>1, <3>3, <3>4
  <2>3. 0 .. 11 \subseteq T
    <3> HIDE DEF T
    <3> QED BY <2>1, <2>2, BoundedInduction
  <2>4. ASSUME NEW m \in 1 .. 12 PROVE before[m] = Table[m]
    <3>1. m - 1 \in 0 .. 11 /\ m - 1 + 1 = m
      OBVIOUS
    <3> HIDE DEF Table
    <3> QED BY <2>3, <3>1
  <2>5. before = [m \in 1 .. 12 |-> before[m]]
    BY <1>5
  <2>6. Table = [m \in 1 .. 12 |-> Table[m]]
    BY DEF MonthTable
  <2> HIDE DEF Table
  <2> QED BY ONLY <2>4, <2>5, <2>6
<1> QED BY <1>6, <1>7 DEF leap

\* The summands of the formula, for dates of March and later, in the year, and for
\* those before March, in the year before.
LEMMA YearsOfFormula ==
    ASSUME NEW y \in Nat
    PROVE  /\ (1461 * y) \div 4 = 365 * y + y \div 4
           /\ (3 * ((y + 100) \div 100)) \div 4 = y \div 100 - y \div 400
  OBVIOUS

YearPart(years) == Quotient(1461 * years, 4) - Quotient(3 * Quotient(years + 100, 100), 4)
MonthPart(months) == Quotient(367 * months, 12)

LEMMA YearPartIs ==
    ASSUME NEW y \in Nat
    PROVE  YearPart(y) = 365 * y + y \div 4 - y \div 100 + y \div 400
<1>1. y \div 4 \in Int /\ y \div 100 \in Int /\ y \div 400 \in Int
  BY OneMoreFour, OneMoreHundred, OneMoreFourHundred
<1>2. (y + 100) \div 100 \in Nat
  OBVIOUS
<1>3. Quotient(1461 * y, 4) = (1461 * y) \div 4 /\ Quotient(y + 100, 100) = (y + 100) \div 100
  BY DEF Quotient
<1>4. Quotient(3 * ((y + 100) \div 100), 4) = (3 * ((y + 100) \div 100)) \div 4
  <2>1. PICK q \in Nat : q = (y + 100) \div 100
    BY <1>2
  <2>2. Quotient(3 * q, 4) = (3 * q) \div 4
    BY DEF Quotient
  <2> QED BY ONLY <2>1, <2>2
<1>5. YearPart(y) = (1461 * y) \div 4 - (3 * ((y + 100) \div 100)) \div 4
  BY <1>3, <1>4 DEF YearPart
<1> QED BY ONLY <1>1, <1>5, YearsOfFormula, y \in Nat

\* Leap years repeat every 400 years.
LEMMA Shifted ==
    ASSUME NEW y \in Nat
    PROVE  /\ YearPart(y + 4800) = YearPart(y) + 365 * 4800 + 1164
           /\ YearPart(y + 4799) = 365 * y + Leaps(y) + 365 * 4799 + 1163
<1>1. /\ (y + 4800) \div 4 = y \div 4 + 1200
      /\ (y + 4800) \div 100 = y \div 100 + 48
      /\ (y + 4800) \div 400 = y \div 400 + 12
  OBVIOUS
<1>2. /\ (y + 4799) \div 4 = (y + 3) \div 4 + 1199
      /\ (y + 4799) \div 100 = (y + 99) \div 100 + 47
      /\ (y + 4799) \div 400 = (y + 399) \div 400 + 11
  OBVIOUS
<1>3. /\ y \div 4 \in Int /\ y \div 100 \in Int /\ y \div 400 \in Int
      /\ (y + 3) \div 4 \in Int /\ (y + 99) \div 100 \in Int /\ (y + 399) \div 400 \in Int
  BY OneMoreFour, OneMoreHundred, OneMoreFourHundred
<1>4. YearPart(y) = 365 * y + y \div 4 - y \div 100 + y \div 400
  BY YearPartIs
<1>5. YearPart(y + 4800) =
          365 * (y + 4800) + (y + 4800) \div 4 - (y + 4800) \div 100 + (y + 4800) \div 400
  BY YearPartIs, y + 4800 \in Nat
<1>6. YearPart(y + 4799) =
          365 * (y + 4799) + (y + 4799) \div 4 - (y + 4799) \div 100 + (y + 4799) \div 400
  BY YearPartIs, y + 4799 \in Nat
<1>7. YearPart(y + 4800) = YearPart(y) + 365 * 4800 + 1164
  BY ONLY <1>1, <1>3, <1>4, <1>5, y \in Nat
<1>8. YearPart(y + 4799) = 365 * y + Leaps(y) + 365 * 4799 + 1163
  BY ONLY <1>2, <1>3, <1>6, y \in Nat DEF Leaps
<1> QED BY <1>7, <1>8

LEMMA MonthParts ==
    /\ MonthPart(11) = 336 /\ MonthPart(12) = 367 /\ MonthPart(1) = 30 /\ MonthPart(2) = 61
    /\ MonthPart(3) = 91 /\ MonthPart(4) = 122 /\ MonthPart(5) = 152 /\ MonthPart(6) = 183
    /\ MonthPart(7) = 214 /\ MonthPart(8) = 244 /\ MonthPart(9) = 275 /\ MonthPart(10) = 305
  BY DEF MonthPart, Quotient

LEMMA Carry ==
    ASSUME NEW m \in 1 .. 12
    PROVE  Quotient(m - 14, 12) = IF m <= 2 THEN -1 ELSE 0
  BY DEF Quotient

LEMMA JdnOfFields ==
    ASSUME NEW year \in Nat, NEW month \in 1 .. 12, NEW day \in Int
    PROVE  GetJdn(day, month, year) =
               365 * year + LeapYearsBefore(year) + DaysBefore(year)[month] + day + 1721059
<1>1. PICK leap \in 0 .. 1 : leap = Leap(year)
  BY LeapsTyped
<1>2. Leaps(year) \in Int
  BY LeapsTyped
<1>3. LeapYearsBefore(year) = Leaps(year) /\ DaysBefore(year) = MonthTable(leap)
  BY <1>1, LeapYearsCounted, MonthsAdded
<1>4. YearPart(year) = 365 * year + Leaps(year) + leap - 1
  <2>1. PICK n \in Int : n = year \div 4 - year \div 100 + year \div 400
    BY OneMoreFour, OneMoreHundred, OneMoreFourHundred
  <2>2. n + 1 = Leaps(year) + leap
    BY ONLY <1>1, <2>1, LeapsOfThisYear, year \in Nat
  <2>3. YearPart(year) = 365 * year + year \div 4 - year \div 100 + year \div 400
    BY YearPartIs
  <2>4. YearPart(year) = 365 * year + n
    BY ONLY <2>1, <2>3, OneMoreFour, OneMoreHundred, OneMoreFourHundred, year \in Nat
  <2> QED BY ONLY <1>2, <2>2, <2>4, year \in Nat, n \in Int, leap \in 0 .. 1
<1>5. YearPart(year) \in Int
  BY ONLY <1>2, <1>4, year \in Nat, leap \in 0 .. 1
<1>6. ASSUME NEW years \in Int, NEW months \in Int, NEW carry \in {-1, 0},
             carry = Quotient(month - 14, 12), years = year + 4800 + carry,
             months = month - 2 - 12 * carry
      PROVE  GetJdn(day, month, year) = YearPart(years) + MonthPart(months) + day - 32075
  <2>1. GetJdn(day, month, year) =
            Quotient(1461 * (year + 4800 + carry), 4) + Quotient(367 * (month - 2 - 12 * carry), 12)
            - Quotient(3 * Quotient(year + 4900 + carry, 100), 4) + day - 32075
    BY <1>6 DEF GetJdn
  <2>2. year + 4900 + carry = years + 100
    BY <1>6
  <2>3. GetJdn(day, month, year) =
            Quotient(1461 * years, 4) + Quotient(367 * months, 12)
            - Quotient(3 * Quotient(years + 100, 100), 4) + day - 32075
    BY ONLY <1>6, <2>1, <2>2
  <2>4. ASSUME NEW a \in Int, NEW b \in Nat \ {0} PROVE Quotient(a, b) \in Int
    BY DEF Quotient
  <2>5. PICK f \in Int : f = Quotient(1461 * years, 4)
    BY <2>4
  <2>6. PICK g \in Int : g = Quotient(367 * months, 12)
    BY <2>4
  <2>7. PICK h \in Int : h = Quotient(3 * Quotient(years + 100, 100), 4)
    <3>1. Quotient(years + 100, 100) \in Int
      BY <2>4
    <3> QED BY <2>4, <3>1
  <2>8. f + g - h + day - 32075 = (f - h) + g + day - 32075
    OBVIOUS
  <2> QED BY ONLY <2>3, <2>5, <2>6, <2>7, <2>8 DEF YearPart, MonthPart
<1>7. CASE month <= 2
  <2>1. GetJdn(day, month, year) = YearPart(year + 4799) + MonthPart(month + 10) + day - 32075
    <3>1. Quotient(month - 14, 12) = -1
      BY <1>7, Carry
    <3>2. year + 4799 = year + 4800 + (-1) /\ month + 10 = month - 2 - 12 * (-1)
      OBVIOUS
    <3> QED BY ONLY <1>6, <3>1, <3>2, year \in Nat, month \in 1 .. 12
  <2>2. PICK t \in Nat : t = MonthTable(leap)[month]
    BY MonthTableTyped
  <2>3. t = MonthPart(month + 10) - 336 /\ MonthPart(month + 10) = t + 336
    BY <1>7, <2>2, MonthParts DEF MonthTable
  <2>4. YearPart(year + 4799) = 365 * year + Leaps(year) + 365 * 4799 + 1163
    BY Shifted
  <2> QED BY ONLY <1>2, <1>3, <2>1, <2>2, <2>3, <2>4, year \in Nat, day \in Int, t \in Nat
<1>8. CASE month > 2
  <2>1. GetJdn(day, month, year) = YearPart(year + 4800) + MonthPart(month - 2) + day - 32075
    <3>1. Quotient(month - 14, 12) = 0
      BY <1>8, Carry
    <3>2. year + 4800 = year + 4800 + 0 /\ month - 2 = month - 2 - 12 * 0
      OBVIOUS
    <3> QED BY ONLY <1>6, <3>1, <3>2, year \in Nat, month \in 1 .. 12
  <2>2. PICK t \in Nat : t = MonthTable(leap)[month]
    BY MonthTableTyped
  <2>3. MonthPart(month - 2) = t - 29 - leap
    BY <1>8, <2>2, MonthParts DEF MonthTable
  <2>4. YearPart(year + 4800) = YearPart(year) + 365 * 4800 + 1164
    BY Shifted
  <2> QED BY ONLY <1>2, <1>3, <1>4, <2>1, <2>2, <2>3, <2>4, year \in Nat, day \in Int, t \in Nat, leap \in 0 .. 1
<1> QED BY <1>7, <1>8

\* The Julian day number of every date, of leap years and others, is its day in the
\* calendar, counted from another day.
THEOREM JdnIsCalendar ==
    ASSUME NEW date, date.year \in Nat, date.month \in 1 .. 12, date.day \in Int
    PROVE  GetJdn(date.day, date.month, date.year) = DaysFromYearZero(date) + 1721059
  BY JdnOfFields DEF DaysFromYearZero

LEMMA DaysTyped ==
    ASSUME NEW date, date.year \in Nat, date.month \in 1 .. 12, date.day \in Int
    PROVE  DaysFromYearZero(date) \in Int
<1>1. LeapYearsBefore(date.year) \in Int
  BY LeapYearsCounted, LeapsTyped
<1>2. DaysBefore(date.year)[date.month] \in Nat
  BY MonthsAdded, LeapsTyped, MonthTableTyped
<1> QED BY <1>1, <1>2 DEF DaysFromYearZero
-----------------------------------------------------------------------------
(* Types.                                                                  *)

LEMMA AddressTyped ==
    ASSUME NEW a \in Address
    PROVE  a.top \in {0, 256, 511} /\ a.slot \in 0 .. 511 /\ a.off \in {0, 1} /\ a = At(a.top, a.slot, a.off)
  BY DEF Address, At

LEMMA AtTyped ==
    ASSUME NEW top \in {0, 256, 511}, NEW slot \in 0 .. 511, NEW off \in {0, 1}
    PROVE  /\ At(top, slot, off) \in Address
           /\ At(top, slot, off).top = top /\ At(top, slot, off).slot = slot /\ At(top, slot, off).off = off
  BY DEF Address, At

LEMMA NullTyped ==
    Null \in Address /\ Null.top = 0 /\ Null.slot \in GBs
<1>1. Null = [top |-> 0, slot |-> 0, off |-> 0]
  BY DEF Null, At
<1> QED BY ONLY <1>1 DEF Address, GBs

LEMMA KernelTyped ==
    ASSUME NEW k \in Kernels
    PROVE  /\ k.version \in {1, 2} /\ k.section \in BOOLEAN /\ k.graphics \in BOOLEAN /\ k.pml5 \in BOOLEAN
           /\ k.vaddr \in Address /\ k.paddr \in Address /\ EntryOf(k) \in Address /\ k.stack \in Address
           /\ k.width \in Nat /\ k.height \in Nat /\ k.modules \in Nat
           /\ k.tags \in Seq(HeaderTags)
           /\ Consistent(k)
<1>1. k \in KernelForm /\ Consistent(k)
  BY StivaleAssumption
<1>2. k.entry \in Address /\ k.entryPoint \in Address
  BY ONLY <1>1 DEF KernelForm
<1>3. EntryOf(k) \in Address
  BY <1>2 DEF EntryOf
<1> QED BY ONLY <1>1, <1>3 DEF KernelForm

LEMMA TagTyped ==
    ASSUME NEW k \in Kernels, NEW i \in 1 .. Len(k.tags)
    PROVE  /\ k.tags[i].ident \in Idents
           /\ k.tags[i].width \in Nat /\ k.tags[i].height \in Nat
<1>1. k.tags \in Seq(HeaderTags)
  BY KernelTyped
<1>2. k.tags[i] \in HeaderTags
  BY <1>1
<1> QED BY ONLY <1>2 DEF HeaderTags

LEMMA MachineTyped ==
    ASSUME NEW m \in Machines
    PROVE  /\ m.modes \in SizedModeTables /\ m.pml5 \in BOOLEAN
           /\ m.acpi20 \in BOOLEAN /\ m.acpi10 \in BOOLEAN
<1>1. m \in MachineForm
  BY StivaleAssumption
<1> QED BY ONLY <1>1 DEF MachineForm

LEMMA ConfigTyped ==
    ASSUME NEW c \in Configs
    PROVE  c.gfxMode \in Int /\ c.overrideGfx \in BOOLEAN
<1>1. c \in [gfxMode : Int, overrideGfx : BOOLEAN]
  BY StivaleAssumption
<1> QED BY ONLY <1>1

LEMMA EpochTyped ==
    ASSUME NEW date \in Dates
    PROVE  GetUnixEpoch(date) \in Int \X Nat
<1>1. date.day \in Int /\ date.month \in Int /\ date.year \in Nat /\ date.second \in Nat
  <2>1. date \in [year : Nat, month : 1 .. 12, day : 1 .. 31, second : 0 .. DaySeconds - 1]
    BY StivaleAssumption
  <2> QED BY ONLY <2>1
<1>2. ASSUME NEW a \in Int, NEW b \in Nat \ {0} PROVE Quotient(a, b) \in Int
  BY DEF Quotient
<1>3. ASSUME NEW days \in Int, NEW months \in Int, NEW years \in Int
      PROVE  GetJdn(days, months, years) \in Int
  <2> DEFINE carry == Quotient(months - 14, 12)
  <2>1. carry \in Int
    BY <1>2
  <2> HIDE DEF carry
  <2>2. Quotient(1461 * (years + 4800 + carry), 4) \in Int /\ Quotient(367 * (months - 2 - 12 * carry), 12) \in Int
    BY <1>2, <2>1
  <2>3. Quotient(years + 4900 + carry, 100) \in Int
    BY <1>2, <2>1
  <2>4. Quotient(3 * Quotient(years + 4900 + carry, 100), 4) \in Int
    BY <1>2, <2>3
  <2>5. GetJdn(days, months, years) =
            Quotient(1461 * (years + 4800 + carry), 4) + Quotient(367 * (months - 2 - 12 * carry), 12)
            - Quotient(3 * Quotient(years + 4900 + carry, 100), 4) + days - 32075
    BY DEF GetJdn, carry
  <2> QED BY ONLY <2>2, <2>4, <2>5, days \in Int
<1>4. date.year % 256 \in Int
  BY <1>1
<1>5. GetJdn(date.day, date.month, date.year % 256) \in Int
  BY ONLY <1>1, <1>3, <1>4, Zenon
<1>6. GetJdn(1, 1, 1970) \in Int
  BY <1>3
<1> QED BY <1>1, <1>5, <1>6 DEF GetUnixEpoch

\* A list stays one when a node is linked.
ListTyped(chain) ==
    DOMAIN chain \subseteq Nodes /\ \A node \in DOMAIN chain : chain[node] \in DOMAIN chain \cup {End}

LEMMA BehindTyped ==
    ASSUME NEW chain, ListTyped(chain), NEW node, NEW new \in Nodes
    PROVE  ListTyped(Behind(node, chain, new)) /\ new \in DOMAIN Behind(node, chain, new)
<1>1. DOMAIN Behind(node, chain, new) = DOMAIN chain \cup {new}
  BY DEF Behind
<1>2. ASSUME NEW n \in DOMAIN chain \cup {new}
      PROVE  Behind(node, chain, new)[n] = new \/ Behind(node, chain, new)[n] = End
             \/ (n \in DOMAIN chain /\ Behind(node, chain, new)[n] = chain[n])
  BY DEF Behind
<1> QED BY <1>1, <1>2 DEF ListTyped

LEMMA TagsAreNodes ==
    /\ \A kind \in NodeKinds : Tag(kind) \in Nodes
    /\ \A n \in Nat : Node("module", n) \in Nodes
  BY DEF Tag, Node, Nodes, NodeKinds

LEMMA OnlyNodeTyped ==
    ASSUME NEW node \in Nodes
    PROVE  ListTyped(OnlyNode(node)) /\ DOMAIN OnlyNode(node) = {node}
  BY DEF OnlyNode, ListTyped
LEMMA TypeInit ==
    ASSUME Init PROVE TypeOK
<1>1. kernel \in Kernels /\ config \in Configs
  BY StivaleAssumption DEF Init
<1>2. pml4 \in [{0, 256, 511} -> [DOMAIN FirmwareTable -> GBs \cup {NoMapping}]]
  BY DEF Init, FirmwareTable, NoTable
<1>3. ListTyped(links) /\ tail \in DOMAIN links
  BY OnlyNodeTyped, TagsAreNodes DEF Init, NodeKinds
<1>4. loadedAt \in Address /\ loadedAt.top = 0 /\ loadedAt.slot \in GBs
  <2>1. loadedAt = Null
    BY DEF Init
  <2> QED BY ONLY <2>1, NullTyped
<1>5. wishes \in [pml5 : BOOLEAN, width : Nat, height : Nat]
  BY DEF Init, NoWishes
<1>6. told \in [mode : Int, rsdp : {"none", "1.0", "2.0"}, epoch : Int \X Nat]
  BY DEF Init, NothingTold, NoMode
<1>7. cpu \in [ip : Address, sp : Address]
  BY NullTyped DEF Init, NoCpu
<1>8. Queryable(machine.modes, gopMode)
  BY DEF Init, Supported
<1>9. attempts \in 0 .. MaxAttempts
  BY StivaleAssumption DEF Init
<1>10. /\ pc \in PCs /\ machine \in Machines /\ higherHalf \in BOOLEAN
       /\ next \in Nat \ {0} /\ clock \in Dates \cup {NoDate}
  <2>1. pc = "menu" /\ machine \in Machines /\ higherHalf = FALSE /\ next = 1 /\ clock = NoDate
    BY DEF Init
  <2>2. higherHalf \in BOOLEAN
    BY ONLY <2>1, Zenon
  <2>3. pc \in PCs
    BY ONLY <2>1 DEF PCs
  <2> QED BY ONLY <2>1, <2>2, <2>3
<1> QED BY ONLY <1>1, <1>2, <1>3, <1>4, <1>5, <1>6, <1>7, <1>8, <1>9, <1>10, Zenon DEF TypeOK, ListTyped
LEMMA TypeStep ==
    ASSUME TypeOK, [Next]_vars PROVE TypeOK'
<1> USE DEF display, list, image
<1>1. CASE LoadKernel
  <2>1. kernel' \in Kernels /\ config' \in Configs /\ attempts' \in 0 .. MaxAttempts
    BY <1>1, StivaleAssumption DEF TypeOK, LoadKernel
  <2>2. ListTyped(links)' /\ tail' \in DOMAIN links'
    BY <1>1, OnlyNodeTyped, TagsAreNodes DEF LoadKernel, NodeKinds
  <2>3. loadedAt' \in Address /\ loadedAt'.top = 0 /\ loadedAt'.slot \in GBs
    <3>1. loadedAt' = Null
      BY <1>1 DEF LoadKernel
    <3> QED BY ONLY <3>1, NullTyped
  <2>4. wishes' \in [pml5 : BOOLEAN, width : Nat, height : Nat]
    BY <1>1 DEF LoadKernel, NoWishes
  <2>5. told' \in [mode : Int, rsdp : {"none", "1.0", "2.0"}, epoch : Int \X Nat]
    BY <1>1 DEF LoadKernel, NothingTold, NoMode
  <2>6. UNCHANGED <<machine, gopMode, pml4, cpu>> /\ pc' \in PCs /\ higherHalf' \in BOOLEAN
        /\ next' \in Nat \ {0} /\ clock' \in Dates \cup {NoDate}
    <3>1. /\ UNCHANGED <<machine, gopMode, pml4, cpu>> /\ pc' = "Header" /\ higherHalf' = FALSE
          /\ next' = 1 /\ clock' = NoDate
      BY <1>1 DEF LoadKernel
    <3>2. higherHalf' \in BOOLEAN
      BY ONLY <3>1, Zenon
    <3>3. pc' \in PCs
      BY ONLY <3>1 DEF PCs, Steps
    <3> QED BY ONLY <3>1, <3>2, <3>3
  <2> QED BY ONLY TypeOK, <2>1, <2>2, <2>3, <2>4, <2>5, <2>6, Zenon DEF TypeOK, ListTyped
<1>2. CASE Fail
  BY <1>2 DEF TypeOK, Fail, Return, PCs
<1>3. CASE LoadHeader
  <2>1. pc' \in PCs /\ higherHalf' \in BOOLEAN
    BY <1>3 DEF TypeOK, LoadHeader, Return, PCs, Steps, AboveBase
  <2> QED BY <1>3, <2>1 DEF TypeOK, LoadHeader
<1>4. CASE LoadElf
  <2>1. pc' \in PCs
    BY <1>4 DEF TypeOK, LoadElf, Return, PCs, Steps
  <2>2. loadedAt' \in Address /\ loadedAt'.top = 0 /\ loadedAt'.slot \in GBs
    <3>1. CASE HasMemory(LoadBase)
      <4>1. loadedAt' = LoadBase
        BY <1>4, <3>1 DEF LoadElf
      <4>2. LoadBase.top = 0 /\ LoadBase.slot \in GBs
        BY <3>1 DEF HasMemory
      <4>3. CASE higherHalf
        <5>1. LoadBase = At(0, kernel.vaddr.slot - 510, kernel.vaddr.off)
          BY <4>3 DEF LoadBase, MinusBase
        <5>2. kernel.vaddr.off \in {0, 1}
          <6>1. kernel.vaddr \in Address
            BY KernelTyped DEF TypeOK
          <6> QED BY <6>1, AddressTyped
        <5>3. LoadBase.slot = kernel.vaddr.slot - 510 /\ GBs \subseteq 0 .. 511
          BY ONLY <5>1 DEF At, GBs
        <5>4. LoadBase \in Address
          <6>1. LoadBase.slot \in 0 .. 511
            BY ONLY <4>2, <5>3, Zenon
          <6>2. kernel.vaddr.slot - 510 \in 0 .. 511
            BY ONLY <5>3, <6>1, Zenon
          <6> QED BY ONLY <5>1, <5>2, <6>2 DEF Address, At
        <5> QED BY ONLY <4>1, <4>2, <5>4
      <4>4. CASE ~higherHalf
        <5>1. LoadBase = kernel.paddr /\ kernel.paddr \in Address
          BY <4>4, KernelTyped DEF LoadBase, TypeOK
        <5> QED BY ONLY <4>1, <4>2, <5>1
      <4> QED BY <4>3, <4>4
    <3>2. CASE ~HasMemory(LoadBase)
      BY <1>4, <3>2 DEF TypeOK, LoadElf
    <3> QED BY <3>1, <3>2
  <2>3. UNCHANGED <<attempts, machine, display, pml4, kernel, config, higherHalf, next, list, cpu>>
    BY <1>4 DEF LoadElf
  <2> QED BY ONLY TypeOK, <2>1, <2>2, <2>3 DEF TypeOK
<1>5. CASE HeaderTag
  <2>1. wishes' \in [pml5 : BOOLEAN, width : Nat, height : Nat]
    <3>1. next \in 1 .. Len(kernel.tags) /\ kernel \in Kernels
      <4>1. kernel.tags \in Seq(HeaderTags) /\ next \in Nat \ {0}
        BY KernelTyped DEF TypeOK
      <4> QED BY <1>5, <4>1 DEF TypeOK, HeaderTag
    <3>2. kernel.tags[next].width \in Nat /\ kernel.tags[next].height \in Nat
      BY <3>1, TagTyped
    <3>3. \/ wishes' = [wishes EXCEPT !.pml5 = TRUE]
          \/ wishes' = [wishes EXCEPT !.width = kernel.tags[next].width, !.height = kernel.tags[next].height]
          \/ wishes' = wishes
      BY ONLY <1>5, Zenon DEF HeaderTag, FramebufferReq
    <3>4. wishes \in [pml5 : BOOLEAN, width : Nat, height : Nat]
      BY DEF TypeOK
    <3> QED BY ONLY <3>2, <3>3, <3>4
  <2>2. next' \in Nat \ {0}
    BY <1>5 DEF TypeOK, HeaderTag
  <2>3. UNCHANGED <<pc, attempts, machine, gopMode, pml4, image, list, cpu>>
    BY <1>5 DEF HeaderTag
  <2> QED BY ONLY TypeOK, <2>1, <2>2, <2>3 DEF TypeOK
<1>6. CASE HeaderTagsEnd
  <2>1. wishes' \in [pml5 : BOOLEAN, width : Nat, height : Nat]
    <3>1. wishes \in [pml5 : BOOLEAN, width : Nat, height : Nat] /\ machine.pml5 \in BOOLEAN
      BY MachineTyped DEF TypeOK
    <3>2. wishes' = [wishes EXCEPT !.pml5 = @ /\ machine.pml5]
      BY <1>6 DEF HeaderTagsEnd, Pml5
    <3> QED BY ONLY <3>1, <3>2
  <2>2. /\ next' \in Nat \ {0} /\ pc' \in PCs
        /\ UNCHANGED <<attempts, machine, gopMode, pml4, image, list, cpu>>
    BY <1>6 DEF HeaderTagsEnd, PCs, Steps
  <2> QED BY ONLY TypeOK, <2>1, <2>2 DEF TypeOK
<1>7. CASE ChooseMode
  <2>1. wishes' \in [pml5 : BOOLEAN, width : Nat, height : Nat]
    <3>1. /\ wishes \in [pml5 : BOOLEAN, width : Nat, height : Nat] /\ machine.pml5 \in BOOLEAN
          /\ kernel.pml5 \in BOOLEAN /\ kernel.width \in Nat /\ kernel.height \in Nat
      BY MachineTyped, KernelTyped DEF TypeOK
    <3>2. \/ wishes' = wishes
          \/ wishes' = [pml5 |-> kernel.pml5 /\ machine.pml5, width |-> kernel.width, height |-> kernel.height]
      BY ONLY <1>7, Zenon DEF ChooseMode, Pml5, display
    <3> QED BY ONLY <3>1, <3>2
  <2>2. pc' \in PCs /\ Queryable(machine.modes, gopMode)'
    BY <1>7 DEF TypeOK, ChooseMode, Return, PCs, Steps
  <2>3. UNCHANGED <<attempts, machine, pml4, image, next, list, cpu>>
    BY <1>7 DEF ChooseMode
  <2> QED BY ONLY TypeOK, <2>1, <2>2, <2>3 DEF TypeOK
<1>8. CASE BuildStruct
  <2>1. told' \in [mode : Int, rsdp : {"none", "1.0", "2.0"}, epoch : Int \X Nat]
    <3>1. gopMode \in Int /\ Rsdp \in {"none", "1.0", "2.0"}
      <4>1. machine.modes \in SizedModeTables
        BY MachineTyped DEF TypeOK
      <4> QED BY <4>1 DEF TypeOK, Queryable, Rsdp, SizedModeTables
    <3>2. told \in [mode : Int, rsdp : {"none", "1.0", "2.0"}, epoch : Int \X Nat]
      BY DEF TypeOK
    <3>3. told' = [told EXCEPT !.mode = gopMode, !.rsdp = Rsdp]
      BY <1>8 DEF BuildStruct
    <3> QED BY ONLY <3>1, <3>2, <3>3
  <2>2. ListTyped(links)' /\ tail' \in DOMAIN links'
    <3>1. ListTyped(links) /\ tail \in DOMAIN links
      BY DEF TypeOK, ListTyped
    <3>2. CASE kernel.version = 1
      BY <1>8, <3>1, <3>2 DEF BuildStruct
    <3>3. CASE kernel.version # 1
      <4> DEFINE first == Behind(Tag("cmdline"), Behind(tail, links, Tag("cmdline")), Tag("framebuffer"))
                 rsdp == IF Rsdp = "none" THEN first ELSE Behind(Tag("framebuffer"), first, Tag("rsdp"))
      <4>1. ListTyped(Behind(tail, links, Tag("cmdline")))
        BY <3>1, BehindTyped, TagsAreNodes DEF NodeKinds
      <4>2. ListTyped(first)
        BY <4>1, BehindTyped, TagsAreNodes DEF NodeKinds
      <4>3. ListTyped(rsdp)
        <5> HIDE DEF first
        <5> QED BY <4>2, BehindTyped, TagsAreNodes DEF NodeKinds
      <4>4. links' = Behind(BehindRsdp, rsdp, Tag("firmware")) /\ tail' = Tag("firmware")
        BY <1>8, <3>3 DEF BuildStruct
      <4> HIDE DEF rsdp
      <4> QED BY <4>3, <4>4, BehindTyped, TagsAreNodes DEF NodeKinds
    <3> QED BY <3>2, <3>3
  <2>3. pc' \in PCs /\ UNCHANGED <<attempts, machine, display, pml4, image, next, clock, cpu>>
    BY <1>8 DEF BuildStruct, PCs, Steps
  <2> QED BY ONLY TypeOK, <2>1, <2>2, <2>3 DEF TypeOK, ListTyped
<1>9. CASE SetEpoch
  <2>1. told' \in [mode : Int, rsdp : {"none", "1.0", "2.0"}, epoch : Int \X Nat]
    <3>1. GetUnixEpoch(clock') \in Int \X Nat
      BY <1>9, EpochTyped DEF SetEpoch
    <3>2. told \in [mode : Int, rsdp : {"none", "1.0", "2.0"}, epoch : Int \X Nat]
      BY DEF TypeOK
    <3>3. told' = [told EXCEPT !.epoch = GetUnixEpoch(clock')]
      BY <1>9 DEF SetEpoch
    <3> QED BY ONLY <3>1, <3>2, <3>3
  <2>2. ListTyped(links)' /\ tail' \in DOMAIN links'
    <3>1. ListTyped(links) /\ tail \in DOMAIN links
      BY DEF TypeOK, ListTyped
    <3>2. \/ links' = links /\ tail' = tail
          \/ links' = Behind(tail, links, Tag("epoch")) /\ tail' = Tag("epoch")
      BY <1>9 DEF SetEpoch
    <3> QED BY <3>1, <3>2, BehindTyped, TagsAreNodes DEF NodeKinds
  <2>3. /\ pc' \in PCs /\ clock' \in Dates
        /\ UNCHANGED <<attempts, machine, display, pml4, image, next, cpu>>
    BY <1>9 DEF SetEpoch, PCs, Steps
  <2> QED BY ONLY TypeOK, <2>1, <2>2, <2>3 DEF TypeOK, ListTyped
<1>10. CASE LoadModule
  <2>1. ListTyped(links)' /\ tail' \in DOMAIN links'
    <3>1. ListTyped(links) /\ tail \in DOMAIN links /\ next \in Nat
      BY DEF TypeOK, ListTyped
    <3>2. \/ links' = links /\ tail' = tail
          \/ links' = Behind(tail, links, Node("module", next)) /\ tail' = Node("module", next)
          \/ links' = Behind(tail, links, Tag("modules")) /\ tail' = Tag("modules")
      BY <1>10 DEF LoadModule
    <3> QED BY <3>1, <3>2, BehindTyped, TagsAreNodes DEF NodeKinds
  <2>2. next' \in Nat \ {0} /\ UNCHANGED <<pc, attempts, machine, display, pml4, image, told, clock, cpu>>
    BY <1>10 DEF TypeOK, LoadModule
  <2> QED BY ONLY TypeOK, <2>1, <2>2 DEF TypeOK, ListTyped
<1>11. CASE ModulesEnd
  BY <1>11 DEF TypeOK, ModulesEnd, PCs, Steps
<1>12. CASE MapHigherHalf
  <2>1. pml4' \in [{0, 256, 511} -> [DOMAIN FirmwareTable -> GBs \cup {NoMapping}]]
    <3> DEFINE Tables == [DOMAIN FirmwareTable -> GBs \cup {NoMapping}]
    <3>1. pml4 \in [{0, 256, 511} -> Tables]
      BY DEF TypeOK
    <3>2. HigherHalf(pml4[0]) \in Tables
      <4>1. DOMAIN FirmwareTable = {510, 511} \cup GBs /\ 0 \in GBs /\ 1 \in GBs
        BY DEF FirmwareTable, GBs
      <4>2. NoTable \in Tables
        BY DEF NoTable
      <4>3. pml4[0] \in Tables
        BY <3>1
      <4>4. pml4[0][0] \in GBs \cup {NoMapping} /\ pml4[0][1] \in GBs \cup {NoMapping}
        BY <4>1, <4>3
      <4> QED BY ONLY <4>2, <4>4 DEF HigherHalf
    <3>3. pml4' = [pml4 EXCEPT ![256] = pml4[0], ![511] = HigherHalf(pml4[0])]
      BY <1>12 DEF MapHigherHalf
    <3> HIDE DEF Tables
    <3>4. pml4[0] \in Tables
      BY <3>1
    <3>5. pml4' \in [{0, 256, 511} -> Tables]
      BY ONLY <3>1, <3>2, <3>3, <3>4
    <3> QED BY <3>5 DEF Tables
  <2>2. pc' \in PCs /\ UNCHANGED <<attempts, machine, display, image, next, list, cpu>>
    BY <1>12 DEF MapHigherHalf, PCs, Steps
  <2> QED BY ONLY TypeOK, <2>1, <2>2 DEF TypeOK
<1>13. CASE HandOff
  <2>1. ListTyped(links)' /\ tail' \in DOMAIN links'
    <3>1. ListTyped(links) /\ tail \in DOMAIN links
      BY DEF TypeOK, ListTyped
    <3>2. \/ links' = links /\ tail' = tail
          \/ links' = Behind(tail, links, Tag("memmap")) /\ tail' = Tag("memmap")
      BY <1>13 DEF HandOff
    <3> QED BY <3>1, <3>2, BehindTyped, TagsAreNodes DEF NodeKinds
  <2>2. pc' \in PCs /\ UNCHANGED <<attempts, machine, display, pml4, image, next, told, clock, cpu>>
    BY <1>13 DEF HandOff, PCs, Steps
  <2> QED BY ONLY TypeOK, <2>1, <2>2 DEF TypeOK, ListTyped
<1>14. CASE Jump
  <2>1. cpu' \in [ip : Address, sp : Address]
    <3>1. EntryOf(kernel) \in Address /\ kernel.stack \in Address
      BY KernelTyped DEF TypeOK
    <3>2. cpu' = [ip |-> EntryOf(kernel), sp |-> kernel.stack]
      BY <1>14 DEF Jump
    <3> QED BY ONLY <3>1, <3>2
  <2>2. pc' \in PCs /\ UNCHANGED <<attempts, machine, display, pml4, image, next, list>>
    BY <1>14 DEF Jump, PCs
  <2> QED BY ONLY TypeOK, <2>1, <2>2 DEF TypeOK
<1>15. CASE Translate5Level
  BY <1>15 DEF Translate5Level, TypeOK, PCs
<1>16. CASE UNCHANGED vars
  BY <1>16 DEF TypeOK, vars
<1> QED BY <1>1, <1>2, <1>3, <1>4, <1>5, <1>6, <1>7, <1>8, <1>9, <1>10, <1>11, <1>12, <1>13, <1>14, <1>15, <1>16 DEF Next
-----------------------------------------------------------------------------
(* The steps of the inductive invariant, part by part.                     *)

LEMMA CountedStep ==
    ASSUME TypeOK, Counted, [Next]_vars PROVE Counted'
<1> USE DEF display, list, image, Return
<1>1. /\ kernel.version \in {1, 2} /\ Len(kernel.tags) \in Nat /\ kernel.modules \in Nat
      /\ next \in Nat \ {0}
  BY KernelTyped DEF TypeOK
<1>2. CASE LoadKernel
  BY <1>1, <1>2 DEF Counted, LoadKernel
<1>3. CASE Fail
  BY <1>1, <1>3 DEF Counted, Fail
<1>4. CASE LoadHeader
  BY <1>1, <1>4 DEF Counted, LoadHeader
<1>5. CASE LoadElf
  BY <1>1, <1>5 DEF Counted, LoadElf
<1>6. CASE HeaderTag
  BY <1>1, <1>6 DEF Counted, HeaderTag
<1>7. CASE HeaderTagsEnd
  BY <1>1, <1>7 DEF Counted, HeaderTagsEnd
<1>8. CASE ChooseMode
  BY <1>1, <1>8 DEF Counted, ChooseMode
<1>9. CASE BuildStruct
  BY <1>1, <1>9 DEF Counted, BuildStruct
<1>10. CASE SetEpoch
  BY <1>1, <1>10 DEF Counted, SetEpoch
<1>11. CASE LoadModule
  BY <1>1, <1>11 DEF Counted, LoadModule
<1>12. CASE ModulesEnd
  BY <1>1, <1>12 DEF Counted, ModulesEnd
<1>13. CASE MapHigherHalf
  BY <1>1, <1>13 DEF Counted, MapHigherHalf
<1>14. CASE HandOff
  BY <1>1, <1>14 DEF Counted, HandOff
<1>15. CASE Jump
  BY <1>1, <1>15 DEF Counted, Jump
<1>16. CASE Translate5Level
  BY <1>1, <1>16 DEF Counted, Translate5Level
<1>17. CASE UNCHANGED vars
  BY <1>17 DEF Counted, vars
<1> QED BY <1>2, <1>3, <1>4, <1>5, <1>6, <1>7, <1>8, <1>9, <1>10, <1>11, <1>12, <1>13, <1>14, <1>15, <1>16, <1>17 DEF Next

LEMMA HeaderReadStep ==
    ASSUME TypeOK, HeaderRead, [Next]_vars PROVE HeaderRead'
<1> USE DEF display, list, image, Return, Attempting, Steps
<1>1. CASE LoadKernel
  BY <1>1 DEF HeaderRead, LoadKernel
<1>2. CASE Fail
  BY <1>2 DEF HeaderRead, Fail
<1>3. CASE LoadHeader
  BY <1>3 DEF HeaderRead, LoadHeader
<1>4. CASE LoadElf
  BY <1>4 DEF HeaderRead, LoadElf
<1>5. CASE HeaderTag
  BY <1>5 DEF HeaderRead, HeaderTag
<1>6. CASE HeaderTagsEnd
  BY <1>6 DEF HeaderRead, HeaderTagsEnd
<1>7. CASE ChooseMode
  BY <1>7 DEF HeaderRead, ChooseMode
<1>8. CASE BuildStruct
  BY <1>8 DEF HeaderRead, BuildStruct
<1>9. CASE SetEpoch
  BY <1>9 DEF HeaderRead, SetEpoch
<1>10. CASE LoadModule
  BY <1>10 DEF HeaderRead, LoadModule
<1>11. CASE ModulesEnd
  BY <1>11 DEF HeaderRead, ModulesEnd
<1>12. CASE MapHigherHalf
  BY <1>12 DEF HeaderRead, MapHigherHalf
<1>13. CASE HandOff
  BY <1>13 DEF HeaderRead, HandOff
<1>14. CASE Jump
  BY <1>14 DEF HeaderRead, Jump
<1>15. CASE Translate5Level
  BY <1>15 DEF HeaderRead, Translate5Level
<1>16. CASE UNCHANGED vars
  BY <1>16 DEF HeaderRead, vars
<1> QED BY <1>1, <1>2, <1>3, <1>4, <1>5, <1>6, <1>7, <1>8, <1>9, <1>10, <1>11, <1>12, <1>13, <1>14, <1>15, <1>16 DEF Next

LEMMA SegmentLoadedStep ==
    ASSUME TypeOK, Counted, SegmentLoaded, [Next]_vars PROVE SegmentLoaded'
<1> USE DEF display, list, image, Return, Late
<1>1. kernel.version \in {1, 2}
  BY KernelTyped DEF TypeOK
<1>0. kernel' = kernel /\ higherHalf' = higherHalf => LoadBase' = LoadBase
  BY DEF LoadBase
<1>2. CASE LoadKernel
  BY <1>0, <1>1, <1>2 DEF Counted, SegmentLoaded, LoadKernel, HasMemory
<1>3. CASE Fail
  BY <1>0, <1>1, <1>3 DEF Counted, SegmentLoaded, Fail, HasMemory
<1>4. CASE LoadHeader
  BY <1>0, <1>1, <1>4 DEF Counted, SegmentLoaded, LoadHeader, HasMemory
<1>5. CASE LoadElf
  BY <1>0, <1>1, <1>5 DEF Counted, SegmentLoaded, LoadElf, HasMemory
<1>6. CASE HeaderTag
  BY <1>0, <1>1, <1>6 DEF Counted, SegmentLoaded, HeaderTag, HasMemory
<1>7. CASE HeaderTagsEnd
  BY <1>0, <1>1, <1>7 DEF Counted, SegmentLoaded, HeaderTagsEnd, HasMemory
<1>8. CASE ChooseMode
  BY <1>0, <1>1, <1>8 DEF Counted, SegmentLoaded, ChooseMode, HasMemory
<1>9. CASE BuildStruct
  BY <1>0, <1>1, <1>9 DEF Counted, SegmentLoaded, BuildStruct, HasMemory
<1>10. CASE SetEpoch
  BY <1>0, <1>1, <1>10 DEF Counted, SegmentLoaded, SetEpoch, HasMemory
<1>11. CASE LoadModule
  BY <1>0, <1>1, <1>11 DEF Counted, SegmentLoaded, LoadModule, HasMemory
<1>12. CASE ModulesEnd
  BY <1>0, <1>1, <1>12 DEF Counted, SegmentLoaded, ModulesEnd, HasMemory
<1>13. CASE MapHigherHalf
  BY <1>0, <1>1, <1>13 DEF Counted, SegmentLoaded, MapHigherHalf, HasMemory
<1>14. CASE HandOff
  BY <1>0, <1>1, <1>14 DEF Counted, SegmentLoaded, HandOff, HasMemory
<1>15. CASE Jump
  BY <1>0, <1>1, <1>15 DEF Counted, SegmentLoaded, Jump, HasMemory
<1>16. CASE Translate5Level
  BY <1>0, <1>1, <1>16 DEF Counted, SegmentLoaded, Translate5Level, HasMemory
<1>17. CASE UNCHANGED vars
  BY <1>0, <1>17 DEF SegmentLoaded, vars
<1> QED BY <1>2, <1>3, <1>4, <1>5, <1>6, <1>7, <1>8, <1>9, <1>10, <1>11, <1>12, <1>13, <1>14, <1>15, <1>16, <1>17 DEF Next

LEMMA MappedStep ==
    ASSUME TypeOK, Mapped, [Next]_vars PROVE Mapped'
<1> USE DEF display, list, image, Return
<1>1. CASE LoadKernel
  BY <1>1 DEF Mapped, LoadKernel
<1>2. CASE Fail
  BY <1>2 DEF Mapped, Fail
<1>3. CASE LoadHeader
  BY <1>3 DEF Mapped, LoadHeader
<1>4. CASE LoadElf
  BY <1>4 DEF Mapped, LoadElf
<1>5. CASE HeaderTag
  BY <1>5 DEF Mapped, HeaderTag
<1>6. CASE HeaderTagsEnd
  BY <1>6 DEF Mapped, HeaderTagsEnd
<1>7. CASE ChooseMode
  BY <1>7 DEF Mapped, ChooseMode
<1>8. CASE BuildStruct
  BY <1>8 DEF Mapped, BuildStruct
<1>9. CASE SetEpoch
  BY <1>9 DEF Mapped, SetEpoch
<1>10. CASE LoadModule
  BY <1>10 DEF Mapped, LoadModule
<1>11. CASE ModulesEnd
  BY <1>11 DEF Mapped, ModulesEnd
<1>12. CASE MapHigherHalf
  <2>1. pml4' = [pml4 EXCEPT ![256] = pml4[0], ![511] = HigherHalf(pml4[0])] /\ DOMAIN pml4 = {0, 256, 511}
    BY <1>12 DEF MapHigherHalf, TypeOK
  <2>2. pml4'[0] = pml4[0] /\ pml4'[256] = pml4[0] /\ pml4'[511] = HigherHalf(pml4[0])
    BY ONLY <2>1
  <2> QED BY <2>2 DEF Mapped
<1>13. CASE HandOff
  BY <1>13 DEF Mapped, HandOff
<1>14. CASE Jump
  BY <1>14 DEF Mapped, Jump
<1>15. CASE Translate5Level
  BY <1>15 DEF Mapped, Translate5Level
<1>16. CASE UNCHANGED vars
  BY <1>16 DEF Mapped, vars
<1> QED BY <1>1, <1>2, <1>3, <1>4, <1>5, <1>6, <1>7, <1>8, <1>9, <1>10, <1>11, <1>12, <1>13, <1>14, <1>15, <1>16 DEF Next

LEMMA EnteredStep ==
    ASSUME TypeOK, Entered, [Next]_vars PROVE Entered'
<1> USE DEF display, list, image, Return
<1>1. CASE LoadKernel
  BY <1>1 DEF Entered, LoadKernel
<1>2. CASE Fail
  BY <1>2 DEF Entered, Fail
<1>3. CASE LoadHeader
  BY <1>3 DEF Entered, LoadHeader
<1>4. CASE LoadElf
  BY <1>4 DEF Entered, LoadElf
<1>5. CASE HeaderTag
  BY <1>5 DEF Entered, HeaderTag
<1>6. CASE HeaderTagsEnd
  BY <1>6 DEF Entered, HeaderTagsEnd
<1>7. CASE ChooseMode
  BY <1>7 DEF Entered, ChooseMode
<1>8. CASE BuildStruct
  BY <1>8 DEF Entered, BuildStruct
<1>9. CASE SetEpoch
  BY <1>9 DEF Entered, SetEpoch
<1>10. CASE LoadModule
  BY <1>10 DEF Entered, LoadModule
<1>11. CASE ModulesEnd
  BY <1>11 DEF Entered, ModulesEnd
<1>12. CASE MapHigherHalf
  BY <1>12 DEF Entered, MapHigherHalf
<1>13. CASE HandOff
  BY <1>13 DEF Entered, HandOff
<1>14. CASE Jump
  BY <1>14 DEF Entered, Jump
<1>15. CASE Translate5Level
  BY <1>15 DEF Entered, Translate5Level
<1>16. CASE UNCHANGED vars
  BY <1>16 DEF Entered, vars
<1> QED BY <1>1, <1>2, <1>3, <1>4, <1>5, <1>6, <1>7, <1>8, <1>9, <1>10, <1>11, <1>12, <1>13, <1>14, <1>15, <1>16 DEF Next

LEMMA ClockReadStep ==
    ASSUME TypeOK, ClockRead, [Next]_vars PROVE ClockRead'
<1> USE DEF display, list, image, Return
<1>1. CASE LoadKernel
  BY <1>1 DEF ClockRead, LoadKernel
<1>2. CASE Fail
  BY <1>2 DEF ClockRead, Fail
<1>3. CASE LoadHeader
  BY <1>3 DEF ClockRead, LoadHeader
<1>4. CASE LoadElf
  BY <1>4 DEF ClockRead, LoadElf
<1>5. CASE HeaderTag
  BY <1>5 DEF ClockRead, HeaderTag
<1>6. CASE HeaderTagsEnd
  BY <1>6 DEF ClockRead, HeaderTagsEnd
<1>7. CASE ChooseMode
  BY <1>7 DEF ClockRead, ChooseMode
<1>8. CASE BuildStruct
  BY <1>8 DEF ClockRead, BuildStruct
<1>9. CASE SetEpoch
  <2>1. clock' \in Dates /\ told' = [told EXCEPT !.epoch = GetUnixEpoch(clock')]
    BY <1>9 DEF SetEpoch
  <2>2. told'.epoch = GetUnixEpoch(clock')
    BY <2>1 DEF TypeOK
  <2> QED BY ONLY <2>1, <2>2 DEF ClockRead
<1>10. CASE LoadModule
  BY <1>10 DEF ClockRead, LoadModule
<1>11. CASE ModulesEnd
  BY <1>11 DEF ClockRead, ModulesEnd
<1>12. CASE MapHigherHalf
  BY <1>12 DEF ClockRead, MapHigherHalf
<1>13. CASE HandOff
  BY <1>13 DEF ClockRead, HandOff
<1>14. CASE Jump
  BY <1>14 DEF ClockRead, Jump
<1>15. CASE Translate5Level
  BY <1>15 DEF ClockRead, Translate5Level
<1>16. CASE UNCHANGED vars
  BY <1>16 DEF ClockRead, vars
<1> QED BY <1>1, <1>2, <1>3, <1>4, <1>5, <1>6, <1>7, <1>8, <1>9, <1>10, <1>11, <1>12, <1>13, <1>14, <1>15, <1>16 DEF Next
-----------------------------------------------------------------------------
(* The wishes.                                                             *)

LEMMA Maximum ==
    ASSUME NEW S \in SUBSET Nat, NEW x \in S, \A y \in S : y <= x
    PROVE  Max(S) = x
<1>1. \A y \in S : x >= y
  OBVIOUS
<1>2. Max(S) \in S /\ \A y \in S : Max(S) >= y
  BY ONLY <1>1, x \in S DEF Max
<1>3. Max(S) >= x /\ x >= Max(S) /\ Max(S) \in Nat /\ x \in Nat
  BY <1>1, <1>2
<1> QED BY ONLY <1>3

\* What one more tag makes of the wishes that are read.
LEMMA OneMoreTag ==
    ASSUME NEW n \in Nat, n + 1 <= Len(kernel.tags), kernel \in Kernels
    PROVE  /\ AskedAmong(n + 1) <=> AskedAmong(n) \/ kernel.tags[n + 1].ident = "PML5"
           /\ SizeAmong(n + 1) = IF kernel.tags[n + 1].ident = "FRAMEBUFFER" THEN kernel.tags[n + 1] ELSE SizeAmong(n)
<1>1. 1 .. n + 1 = (1 .. n) \cup {n + 1}
  OBVIOUS
<1>2. AskedAmong(n + 1) <=> AskedAmong(n) \/ kernel.tags[n + 1].ident = "PML5"
  BY <1>1 DEF AskedAmong
<1> DEFINE F(m) == {i \in 1 .. m : kernel.tags[i].ident = "FRAMEBUFFER"}
<1>3. ASSUME kernel.tags[n + 1].ident = "FRAMEBUFFER" PROVE SizeAmong(n + 1) = kernel.tags[n + 1]
  <2>1. F(n + 1) \cup {0} \in SUBSET Nat /\ n + 1 \in F(n + 1) \cup {0} /\ \A y \in F(n + 1) \cup {0} : y <= n + 1
    BY <1>3
  <2>2. LastFramebuffer(n + 1) = n + 1
    <3> HIDE DEF F
    <3>1. Max(F(n + 1) \cup {0}) = n + 1
      BY <2>1, Maximum
    <3> QED BY <3>1 DEF LastFramebuffer, F
  <2>3. n + 1 # 0
    OBVIOUS
  <2> QED BY ONLY <2>2, <2>3 DEF SizeAmong
<1>4. ASSUME kernel.tags[n + 1].ident # "FRAMEBUFFER" PROVE SizeAmong(n + 1) = SizeAmong(n)
  <2>1. F(n + 1) = F(n)
    BY <1>1, <1>4
  <2>2. LastFramebuffer(n + 1) = LastFramebuffer(n)
    BY <2>1 DEF LastFramebuffer
  <2> QED BY ONLY <2>2 DEF SizeAmong
<1> QED BY ONLY <1>2, <1>3, <1>4

LEMMA NoTagYet ==
    ~AskedAmong(0) /\ SizeAmong(0).width = 0 /\ SizeAmong(0).height = 0
<1>1. 1 .. 0 = {}
  OBVIOUS
<1>2. LastFramebuffer(0) = 0
  <2>1. {i \in 1 .. 0 : kernel.tags[i].ident = "FRAMEBUFFER"} \cup {0} = {0}
    BY <1>1
  <2>2. Max({0}) = 0
    BY DEF Max
  <2> QED BY <2>1, <2>2 DEF LastFramebuffer
<1> QED BY <1>1, <1>2 DEF AskedAmong, SizeAmong
LEMMA SameKernelSameWishes ==
    ASSUME kernel' = kernel
    PROVE  /\ AskedForPml5' <=> AskedForPml5
           /\ Wished' = Wished
           /\ \A n : AskedAmong(n)' <=> AskedAmong(n)
           /\ \A n : SizeAmong(n)' = SizeAmong(n)
<1>1. ASSUME NEW n PROVE AskedAmong(n)' <=> AskedAmong(n)
  BY DEF AskedAmong
<1>2. ASSUME NEW n PROVE SizeAmong(n)' = SizeAmong(n)
  <2>1. LastFramebuffer(n)' = LastFramebuffer(n)
    BY DEF LastFramebuffer
  <2> QED BY <2>1 DEF SizeAmong
<1>3. AskedForPml5' <=> AskedForPml5
  BY <1>1 DEF AskedForPml5, AskedAmong
<1>4. Wished' = Wished
  BY <1>2 DEF Wished, SizeAmong, LastFramebuffer
<1> QED BY <1>1, <1>2, <1>3, <1>4

LEMMA WishesReadStep ==
    ASSUME TypeOK, Counted, WishesRead, [Next]_vars PROVE WishesRead'
<1> USE DEF display, list, image, Return, ModeChosen, Late
<1>1. /\ kernel.version \in {1, 2} /\ Len(kernel.tags) \in Nat /\ kernel.modules \in Nat
      /\ next \in Nat \ {0} /\ machine.pml5 \in BOOLEAN /\ kernel \in Kernels /\ kernel.pml5 \in BOOLEAN
  BY KernelTyped, MachineTyped DEF TypeOK
<1>2. wishes \in [pml5 : BOOLEAN, width : Nat, height : Nat]
  BY DEF TypeOK
<1>3. CASE LoadKernel
  BY <1>3 DEF LoadKernel, WishesRead
<1>4. CASE LoadElf
  <2>1. kernel' = kernel /\ machine' = machine /\ wishes' = wishes /\ next' = next
    BY <1>4 DEF LoadElf
  <2>2. CASE pc' = "HeaderTags"
    <3>1. next = 1 /\ wishes = NoWishes
      BY <1>1, <1>4, <2>2 DEF LoadElf, Counted, WishesRead
    <3>2. Wishes(AskedAmong(0), SizeAmong(0))
      BY ONLY <3>1, NoTagYet DEF Wishes, NoWishes
    <3>3. Wishes(AskedAmong(next - 1), SizeAmong(next - 1))'
      BY <2>1, <3>1, <3>2, SameKernelSameWishes DEF Wishes
    <3> QED BY <2>2, <3>3 DEF WishesRead
  <2>3. CASE pc' # "HeaderTags"
    BY <1>1, <1>4, <2>1, <2>3, SameKernelSameWishes DEF LoadElf, WishesRead, Wishes
  <2> QED BY <2>2, <2>3
<1>5. CASE HeaderTag
  <2>1. kernel' = kernel /\ machine' = machine /\ next' = next + 1 /\ pc' = "HeaderTags"
    BY <1>5 DEF HeaderTag
  <2>2. PICK n \in Nat : n = next - 1
    BY <1>1
  <2>3. n + 1 <= Len(kernel.tags) /\ next = n + 1 /\ next' - 1 = n + 1
    BY <1>1, <1>5, <2>1, <2>2 DEF HeaderTag
  <2>4. Wishes(AskedAmong(n), SizeAmong(n))
    BY <1>5, <2>2 DEF HeaderTag, WishesRead
  <2>5. /\ AskedAmong(n + 1) <=> AskedAmong(n) \/ kernel.tags[n + 1].ident = "PML5"
        /\ SizeAmong(n + 1) = IF kernel.tags[n + 1].ident = "FRAMEBUFFER" THEN kernel.tags[n + 1] ELSE SizeAmong(n)
    BY <1>1, <2>3, OneMoreTag
  <2>6. CASE kernel.tags[n + 1].ident = "PML5"
    <3>1. wishes' = [wishes EXCEPT !.pml5 = TRUE]
      BY <1>5, <2>3, <2>6 DEF HeaderTag
    <3>2. wishes'.pml5 /\ wishes'.width = wishes.width /\ wishes'.height = wishes.height
      BY ONLY <1>2, <3>1
    <3>3. AskedAmong(n + 1) /\ SizeAmong(n + 1) = SizeAmong(n)
      BY ONLY <2>5, <2>6
    <3>4. Wishes(AskedAmong(next - 1), SizeAmong(next - 1))'
      BY <2>1, <2>3, <2>4, <3>2, <3>3, SameKernelSameWishes DEF Wishes
    <3> QED BY <2>1, <3>4 DEF WishesRead
  <2>7. CASE kernel.tags[n + 1].ident = "FRAMEBUFFER"
    <3>1. wishes' = [wishes EXCEPT !.width = kernel.tags[n + 1].width, !.height = kernel.tags[n + 1].height]
      BY <1>5, <2>3, <2>7 DEF HeaderTag, FramebufferReq
    <3>2. /\ wishes'.pml5 = wishes.pml5
          /\ wishes'.width = kernel.tags[n + 1].width /\ wishes'.height = kernel.tags[n + 1].height
      BY ONLY <1>2, <3>1
    <3>3. (AskedAmong(n + 1) <=> AskedAmong(n)) /\ SizeAmong(n + 1) = kernel.tags[n + 1]
      BY ONLY <2>5, <2>7
    <3>4. Wishes(AskedAmong(next - 1), SizeAmong(next - 1))'
      BY <2>1, <2>3, <2>4, <3>2, <3>3, SameKernelSameWishes DEF Wishes
    <3> QED BY <2>1, <3>4 DEF WishesRead
  <2>8. CASE kernel.tags[n + 1].ident \notin {"PML5", "FRAMEBUFFER"}
    <3>1. wishes' = wishes
      BY <1>5, <2>3, <2>8 DEF HeaderTag
    <3>2. (AskedAmong(n + 1) <=> AskedAmong(n)) /\ SizeAmong(n + 1) = SizeAmong(n)
      BY ONLY <2>5, <2>8
    <3>3. Wishes(AskedAmong(next - 1), SizeAmong(next - 1))'
      BY <2>1, <2>3, <2>4, <3>1, <3>2, SameKernelSameWishes DEF Wishes
    <3> QED BY <2>1, <3>3 DEF WishesRead
  <2> QED BY <2>6, <2>7, <2>8
<1>6. CASE HeaderTagsEnd
  <2>1. kernel' = kernel /\ machine' = machine /\ pc' = "Mode"
    BY <1>6 DEF HeaderTagsEnd
  <2>2. next - 1 = Len(kernel.tags) /\ kernel.version = 2
    BY <1>1, <1>6 DEF HeaderTagsEnd, Counted
  <2>3. Wishes(AskedForPml5, Wished)
    BY <1>6, <2>2 DEF HeaderTagsEnd, WishesRead, AskedForPml5, Wished
  <2>4. wishes' = [wishes EXCEPT !.pml5 = @ /\ machine.pml5]
    BY <1>6 DEF HeaderTagsEnd, Pml5
  <2>5. /\ wishes'.pml5 <=> wishes.pml5 /\ machine.pml5
        /\ wishes'.width = wishes.width /\ wishes'.height = wishes.height
    BY ONLY <1>2, <2>4
  <2>6. Wishes(AskedForPml5 /\ machine.pml5, Wished)'
    BY <2>1, <2>3, <2>5, SameKernelSameWishes DEF Wishes
  <2> QED BY <2>1, <2>6 DEF WishesRead
<1>7. CASE ChooseMode
  <2>1. kernel' = kernel /\ machine' = machine
    BY <1>7 DEF ChooseMode
  <2>2. CASE kernel.version = 2
    <3>1. wishes' = wishes /\ pc' \in {"Struct", "asserted"}
      BY <1>7, <2>2 DEF ChooseMode
    <3>2. Wishes(AskedForPml5 /\ machine.pml5, Wished)
      BY <1>7, <2>2 DEF ChooseMode, WishesRead
    <3>3. Wishes(AskedForPml5 /\ machine.pml5, Wished)'
      BY <2>1, <3>1, <3>2, SameKernelSameWishes DEF Wishes
    <3> QED BY <3>1, <3>3 DEF WishesRead
  <2>3. CASE kernel.version = 1 /\ pc' = "Elf"
    <3>1. wishes' = [pml5 |-> kernel.pml5 /\ machine.pml5, width |-> kernel.width, height |-> kernel.height]
      BY <1>7, <2>3 DEF ChooseMode, Pml5
    <3>2. /\ wishes'.pml5 <=> kernel.pml5 /\ machine.pml5
          /\ wishes'.width = kernel.width /\ wishes'.height = kernel.height
      BY ONLY <1>1, <3>1
    <3>3. Wishes(AskedForPml5 /\ machine.pml5, Wished)'
      BY <2>1, <2>3, <3>2 DEF Wishes, AskedForPml5, Wished
    <3> QED BY <2>1, <2>3, <3>3 DEF WishesRead
  <2>4. CASE kernel.version = 1 /\ pc' # "Elf"
    BY <1>7, <2>1, <2>4 DEF ChooseMode, WishesRead
  <2> QED BY <1>1, <2>2, <2>3, <2>4
<1>8. ASSUME \/ Fail \/ LoadHeader \/ BuildStruct \/ SetEpoch \/ LoadModule \/ ModulesEnd
             \/ MapHigherHalf \/ HandOff \/ Jump \/ Translate5Level \/ UNCHANGED vars
      PROVE  WishesRead'
  <2>1. kernel' = kernel /\ machine' = machine /\ wishes' = wishes
    BY <1>8 DEF Fail, LoadHeader, BuildStruct, SetEpoch, LoadModule, ModulesEnd, MapHigherHalf, HandOff, Jump,
                Translate5Level, vars
  <2>2. \/ pc' = pc /\ next' = next
        \/ pc' = "menu"
        \/ pc = "Header" /\ pc' = "Mode" /\ kernel.version = 1
        \/ pc = "Header" /\ pc' = "Elf" /\ kernel.version # 1
        \/ pc \in Late /\ pc' \in Late
    BY <1>8 DEF Fail, LoadHeader, BuildStruct, SetEpoch, LoadModule, ModulesEnd, MapHigherHalf, HandOff, Jump,
                Translate5Level, vars
  <2>3. \A n : (AskedAmong(n)' <=> AskedAmong(n)) /\ SizeAmong(n)' = SizeAmong(n)
    BY <2>1, SameKernelSameWishes
  <2>4. (AskedForPml5' <=> AskedForPml5) /\ Wished' = Wished
    BY <2>1, SameKernelSameWishes
  <2> QED BY <1>1, <2>1, <2>2, <2>3, <2>4 DEF WishesRead, Wishes
<1> QED BY <1>3, <1>4, <1>5, <1>6, <1>7, <1>8 DEF Next
-----------------------------------------------------------------------------
(* The mode.                                                               *)

LEMMA ModeSetStep ==
    ASSUME TypeOK, Counted, ModeSet, [Next]_vars PROVE ModeSet'
<1> USE DEF display, list, image, Return, ModeChosen, Late
<1>1. kernel.version \in {1, 2}
  BY KernelTyped DEF TypeOK
<1>2. told \in [mode : Int, rsdp : {"none", "1.0", "2.0"}, epoch : Int \X Nat]
  BY DEF TypeOK
<1>3. ASSUME machine' = machine, config' = config, NEW w, wishes' = w
      PROVE  ChosenModes(wishes)' = ChosenModes(w)
  BY <1>3 DEF ChosenModes
<1>4. CASE ChooseMode
  <2>1. machine' = machine /\ config' = config /\ kernel' = kernel
    BY <1>4 DEF ChooseMode
  <2>2. CASE pc' \in {"Elf", "Struct"}
    <3>1. PICK w : wishes' = w /\ gopMode' \in ChosenModes(w)
      <4> DEFINE v == IF kernel.version = 2 THEN wishes
                      ELSE [pml5 |-> Pml5(kernel.pml5), width |-> kernel.width, height |-> kernel.height]
      <4>1. wishes' = v /\ gopMode' \in ChosenModes(v)
        BY <1>4, <2>2 DEF ChooseMode
      <4> QED BY <4>1
    <3>2. gopMode' \in ChosenModes(wishes)'
      BY <1>3, <2>1, <3>1
    <3> QED BY <2>2, <3>2 DEF ModeSet
  <2>3. CASE pc' \notin {"Elf", "Struct"}
    BY <1>4, <2>1, <2>3 DEF ChooseMode, ModeSet
  <2> QED BY <2>2, <2>3
<1>5. CASE BuildStruct
  <2>1. machine' = machine /\ config' = config /\ wishes' = wishes /\ gopMode' = gopMode
    BY <1>5 DEF BuildStruct
  <2>2. told' = [told EXCEPT !.mode = gopMode, !.rsdp = Rsdp]
    BY <1>5 DEF BuildStruct
  <2>3. told'.mode = gopMode'
    BY ONLY <1>2, <2>1, <2>2
  <2>4. ChosenModes(wishes)' = ChosenModes(wishes)
    BY <1>3, <2>1
  <2> QED BY <1>5, <2>1, <2>3, <2>4 DEF BuildStruct, ModeSet
<1>6. CASE SetEpoch
  <2>1. machine' = machine /\ config' = config /\ wishes' = wishes /\ gopMode' = gopMode
    BY <1>6 DEF SetEpoch
  <2>2. told' = [told EXCEPT !.epoch = GetUnixEpoch(clock')]
    BY <1>6 DEF SetEpoch
  <2>3. told'.mode = told.mode
    BY ONLY <1>2, <2>2
  <2>4. ChosenModes(wishes)' = ChosenModes(wishes)
    BY <1>3, <2>1
  <2> QED BY <1>6, <2>1, <2>3, <2>4 DEF SetEpoch, ModeSet
<1>7. CASE LoadKernel \/ LoadHeader \/ HeaderTag \/ HeaderTagsEnd \/ Fail
  BY <1>7 DEF LoadKernel, LoadHeader, HeaderTag, HeaderTagsEnd, Fail, ModeSet
<1>8. CASE \/ LoadElf \/ LoadModule \/ ModulesEnd \/ MapHigherHalf \/ HandOff
           \/ Jump \/ Translate5Level \/ UNCHANGED vars
  <2>1. /\ machine' = machine /\ config' = config /\ wishes' = wishes /\ gopMode' = gopMode /\ told' = told
        /\ kernel' = kernel
    BY <1>8 DEF LoadElf, LoadModule, ModulesEnd, MapHigherHalf, HandOff, Jump, Translate5Level, vars
  <2>2. ChosenModes(wishes)' = ChosenModes(wishes)
    BY <1>3, <2>1
  <2>3. ModeChosen' => ModeChosen
    BY <1>1, <1>8, <2>1 DEF LoadElf, LoadModule, ModulesEnd, MapHigherHalf, HandOff, Jump, Translate5Level, vars
  <2>4. pc' \in Late \ {"Struct"} => pc \in Late \ {"Struct"}
    BY <1>8 DEF LoadElf, LoadModule, ModulesEnd, MapHigherHalf, HandOff, Jump, Translate5Level, vars
  <2> HIDE DEF ModeChosen, Late
  <2> QED BY <2>1, <2>2, <2>3, <2>4 DEF ModeSet
<1> QED BY <1>4, <1>5, <1>6, <1>7, <1>8 DEF Next
-----------------------------------------------------------------------------
(* The list.                                                               *)

\* No node is met twice, and a node that is not met.
Distinct(nodes) ==
    \A i, j \in 0 .. Len(nodes) : NodeAt(nodes, i) = NodeAt(nodes, j) => i = j
Fresh(nodes, node) == \A i \in 0 .. Len(nodes) : NodeAt(nodes, i) # node

LEMMA Appended ==
    ASSUME NEW nodes \in Seq(Nodes), NEW new \in Nodes
    PROVE  /\ Append(nodes, new) \in Seq(Nodes) /\ Len(Append(nodes, new)) = Len(nodes) + 1
           /\ \A i \in 0 .. Len(nodes) : NodeAt(Append(nodes, new), i) = NodeAt(nodes, i)
           /\ NodeAt(Append(nodes, new), Len(nodes) + 1) = new
<1>1. /\ Append(nodes, new) \in Seq(Nodes) /\ Len(Append(nodes, new)) = Len(nodes) + 1
      /\ \A i \in 1 .. Len(nodes) : Append(nodes, new)[i] = nodes[i]
      /\ Append(nodes, new)[Len(nodes) + 1] = new
      /\ Len(nodes) \in Nat
  OBVIOUS
<1>2. ASSUME NEW i \in 0 .. Len(nodes) PROVE NodeAt(Append(nodes, new), i) = NodeAt(nodes, i)
  <2>1. i = 0 \/ i \in 1 .. Len(nodes)
    BY ONLY <1>1, i \in 0 .. Len(nodes)
  <2> QED BY ONLY <1>1, <2>1, Zenon DEF NodeAt
<1>3. Len(nodes) + 1 # 0
  BY ONLY <1>1
<1>4. NodeAt(Append(nodes, new), Len(nodes) + 1) = new
  BY ONLY <1>1, <1>3 DEF NodeAt
<1> QED BY ONLY <1>1, <1>2, <1>4

LEMMA DistinctAppended ==
    ASSUME NEW nodes \in Seq(Nodes), NEW new \in Nodes, Distinct(nodes), Fresh(nodes, new)
    PROVE  Distinct(Append(nodes, new))
<1> DEFINE all == Append(nodes, new)
<1>0. PICK n \in Nat : n = Len(nodes)
  OBVIOUS
<1>1. /\ Len(all) = n + 1
      /\ \A i \in 0 .. n : NodeAt(all, i) = NodeAt(nodes, i)
      /\ NodeAt(all, n + 1) = new
  BY <1>0, Appended
<1>2. \A i \in 0 .. n : NodeAt(nodes, i) # new
  BY <1>0 DEF Fresh
<1>3. \A i, j \in 0 .. n : NodeAt(nodes, i) = NodeAt(nodes, j) => i = j
  BY <1>0 DEF Distinct
<1> HIDE DEF all
<1>4. ASSUME NEW i \in 0 .. n + 1, NEW j \in 0 .. n + 1, NodeAt(all, i) = NodeAt(all, j) PROVE i = j
  <2>1. (i \in 0 .. n \/ i = n + 1) /\ (j \in 0 .. n \/ j = n + 1)
    OBVIOUS
  <2> QED BY ONLY <1>1, <1>2, <1>3, <1>4, <2>1, Zenon
<1>5. Distinct(all)
  BY <1>1, <1>4 DEF Distinct
<1> QED BY <1>5 DEF all

LEMMA FreshAppended ==
    ASSUME NEW nodes \in Seq(Nodes), NEW new \in Nodes, NEW node, Fresh(nodes, node), node # new
    PROVE  Fresh(Append(nodes, new), node)
<1>0. PICK n \in Nat : n = Len(nodes)
  OBVIOUS
<1>1. /\ Len(Append(nodes, new)) = n + 1
      /\ \A i \in 0 .. n : NodeAt(Append(nodes, new), i) = NodeAt(nodes, i)
      /\ NodeAt(Append(nodes, new), n + 1) = new
  BY <1>0, Appended
<1>2. \A i \in 0 .. n : NodeAt(nodes, i) # node
  BY <1>0 DEF Fresh
<1>3. \A i \in 0 .. n + 1 : i \in 0 .. n \/ i = n + 1
  OBVIOUS
<1> QED BY ONLY <1>1, <1>2, <1>3, node # new, Zenon DEF Fresh

\* A node that is linked behind the last of the list is the next one the kernel meets.
LEMMA LeadsBehind ==
    ASSUME NEW chain, NEW nodes \in Seq(Nodes), NEW new \in Nodes,
           Leads(chain, nodes), Distinct(nodes), Fresh(nodes, new)
    PROVE  Leads(Behind(NodeAt(nodes, Len(nodes)), chain, new), Append(nodes, new))
<1> DEFINE all == Append(nodes, new)
           after == Behind(NodeAt(nodes, Len(nodes)), chain, new)
<1>0. PICK n \in Nat : n = Len(nodes)
  OBVIOUS
<1>1. /\ Len(all) = n + 1
      /\ \A i \in 0 .. n : NodeAt(all, i) = NodeAt(nodes, i)
      /\ NodeAt(all, n + 1) = new
  BY <1>0, Appended
<1>2. \A i \in 0 .. n : NodeAt(nodes, i) # new
  BY <1>0 DEF Fresh
<1>3. \A i, j \in 0 .. n : NodeAt(nodes, i) = NodeAt(nodes, j) => i = j
  BY <1>0 DEF Distinct
<1>4. /\ DOMAIN chain = {NodeAt(nodes, i) : i \in 0 .. n}
      /\ \A i \in 0 .. n : chain[NodeAt(nodes, i)] = IF i = n THEN End ELSE nodes[i + 1]
  BY <1>0 DEF Leads
<1>5. /\ DOMAIN after = DOMAIN chain \cup {new}
      /\ \A x \in DOMAIN chain \cup {new} :
            after[x] = IF x = NodeAt(nodes, n) THEN new ELSE IF x = new THEN End ELSE chain[x]
  BY <1>0 DEF Behind
<1>6. \A i \in 1 .. n : all[i] = nodes[i]
  BY <1>0
<1>7. all[n + 1] = new
  BY <1>0
<1> HIDE DEF all, after
<1>8. DOMAIN after = {NodeAt(all, i) : i \in 0 .. n + 1}
  <2>1. \A i \in 0 .. n + 1 : i \in 0 .. n \/ i = n + 1
    OBVIOUS
  <2>2. 0 .. n \subseteq 0 .. n + 1 /\ n + 1 \in 0 .. n + 1
    OBVIOUS
  <2> QED BY ONLY <1>1, <1>4, <1>5, <2>1, <2>2
<1>9. ASSUME NEW i \in 0 .. n + 1
      PROVE  after[NodeAt(all, i)] = IF i = n + 1 THEN End ELSE all[i + 1]
  <2>1. CASE i = n + 1
    <3>1. NodeAt(all, i) = new /\ n \in 0 .. n
      BY <1>1, <2>1
    <3>2. new # NodeAt(nodes, n)
      BY <1>2, <3>1
    <3>3. after[new] = End
      BY ONLY <1>5, <3>2
    <3> QED BY ONLY <2>1, <3>1, <3>3
  <2>2. CASE i = n
    <3>1. NodeAt(all, i) = NodeAt(nodes, n) /\ n \in 0 .. n /\ i # n + 1
      BY <1>1, <2>2
    <3>2. NodeAt(nodes, n) \in DOMAIN chain
      BY ONLY <1>4, <3>1
    <3>3. after[NodeAt(nodes, n)] = new
      BY ONLY <1>5, <3>2
    <3> QED BY ONLY <1>7, <2>2, <3>1, <3>3
  <2>3. CASE i \in 0 .. n - 1
    <3>1. i \in 0 .. n /\ n \in 0 .. n /\ i # n /\ i # n + 1 /\ i + 1 \in 1 .. n
      BY <2>3
    <3>2. NodeAt(all, i) = NodeAt(nodes, i)
      BY <1>1, <3>1
    <3>3. NodeAt(nodes, i) \in DOMAIN chain
      BY ONLY <1>4, <3>1
    <3>4. NodeAt(nodes, i) # new /\ NodeAt(nodes, i) # NodeAt(nodes, n)
      BY ONLY <1>2, <1>3, <3>1
    <3>5. after[NodeAt(nodes, i)] = chain[NodeAt(nodes, i)]
      BY ONLY <1>5, <3>3, <3>4
    <3>6. chain[NodeAt(nodes, i)] = nodes[i + 1]
      BY ONLY <1>4, <3>1
    <3> QED BY <1>6, <3>1, <3>2, <3>5, <3>6
  <2> QED BY <2>1, <2>2, <2>3
<1>10. Leads(after, all)
  BY ONLY <1>1, <1>8, <1>9 DEF Leads
<1> QED BY <1>10 DEF after, all
\* A list of tags that has none of some kinds yet.
Without(nodes, kinds) ==
    nodes \in Seq(Nodes) /\ Distinct(nodes) /\ \A kind \in kinds : Fresh(nodes, Tag(kind))

LEMMA TagAppended ==
    ASSUME NEW nodes, NEW kinds \in SUBSET NodeKinds, Without(nodes, kinds), NEW kind \in kinds
    PROVE  Without(Append(nodes, Tag(kind)), kinds \ {kind})
<1>1. Tag(kind) \in Nodes /\ nodes \in Seq(Nodes) /\ Distinct(nodes) /\ Fresh(nodes, Tag(kind))
  BY TagsAreNodes DEF Without
<1>2. Append(nodes, Tag(kind)) \in Seq(Nodes)
  BY <1>1, Appended
<1>3. Distinct(Append(nodes, Tag(kind)))
  BY <1>1, DistinctAppended
<1>4. ASSUME NEW k \in kinds \ {kind} PROVE Fresh(Append(nodes, Tag(kind)), Tag(k))
  <2>1. Tag(k) # Tag(kind)
    BY DEF Tag, Node
  <2>2. Fresh(nodes, Tag(k))
    BY DEF Without
  <2> QED BY <1>1, <2>1, <2>2, FreshAppended
<1> QED BY <1>2, <1>3, <1>4 DEF Without

\* Linking a tag behind the last one.
LEMMA TagLinked ==
    ASSUME NEW nodes, NEW kinds \in SUBSET NodeKinds, Without(nodes, kinds), NEW kind \in kinds,
           NEW chain, Leads(chain, nodes), NEW last, last = NodeAt(nodes, Len(nodes))
    PROVE  /\ Leads(Behind(last, chain, Tag(kind)), Append(nodes, Tag(kind)))
           /\ Tag(kind) = NodeAt(Append(nodes, Tag(kind)), Len(Append(nodes, Tag(kind))))
           /\ Tag(kind) \notin DOMAIN chain
           /\ Tag(kind) \in DOMAIN Behind(last, chain, Tag(kind))
<1>1. Tag(kind) \in Nodes /\ nodes \in Seq(Nodes) /\ Distinct(nodes) /\ Fresh(nodes, Tag(kind))
  BY TagsAreNodes DEF Without
<1>2. Leads(Behind(last, chain, Tag(kind)), Append(nodes, Tag(kind)))
  BY <1>1, LeadsBehind
<1>3. Tag(kind) = NodeAt(Append(nodes, Tag(kind)), Len(Append(nodes, Tag(kind))))
  BY <1>1, Appended
<1>4. Tag(kind) \notin DOMAIN chain
  BY <1>1 DEF Leads, Fresh
<1>5. Tag(kind) \in DOMAIN Behind(last, chain, Tag(kind))
  BY DEF Behind
<1> QED BY <1>2, <1>3, <1>4, <1>5

LEMMA StructAlone ==
    /\ Without(<<>>, NodeKinds \ {"struct", "module"})
    /\ Leads(OnlyNode(Tag("struct")), <<>>)
    /\ NodeAt(<<>>, Len(<<>>)) = Tag("struct")
<1>1. <<>> \in Seq(Nodes) /\ Len(<<>>) = 0 /\ 0 .. 0 = {0}
  OBVIOUS
<1>2. \A i \in 0 .. 0 : NodeAt(<<>>, i) = Tag("struct")
  BY <1>1 DEF NodeAt
<1>3. Distinct(<<>>)
  BY <1>1 DEF Distinct
<1>4. ASSUME NEW kind \in NodeKinds \ {"struct", "module"} PROVE Fresh(<<>>, Tag(kind))
  <2>1. Tag("struct") # Tag(kind)
    BY DEF Tag, Node
  <2> QED BY <1>1, <1>2, <2>1 DEF Fresh
<1>5. Leads(OnlyNode(Tag("struct")), <<>>)
  BY <1>1, <1>2 DEF Leads, OnlyNode
<1> QED BY <1>1, <1>2, <1>3, <1>4, <1>5 DEF Without

\* The tags of stivale2 are of different kinds.
LEMMA TagsInOrder ==
    /\ Without(<<Tag("cmdline")>>, {"framebuffer", "rsdp", "firmware", "epoch", "modules", "memmap"})
    /\ Without(<<Tag("cmdline"), Tag("framebuffer")>>, {"rsdp", "firmware", "epoch", "modules", "memmap"})
    /\ Without(<<Tag("cmdline"), Tag("framebuffer"), Tag("rsdp")>>, {"firmware", "epoch", "modules", "memmap"})
    /\ Without(FirstTags, {"epoch", "modules", "memmap"})
    /\ Without(TagsWith(0), {"modules", "memmap"})
    /\ \A n \in Nat \ {0} :
          TagsWith(n) = Append(TagsWith(0), Tag("modules")) /\ Without(TagsWith(n), {"memmap"})
<1>1. Without(<<>>, {"cmdline", "framebuffer", "rsdp", "firmware", "epoch", "modules", "memmap"})
  BY StructAlone DEF Without, NodeKinds
<1> DEFINE one == <<Tag("cmdline")>>
           two == <<Tag("cmdline"), Tag("framebuffer")>>
           three == <<Tag("cmdline"), Tag("framebuffer"), Tag("rsdp")>>
<1>2. Without(one, {"framebuffer", "rsdp", "firmware", "epoch", "modules", "memmap"})
  <2>1. one = Append(<<>>, Tag("cmdline"))
    OBVIOUS
  <2>2. Without(Append(<<>>, Tag("cmdline")),
                {"cmdline", "framebuffer", "rsdp", "firmware", "epoch", "modules", "memmap"} \ {"cmdline"})
    BY <1>1, TagAppended DEF NodeKinds
  <2> QED BY <2>1, <2>2 DEF Without
<1>3. Without(two, {"rsdp", "firmware", "epoch", "modules", "memmap"})
  <2>1. two = Append(one, Tag("framebuffer"))
    OBVIOUS
  <2> HIDE DEF one, two
  <2>2. Without(Append(one, Tag("framebuffer")),
                {"framebuffer", "rsdp", "firmware", "epoch", "modules", "memmap"} \ {"framebuffer"})
    BY <1>2, TagAppended DEF NodeKinds
  <2> QED BY <2>1, <2>2 DEF Without
<1>4. Without(three, {"firmware", "epoch", "modules", "memmap"})
  <2>1. three = Append(two, Tag("rsdp"))
    OBVIOUS
  <2> HIDE DEF two, three
  <2>2. Without(Append(two, Tag("rsdp")), {"rsdp", "firmware", "epoch", "modules", "memmap"} \ {"rsdp"})
    BY <1>3, TagAppended DEF NodeKinds
  <2> QED BY <2>1, <2>2 DEF Without
<1>5. Without(FirstTags, {"epoch", "modules", "memmap"})
  <2>1. FirstTags = Append(two, Tag("firmware")) \/ FirstTags = Append(three, Tag("firmware"))
    <3>1. three = Append(two, Tag("rsdp"))
      OBVIOUS
    <3> QED BY <3>1 DEF FirstTags, AppendIf
  <2> HIDE DEF two, three
  <2>2. Without(two, {"firmware", "epoch", "modules", "memmap"})
    BY <1>3 DEF Without
  <2>3. ASSUME NEW nodes, Without(nodes, {"firmware", "epoch", "modules", "memmap"})
        PROVE  Without(Append(nodes, Tag("firmware")), {"epoch", "modules", "memmap"})
    <3>1. Without(Append(nodes, Tag("firmware")), {"firmware", "epoch", "modules", "memmap"} \ {"firmware"})
      BY <2>3, TagAppended DEF NodeKinds
    <3> QED BY <3>1 DEF Without
  <2> QED BY <1>4, <2>1, <2>2, <2>3
<1>6. Without(TagsWith(0), {"modules", "memmap"})
  <2>1. TagsWith(0) = Append(FirstTags, Tag("epoch"))
    BY DEF TagsWith, AppendIf
  <2>2. Without(Append(FirstTags, Tag("epoch")), {"epoch", "modules", "memmap"} \ {"epoch"})
    BY <1>5, TagAppended DEF NodeKinds
  <2> QED BY <2>1, <2>2 DEF Without
<1>7. ASSUME NEW n \in Nat \ {0}
      PROVE  TagsWith(n) = Append(TagsWith(0), Tag("modules")) /\ Without(TagsWith(n), {"memmap"})
  <2>1. TagsWith(n) = Append(TagsWith(0), Tag("modules"))
    BY DEF TagsWith, AppendIf
  <2>2. Without(Append(TagsWith(0), Tag("modules")), {"modules", "memmap"} \ {"modules"})
    BY <1>6, TagAppended DEF NodeKinds
  <2> QED BY <2>1, <2>2 DEF Without
<1> HIDE DEF one, two, three
<1>8. QED BY <1>2, <1>3, <1>4, <1>5, <1>6, <1>7 DEF one, two, three
LEMMA ModulesInOrder ==
    ASSUME NEW n \in Nat
    PROVE  /\ ModuleNodes(n) \in Seq(Nodes) /\ Len(ModuleNodes(n)) = n
           /\ Distinct(ModuleNodes(n)) /\ Fresh(ModuleNodes(n), Node("module", n + 1))
           /\ ModuleNodes(n + 1) = Append(ModuleNodes(n), Node("module", n + 1))
<1>1. \A i \in Nat : Node("module", i) \in Nodes
  BY TagsAreNodes
<1>2. ModuleNodes(n) \in Seq(Nodes) /\ Len(ModuleNodes(n)) = n
  BY <1>1 DEF ModuleNodes
<1>3. \A i \in 0 .. n : NodeAt(ModuleNodes(n), i) = IF i = 0 THEN Tag("struct") ELSE Node("module", i)
  BY DEF NodeAt, ModuleNodes
<1>4. \A i \in Nat : Node("module", i) # Tag("struct")
  BY DEF Tag, Node
<1>5. \A i, j \in Nat : Node("module", i) = Node("module", j) => i = j
  BY DEF Node
<1>6. Distinct(ModuleNodes(n))
  BY <1>2, <1>3, <1>4, <1>5 DEF Distinct
<1>7. Fresh(ModuleNodes(n), Node("module", n + 1))
  BY <1>2, <1>3, <1>4, <1>5 DEF Fresh
<1>8. ModuleNodes(n + 1) = Append(ModuleNodes(n), Node("module", n + 1))
  BY DEF ModuleNodes
<1> QED BY <1>2, <1>6, <1>7, <1>8

LEMMA NoModuleYet ==
    ModuleNodes(0) = <<>>
  BY ModulesInOrder

\* The list as it is at every step.
LEMMA ToldNodesAt ==
    /\ kernel.version = 1 => ToldNodes = ModuleNodes(IF pc \in Late THEN next - 1 ELSE 0)
    /\ kernel.version # 1 /\ pc = "Epoch" => ToldNodes = FirstTags
    /\ kernel.version # 1 /\ pc \in {"Modules", "PageTables", "HandOff"} => ToldNodes = TagsWith(next - 1)
    /\ kernel.version # 1 /\ pc \in {"Jump", "jumped"} => ToldNodes = Append(TagsWith(next - 1), Tag("memmap"))
    /\ kernel.version # 1 /\ pc \in (Steps \ Late) \cup {"Struct"} => ToldNodes = <<>>
  BY DEF ToldNodes, Steps, Late

LEMMA ListBuiltInit ==
    ASSUME Init PROVE ListBuilt
  BY DEF Init, ListBuilt, Attempting, Steps
LEMMA ListBuiltStep ==
    ASSUME TypeOK, Counted, ListBuilt, [Next]_vars PROVE ListBuilt'
<1> USE DEF display, list, image, Return, Late, Steps
<1>1. /\ kernel.version \in {1, 2} /\ kernel.modules \in Nat /\ next \in Nat \ {0} /\ Len(kernel.tags) \in Nat
  BY KernelTyped DEF TypeOK
<1> DEFINE last == NodeAt(ToldNodes, Len(ToldNodes))
<1>2. pc \in Attempting => Leads(links, ToldNodes) /\ tail = last
  BY DEF ListBuilt
<1>3. ASSUME machine' = machine
      PROVE  FirstTags' = FirstTags /\ \A n : TagsWith(n)' = TagsWith(n)
  BY <1>3 DEF FirstTags, TagsWith
\* A step that tells nothing, and one that links a tag.
<1>4. ASSUME links' = links, tail' = tail, pc \in Attempting, ToldNodes' = ToldNodes PROVE ListBuilt'
  BY <1>2, <1>4 DEF ListBuilt
<1>5. ASSUME NEW nodes, NEW kinds \in SUBSET NodeKinds, NEW kind \in kinds,
             Without(nodes, kinds), ToldNodes = nodes, pc \in Attempting,
             links' = Behind(tail, links, Tag(kind)), tail' = Tag(kind), ToldNodes' = Append(nodes, Tag(kind))
      PROVE  ListBuilt'
  <2>1. Leads(links, nodes) /\ tail = NodeAt(nodes, Len(nodes))
    BY <1>2, <1>5
  <2>2. /\ Leads(Behind(tail, links, Tag(kind)), Append(nodes, Tag(kind)))
        /\ Tag(kind) = NodeAt(Append(nodes, Tag(kind)), Len(Append(nodes, Tag(kind))))
    BY ONLY <1>5, <2>1, TagLinked
  <2>3. Leads(links', ToldNodes') /\ tail' = NodeAt(ToldNodes', Len(ToldNodes'))
    BY ONLY <1>5, <2>2
  <2> QED BY ONLY <2>3 DEF ListBuilt
<1> HIDE DEF last
<1>6. CASE LoadKernel
  <2>1. links' = OnlyNode(Tag("struct")) /\ tail' = Tag("struct") /\ pc' = "Header"
    BY <1>6 DEF LoadKernel
  <2>2. ToldNodes' = <<>>
    <3>1. kernel'.version = 1 => ToldNodes' = ModuleNodes(0)
      BY <2>1 DEF ToldNodes
    <3>2. kernel'.version # 1 => ToldNodes' = <<>>
      BY <2>1 DEF ToldNodes
    <3> QED BY <3>1, <3>2, NoModuleYet
  <2> QED BY <2>1, <2>2, StructAlone DEF ListBuilt
<1>7. CASE Fail
  BY <1>7 DEF Fail, ListBuilt, Attempting
<1>8. CASE LoadHeader \/ LoadElf \/ HeaderTag \/ HeaderTagsEnd \/ ChooseMode
  <2>1. /\ kernel' = kernel /\ links' = links /\ tail' = tail
        /\ pc \in {"Header", "Elf", "HeaderTags", "Mode"}
    BY <1>8 DEF LoadHeader, LoadElf, HeaderTag, HeaderTagsEnd, ChooseMode
  <2>2. \/ pc' \in {"Header", "Elf", "HeaderTags", "Mode", "menu", "asserted"}
        \/ pc' = "Struct" /\ next' = 1
    BY <1>1, <1>8 DEF LoadHeader, LoadElf, HeaderTag, HeaderTagsEnd, ChooseMode, Counted
  <2>3. CASE pc' \in {"menu", "asserted"}
    BY <2>3 DEF ListBuilt, Attempting
  <2>4. CASE pc' \in {"Header", "Elf", "HeaderTags", "Mode", "Struct"}
    <3>1. kernel.version = 1 => ToldNodes = ModuleNodes(0) /\ ToldNodes' = ModuleNodes(0)
      BY <2>1, <2>2, <2>4 DEF ToldNodes
    <3>2. kernel.version # 1 => ToldNodes = <<>> /\ ToldNodes' = <<>>
      BY <2>1, <2>4 DEF ToldNodes
    <3>3. ToldNodes' = ToldNodes
      BY <3>1, <3>2
    <3> QED BY <1>4, <2>1, <3>3 DEF Attempting
  <2> QED BY <2>2, <2>3, <2>4
<1>9. CASE BuildStruct
  <2>1. pc = "Struct" /\ pc' = "Epoch" /\ kernel' = kernel /\ machine' = machine /\ next' = next
    BY <1>9 DEF BuildStruct
  <2>2. CASE kernel.version = 1
    <3>1. links' = links /\ tail' = tail
      BY <1>9, <2>2 DEF BuildStruct
    <3>2. ToldNodes' = ToldNodes
      BY <2>1, <2>2 DEF ToldNodes
    <3> QED BY <1>4, <2>1, <3>1, <3>2 DEF Attempting
  <2>3. CASE kernel.version # 1
    <3> DEFINE one == <<Tag("cmdline")>>
               two == <<Tag("cmdline"), Tag("framebuffer")>>
               three == <<Tag("cmdline"), Tag("framebuffer"), Tag("rsdp")>>
               first == Behind(Tag("cmdline"), Behind(tail, links, Tag("cmdline")), Tag("framebuffer"))
               rsdp == IF Rsdp = "none" THEN first ELSE Behind(Tag("framebuffer"), first, Tag("rsdp"))
               before == IF Rsdp = "none" THEN two ELSE three
    <3>1. links' = Behind(BehindRsdp, rsdp, Tag("firmware")) /\ tail' = Tag("firmware")
      BY <1>9, <2>3 DEF BuildStruct
    <3>2. ToldNodes = <<>> /\ ToldNodes' = FirstTags
      <4>1. ToldNodes' = FirstTags'
        BY <2>1, <2>3 DEF ToldNodes
      <4> QED BY <1>3, <2>1, <2>3, <4>1 DEF ToldNodes
    <3>3. Leads(links, <<>>) /\ tail = NodeAt(<<>>, Len(<<>>))
      BY <1>2, <2>1, <3>2 DEF Attempting, last
    <3>4. Leads(Behind(tail, links, Tag("cmdline")), one)
      <4>1. one = Append(<<>>, Tag("cmdline"))
        OBVIOUS
      <4>2. Without(<<>>, {"cmdline"})
        BY StructAlone DEF Without, NodeKinds
      <4> HIDE DEF one
      <4>3. Leads(Behind(tail, links, Tag("cmdline")), Append(<<>>, Tag("cmdline")))
        BY <3>3, <4>2, TagLinked DEF NodeKinds
      <4> QED BY ONLY <4>1, <4>3
    <3>5. Leads(first, two)
      <4>1. two = Append(one, Tag("framebuffer")) /\ Tag("cmdline") = NodeAt(one, Len(one))
        BY DEF NodeAt
      <4>2. Without(one, {"framebuffer", "rsdp", "firmware", "epoch", "modules", "memmap"})
        BY TagsInOrder
      <4> HIDE DEF one, two
      <4>3. Leads(first, Append(one, Tag("framebuffer")))
        BY <3>4, <4>1, <4>2, TagLinked DEF NodeKinds
      <4> HIDE DEF first
      <4> QED BY <4>1, <4>3
    <3>6. Leads(rsdp, before) /\ BehindRsdp = NodeAt(before, Len(before)) /\ FirstTags = Append(before, Tag("firmware"))
      <4>1. three = Append(two, Tag("rsdp"))
        OBVIOUS
      <4>2. /\ Tag("framebuffer") = NodeAt(two, Len(two)) /\ Tag("rsdp") = NodeAt(three, Len(three))
        BY DEF NodeAt
      <4>3. Without(two, {"rsdp", "firmware", "epoch", "modules", "memmap"})
        BY TagsInOrder
      <4>4. FirstTags = Append(before, Tag("firmware"))
        BY <4>1 DEF FirstTags, AppendIf, Rsdp
      <4> HIDE DEF two, three, first
      <4>5. Leads(Behind(Tag("framebuffer"), first, Tag("rsdp")), three)
        BY <3>5, <4>1, <4>2, <4>3, TagLinked DEF NodeKinds
      <4>6. BehindRsdp = NodeAt(before, Len(before))
        BY <4>2 DEF BehindRsdp
      <4> QED BY <3>5, <4>4, <4>5, <4>6
    <3>7. Without(before, {"firmware", "epoch", "modules", "memmap"})
      <4>1. Without(two, {"firmware", "epoch", "modules", "memmap"})
        BY TagsInOrder DEF Without
      <4> QED BY <4>1, TagsInOrder
    <3> HIDE DEF rsdp, before
    <3>8. /\ Leads(Behind(BehindRsdp, rsdp, Tag("firmware")), Append(before, Tag("firmware")))
          /\ Tag("firmware") = NodeAt(Append(before, Tag("firmware")), Len(Append(before, Tag("firmware"))))
      BY <3>6, <3>7, TagLinked DEF NodeKinds
    <3>9. Leads(links', ToldNodes') /\ tail' = NodeAt(ToldNodes', Len(ToldNodes'))
      BY ONLY <3>1, <3>2, <3>6, <3>8
    <3> QED BY ONLY <3>9 DEF ListBuilt
  <2> QED BY <2>2, <2>3
<1>10. CASE SetEpoch
  <2>1. /\ pc = "Epoch" /\ pc' = "Modules" /\ kernel' = kernel /\ machine' = machine /\ next' = next /\ next = 1
    BY <1>10 DEF SetEpoch, Counted
  <2>2. CASE kernel.version = 1
    <3>1. links' = links /\ tail' = tail
      BY <1>10, <2>2 DEF SetEpoch
    <3>2. ToldNodes' = ToldNodes
      BY <2>1, <2>2 DEF ToldNodes
    <3> QED BY <1>4, <2>1, <3>1, <3>2 DEF Attempting
  <2>3. CASE kernel.version # 1
    <3>1. links' = Behind(tail, links, Tag("epoch")) /\ tail' = Tag("epoch")
      BY <1>10, <2>3 DEF SetEpoch
    <3>2. ToldNodes = FirstTags
      BY <2>1, <2>3 DEF ToldNodes
    <3>3. ToldNodes' = Append(FirstTags, Tag("epoch"))
      <4>1. ToldNodes' = TagsWith(0)'
        BY <2>1, <2>3 DEF ToldNodes
      <4>2. TagsWith(0)' = TagsWith(0)
        BY <1>3, <2>1
      <4> QED BY <4>1, <4>2 DEF TagsWith, AppendIf
    <3> QED BY <1>5, <2>1, <3>1, <3>2, <3>3, TagsInOrder DEF NodeKinds, Attempting
  <2> QED BY <2>2, <2>3
<1>11. CASE LoadModule
  <2>1. pc = "Modules" /\ pc' = "Modules" /\ kernel' = kernel /\ machine' = machine /\ next' = next + 1
    BY <1>11 DEF LoadModule
  <2>2. CASE kernel.version = 1
    <3>1. PICK n \in Nat : next = n + 1
      BY <1>1
    <3>2. ToldNodes = ModuleNodes(n) /\ ToldNodes' = ModuleNodes(n + 1)
      BY <2>1, <2>2, <3>1 DEF ToldNodes
    <3> DEFINE new == Node("module", n + 1)
    <3>3. /\ ModuleNodes(n) \in Seq(Nodes) /\ Distinct(ModuleNodes(n)) /\ Fresh(ModuleNodes(n), new)
          /\ ModuleNodes(n + 1) = Append(ModuleNodes(n), new) /\ new \in Nodes
      <4>1. new \in Nodes
        BY TagsAreNodes
      <4> QED BY ONLY <4>1, n \in Nat, ModulesInOrder, Zenon
    <3>4. Leads(links, ModuleNodes(n)) /\ tail = NodeAt(ModuleNodes(n), Len(ModuleNodes(n)))
      BY <1>2, <2>1, <3>2 DEF Attempting, last
    <3>5. new \notin DOMAIN links
      BY ONLY <3>3, <3>4 DEF Leads, Fresh
    <3>6. links' = Behind(tail, links, new) /\ tail' = new
      BY <1>11, <2>2, <3>1, <3>5 DEF LoadModule
    <3> HIDE DEF new
    <3>7. Leads(Behind(tail, links, new), Append(ModuleNodes(n), new))
      BY ONLY <3>3, <3>4, LeadsBehind
    <3>8. new = NodeAt(Append(ModuleNodes(n), new), Len(Append(ModuleNodes(n), new)))
      BY ONLY <3>3, Appended
    <3>9. Leads(links', ToldNodes') /\ tail' = NodeAt(ToldNodes', Len(ToldNodes'))
      BY ONLY <3>2, <3>3, <3>6, <3>7, <3>8
    <3> QED BY ONLY <3>9 DEF ListBuilt
  <2>3. CASE kernel.version # 1
    <3>1. PICK n \in Nat : next = n + 1
      BY <1>1
    <3>2. ToldNodes = TagsWith(n)
      BY <2>1, <2>3, <3>1 DEF ToldNodes
    <3>3. ToldNodes' = TagsWith(n + 1)
      <4>1. ToldNodes' = TagsWith(n + 1)'
        BY <2>1, <2>3, <3>1 DEF ToldNodes
      <4> QED BY <1>3, <2>1, <4>1
    <3>4. Leads(links, TagsWith(n))
      BY <1>2, <2>1, <3>2 DEF Attempting
    <3>5. TagsWith(n + 1) = Append(TagsWith(0), Tag("modules"))
      BY TagsInOrder
    <3>6. CASE n = 0
      <4>1. Without(TagsWith(0), {"modules", "memmap"})
        BY TagsInOrder
      <4>2. Tag("modules") \notin DOMAIN links
        <5>1. {"modules", "memmap"} \in SUBSET NodeKinds
          BY DEF NodeKinds
        <5> QED BY <3>4, <3>6, <4>1, <5>1, TagLinked
      <4>3. links' = Behind(tail, links, Tag("modules")) /\ tail' = Tag("modules")
        BY <1>11, <2>3, <4>2 DEF LoadModule
      <4> QED BY <1>5, <2>1, <3>2, <3>3, <3>5, <3>6, <4>1, <4>3 DEF NodeKinds, Attempting
    <3>7. CASE n # 0
      <4>1. TagsWith(n) = Append(TagsWith(0), Tag("modules"))
        BY <3>7, TagsInOrder
      <4>2. Tag("modules") \in DOMAIN links
        <5>1. TagsWith(0) \in Seq(Nodes) /\ Tag("modules") \in Nodes
          BY TagsInOrder, TagsAreNodes DEF Without, NodeKinds
        <5>2. PICK m \in Nat : m = Len(TagsWith(0))
          BY <5>1
        <5>3. NodeAt(TagsWith(n), m + 1) = Tag("modules") /\ Len(TagsWith(n)) = m + 1
          BY <4>1, <5>1, <5>2, Appended
        <5>4. m + 1 \in 0 .. m + 1
          OBVIOUS
        <5> QED BY ONLY <3>4, <5>3, <5>4 DEF Leads
      <4>3. links' = links /\ tail' = tail
        BY <1>11, <2>3, <4>2 DEF LoadModule
      <4> QED BY <1>4, <2>1, <3>2, <3>3, <3>5, <4>1, <4>3 DEF Attempting
    <3> QED BY <3>6, <3>7
  <2> QED BY <2>2, <2>3
<1>12. CASE ModulesEnd \/ MapHigherHalf \/ Jump \/ UNCHANGED vars
  <2>1. /\ kernel' = kernel /\ machine' = machine /\ next' = next /\ links' = links /\ tail' = tail
    BY <1>12 DEF ModulesEnd, MapHigherHalf, Jump, vars
  <2>2. \/ pc' = pc
        \/ pc = "Modules" /\ pc' = "PageTables"
        \/ pc = "PageTables" /\ pc' = "HandOff"
        \/ pc = "Jump" /\ pc' = "jumped"
    BY <1>12 DEF ModulesEnd, MapHigherHalf, Jump, vars
  <2>3. FirstTags' = FirstTags /\ \A n : TagsWith(n)' = TagsWith(n)
    BY <1>3, <2>1
  <2>4. TagsWith(next - 1)' = TagsWith(next - 1)
    BY <2>1, <2>3
  <2>5. ToldNodes' = ToldNodes
    BY <2>1, <2>2, <2>3, <2>4 DEF ToldNodes
  <2>6. pc' \in Attempting => pc \in Attempting
    BY <2>2 DEF Attempting
  <2> QED BY <1>4, <2>1, <2>5, <2>6 DEF ListBuilt
<1>13. CASE HandOff
  <2>1. pc = "HandOff" /\ pc' = "Jump" /\ kernel' = kernel /\ machine' = machine /\ next' = next
    BY <1>13 DEF HandOff
  <2>2. CASE kernel.version = 1
    <3>1. links' = links /\ tail' = tail
      BY <1>13, <2>2 DEF HandOff
    <3>2. ToldNodes' = ToldNodes
      BY <2>1, <2>2 DEF ToldNodes
    <3> QED BY <1>4, <2>1, <3>1, <3>2 DEF Attempting
  <2>3. CASE kernel.version # 1
    <3>1. links' = Behind(tail, links, Tag("memmap")) /\ tail' = Tag("memmap")
      BY <1>13, <2>3 DEF HandOff
    <3>2. PICK n \in Nat : next = n + 1
      BY <1>1
    <3>3. ToldNodes = TagsWith(n)
      BY <2>1, <2>3, <3>2 DEF ToldNodes
    <3>4. ToldNodes' = Append(TagsWith(n), Tag("memmap"))
      <4>1. ToldNodes' = Append(TagsWith(n)', Tag("memmap"))
        BY <2>1, <2>3, <3>2 DEF ToldNodes
      <4> QED BY <1>3, <2>1, <4>1
    <3>5. Without(TagsWith(n), {"memmap"})
      <4>1. Without(TagsWith(0), {"memmap"})
        BY TagsInOrder DEF Without
      <4> QED BY <4>1, TagsInOrder
    <3> QED BY <1>5, <2>1, <3>1, <3>3, <3>4, <3>5 DEF NodeKinds, Attempting
  <2> QED BY <2>2, <2>3
<1>14. CASE Translate5Level
  <2>1. pc' = "shutdown"
    BY <1>14 DEF Translate5Level
  <2> QED BY ONLY <2>1 DEF ListBuilt, Attempting, Steps
<1> QED BY <1>6, <1>7, <1>8, <1>9, <1>10, <1>11, <1>12, <1>13, <1>14 DEF Next
-----------------------------------------------------------------------------
(* The invariant, and what follows from it.                                *)

\* The inductive invariant of the stivale loaders: at every step of every attempt the
\* program has read, set, mapped and linked what its steps so far are to.
THEOREM Invariance == Spec => []IInv
<1>1. Init => IInv
  <2> SUFFICES ASSUME Init PROVE IInv
    OBVIOUS
  <2>1. TypeOK
    BY TypeInit
  <2>2. ListBuilt
    BY ListBuiltInit
  <2>3. pc = "menu" /\ pml4[0] = FirmwareTable
    BY DEF Init
  <2>4. Counted /\ HeaderRead /\ SegmentLoaded /\ WishesRead /\ ModeSet /\ Mapped /\ ClockRead /\ Entered
    BY ONLY <2>3 DEF Counted, HeaderRead, SegmentLoaded, WishesRead, ModeSet, Mapped, ClockRead, Entered,
                     ModeChosen, Late, Attempting, Steps
  <2> QED BY <2>1, <2>2, <2>4 DEF IInv
<1>2. IInv /\ [Next]_vars => IInv'
  <2> SUFFICES ASSUME IInv, [Next]_vars PROVE IInv'
    OBVIOUS
  <2>1. /\ TypeOK /\ Counted /\ HeaderRead /\ SegmentLoaded
        /\ WishesRead /\ ModeSet /\ Mapped /\ ListBuilt /\ ClockRead /\ Entered
    BY DEF IInv
  <2>2. TypeOK' /\ Counted' /\ HeaderRead' /\ SegmentLoaded'
    BY <2>1, TypeStep, CountedStep, HeaderReadStep, SegmentLoadedStep
  <2>3. WishesRead' /\ ModeSet' /\ Mapped' /\ ListBuilt' /\ ClockRead' /\ Entered'
    BY <2>1, WishesReadStep, ModeSetStep, MappedStep, ListBuiltStep, ClockReadStep, EnteredStep
  <2> QED BY <2>2, <2>3 DEF IInv
<1> QED BY <1>1, <1>2, PTL DEF Spec

\* Every variable keeps its type, and the kernel is loaded where there is memory only.
THEOREM TypeCorrect == Spec => []TypeOK
<1>1. IInv => TypeOK
  BY DEF IInv
<1> QED BY <1>1, Invariance, PTL

\* Whatever the firmware has and whatever the attempts before it left, the list leads
\* the kernel through all there is to tell, once and in order.
THEOREM ListTold == Spec => []ListComplete
<1>1. IInv => ListComplete
  <2> SUFFICES ASSUME IInv, pc = "jumped" PROVE Leads(links, Tellable)
    BY DEF ListComplete
  <2>1. Leads(links, ToldNodes)
    BY DEF IInv, ListBuilt, Attempting
  <2>2. next = kernel.modules + 1 /\ kernel.modules \in Nat
    BY KernelTyped DEF IInv, Counted, TypeOK
  <2>3. next - 1 = kernel.modules
    BY ONLY <2>2
  <2>4. CASE kernel.version = 1
    <3>1. ToldNodes = ModuleNodes(kernel.modules) /\ Tellable = ModuleNodes(kernel.modules)
      BY <2>3, <2>4 DEF ToldNodes, Tellable, Late
    <3> QED BY <2>1, <3>1
  <2>5. CASE kernel.version # 1
    <3>1. ToldNodes = Tellable
      BY <2>3, <2>5 DEF ToldNodes, Tellable
    <3> QED BY <2>1, <3>1
  <2> QED BY <2>4, <2>5
<1> QED BY <1>1, Invariance, PTL

\* The kernel is entered at its own code, with a stack in the memory its address means;
\* one that gets five levels is not entered, and no other ends in a shutdown.
THEOREM EnteredRight == Spec => []EnteredAsAsked
<1>1. IInv /\ pc = "jumped" => Translate(cpu.ip) = loadedAt.slot /\ Translate(cpu.sp) = Meant(kernel.stack)
  <2> SUFFICES ASSUME IInv, pc = "jumped"
               PROVE  Translate(cpu.ip) = loadedAt.slot /\ Translate(cpu.sp) = Meant(kernel.stack)
    OBVIOUS
  <2> DEFINE e == EntryOf(kernel)
             v == kernel.vaddr
             p == kernel.paddr
             s == kernel.stack
  <2>1. e \in Address /\ v \in Address /\ p \in Address /\ s \in Address /\ Consistent(kernel)
    BY KernelTyped DEF IInv, TypeOK
  <2>2. cpu.ip = e /\ cpu.sp = s
    BY DEF IInv, Entered
  <2>3. pml4[0] = FirmwareTable /\ pml4[256] = FirmwareTable /\ pml4[511] = HigherHalf(FirmwareTable)
    BY DEF IInv, Mapped
  <2>4. DOMAIN FirmwareTable = {510, 511} \cup GBs
    BY DEF FirmwareTable
  <2>5. /\ higherHalf <=> AboveBase(e)
        /\ loadedAt = LoadBase /\ LoadBase.top = 0 /\ LoadBase.slot \in GBs
    BY DEF IInv, HeaderRead, SegmentLoaded, Late, Attempting, HasMemory
  <2>6. /\ \A gb \in GBs : FirmwareTable[gb] = gb /\ HigherHalf(FirmwareTable)[gb] = NoMapping
        /\ FirmwareTable[510] = NoMapping /\ FirmwareTable[511] = NoMapping
        /\ HigherHalf(FirmwareTable)[510] = 0 /\ HigherHalf(FirmwareTable)[511] = 1
    <3>1. DOMAIN NoTable = {510, 511} \cup GBs /\ \A gb \in GBs : NoTable[gb] = NoMapping
      BY <2>4 DEF NoTable
    <3>2. /\ \A gb \in GBs : FirmwareTable[gb] = gb
          /\ FirmwareTable[510] = NoMapping /\ FirmwareTable[511] = NoMapping
      BY DEF FirmwareTable, GBs
    <3>3. 0 \in GBs /\ 1 \in GBs /\ 510 \notin GBs /\ 511 \notin GBs
      BY DEF GBs
    <3>4. /\ HigherHalf(FirmwareTable)[510] = FirmwareTable[0]
          /\ HigherHalf(FirmwareTable)[511] = FirmwareTable[1]
      BY ONLY <3>1 DEF HigherHalf
    <3>5. \A gb \in GBs : HigherHalf(FirmwareTable)[gb] = NoTable[gb]
      BY ONLY <3>1, <3>3 DEF HigherHalf
    <3> QED BY ONLY <3>1, <3>2, <3>3, <3>4, <3>5
  <2>7. GBs = {0, 1, 2, 3}
    BY DEF GBs
  <2>8. /\ e.top \in {0, 256, 511} /\ e.slot \in 0 .. 511 /\ e.off \in {0, 1}
        /\ v.top \in {0, 256, 511} /\ v.slot \in 0 .. 511 /\ p.slot \in 0 .. 511
        /\ s.top \in {0, 256, 511} /\ s.slot \in 0 .. 511
    BY <2>1, AddressTyped
  <2>9. \/ e.top = v.top /\ e.slot = v.slot
        \/ e.top = p.top /\ e.slot = p.slot
    <3>1. [e EXCEPT !.off = 0] = v \/ [e EXCEPT !.off = 0] = p
      BY <2>1 DEF Consistent
    <3>2. [e EXCEPT !.off = 0].top = e.top /\ [e EXCEPT !.off = 0].slot = e.slot
      BY ONLY <2>1 DEF Address
    <3> HIDE DEF e, v, p
    <3> QED BY ONLY <3>1, <3>2
  <2>10. \/ p = v /\ (v.top = 0 \/ (v.top = 511 /\ v.slot >= 510))
         \/ /\ v.top = 511 /\ v.slot >= 510
            /\ p.top = 0 /\ p.slot = v.slot - 510
    <3>1. /\ v.top = 0 \/ (v.top = 511 /\ v.slot >= 510)
          /\ p = v \/ (v.top = 511 /\ p = MinusBase(v))
      BY <2>1 DEF Consistent, AtOrAboveBase
    <3>2. MinusBase(v).top = 0 /\ MinusBase(v).slot = v.slot - 510
      BY DEF MinusBase, At
    <3> HIDE DEF v, p
    <3> QED BY ONLY <3>1, <3>2, <2>8
  <2>11. \/ higherHalf /\ LoadBase.top = 0 /\ LoadBase.slot = v.slot - 510
         \/ ~higherHalf /\ LoadBase = p
    BY <2>5 DEF LoadBase, MinusBase, At, AboveBase
  <2>12. pml4[e.top][e.slot] = LoadBase.slot
    <3> HIDE DEF e, v, p, s
    <3>0. AboveBase(e) <=> e.top = 511 /\ (e.slot > 510 \/ (e.slot = 510 /\ e.off > 0))
      BY ONLY DEF AboveBase
    <3>1. CASE higherHalf
      <4>1. e.top = 511 /\ (e.slot = 510 \/ e.slot = 511)
        BY ONLY <2>5, <2>8, <3>0, <3>1
      <4>2. e.slot = v.slot
        BY ONLY <2>8, <2>9, <2>10, <4>1
      <4>3. LoadBase.slot = e.slot - 510
        BY ONLY <2>11, <3>1, <4>2
      <4> QED BY ONLY <2>3, <2>6, <4>1, <4>3
    <3>2. CASE ~higherHalf
      <4>1. LoadBase = p /\ p.top = 0 /\ p.slot \in GBs
        BY ONLY <2>5, <2>11, <3>2
      <4>2. CASE e.top = p.top /\ e.slot = p.slot
        BY ONLY <2>3, <2>6, <4>1, <4>2
      <4>3. CASE e.top = v.top /\ e.slot = v.slot /\ p # v
        <5>1. e.top = 511 /\ e.slot = 510 /\ p.slot = 0
          BY ONLY <2>5, <2>8, <2>10, <3>0, <3>2, <4>3
        <5> QED BY ONLY <2>3, <2>6, <4>1, <5>1
      <4> QED BY <2>9, <4>2, <4>3
    <3> QED BY <3>1, <3>2
  <2>13. Translate(cpu.ip) = loadedAt.slot
    <3>1. e.slot \in DOMAIN FirmwareTable
      <4> HIDE DEF e, v, p, s
      <4>1. v.slot \in {510, 511} \/ (p = v /\ v.top = 0)
        BY ONLY <2>8, <2>10
      <4>2. p.slot = v.slot \/ p.slot \in GBs
        BY ONLY <2>7, <2>8, <2>10
      <4>3. CASE v.slot \in {510, 511}
        BY ONLY <2>4, <2>9, <4>2, <4>3
      <4>4. CASE p = v /\ v.top = 0 /\ v.slot \notin {510, 511}
        <5>1. ~AboveBase(e)
          BY ONLY <2>9, <4>4 DEF AboveBase
        <5>2. v.slot \in GBs
          BY ONLY <2>5, <2>11, <4>4, <5>1
        <5> QED BY ONLY <2>4, <2>9, <4>4, <5>2
      <4> QED BY ONLY <4>1, <4>3, <4>4
    <3> QED BY <2>2, <2>5, <2>12, <3>1 DEF Translate
  <2>14. Translate(s) = Meant(s)
    <3> HIDE DEF e, v, p, s
    <3>1. CASE AtOrAboveBase(s)
      <4>1. s.top = 511 /\ (s.slot = 510 \/ s.slot = 511)
        BY <2>8, <3>1 DEF AtOrAboveBase
      <4>2. Translate(s) = s.slot - 510
        BY <2>3, <2>4, <2>6, <4>1 DEF Translate
      <4> QED BY <3>1, <4>2 DEF Meant
    <3>2. CASE ~AtOrAboveBase(s) /\ s.slot \in GBs
      BY <2>3, <2>4, <2>6, <2>8, <3>2 DEF Translate, Meant
    <3>3. CASE ~AtOrAboveBase(s) /\ s.slot \notin GBs
      <4>1. Meant(s) = NoMapping
        BY <3>3 DEF Meant
      <4>2. CASE s.slot \in {510, 511}
        <5>1. s.top = 0 \/ s.top = 256
          BY <2>8, <3>3, <4>2 DEF AtOrAboveBase
        <5> QED BY <2>3, <2>4, <2>6, <4>1, <4>2, <5>1 DEF Translate
      <4>3. CASE s.slot \notin {510, 511}
        BY <2>4, <3>3, <4>1, <4>3 DEF Translate
      <4> QED BY <4>2, <4>3
    <3> QED BY <3>1, <3>2, <3>3
  <2> QED BY <2>2, <2>13, <2>14
<1>2. IInv /\ pc \in {"jumped", "shutdown"} => (wishes.pml5 <=> AskedForPml5 /\ machine.pml5)
  BY DEF IInv, WishesRead, ModeChosen, Late, Wishes
<1>3. IInv => (pc = "jumped" => ~wishes.pml5) /\ (pc = "shutdown" => wishes.pml5)
  BY DEF IInv, Entered
<1>4. IInv => EnteredAsAsked
  BY <1>1, <1>2, <1>3 DEF EnteredAsAsked
<1> QED BY <1>4, Invariance, PTL

\* The display is in the mode that is told, the best of those that fit or the one of the
\* configuration.
THEOREM ModeBest == Spec => []BestMode
<1>1. IInv => BestMode
  <2> SUFFICES ASSUME IInv, pc = "jumped"
               PROVE  /\ told.mode = gopMode
                      /\ IF config.overrideGfx \/ Wished.width = 0 \/ Wished.height = 0 THEN gopMode = config.gfxMode
                         ELSE \/ Fitting = {}
                              \/ /\ gopMode \in (IF Exact # {} THEN Exact ELSE Fitting)
                                 /\ Chain => \A m \in Fitting :
                                        ~Larger(machine.modes[m + 1], machine.modes[gopMode + 1])
    BY DEF BestMode
  <2>1. told.mode = gopMode /\ gopMode \in ChosenModes(wishes)
    BY DEF IInv, ModeSet, ModeChosen, Late
  <2>2. wishes.width = Wished.width /\ wishes.height = Wished.height
    BY DEF IInv, WishesRead, ModeChosen, Late, Wishes
  <2>3. wishes.width \in Nat /\ wishes.height \in Nat
    BY DEF IInv, TypeOK
  <2>4. machine.modes \in SizedModeTables /\ config.overrideGfx \in BOOLEAN
    BY MachineTyped, ConfigTyped DEF IInv, TypeOK
  <2>5. CASE config.overrideGfx \/ Wished.width = 0 \/ Wished.height = 0
    <3>1. gopMode = config.gfxMode
      BY <2>1, <2>2, <2>5 DEF ChosenModes
    <3> QED BY <2>1, <2>5, <3>1
  <2>6. CASE ~config.overrideGfx /\ Wished.width # 0 /\ Wished.height # 0 /\ Fitting # {}
    <3> DEFINE modes == machine.modes
               width == wishes.width
               height == wishes.height
    <3>1. gopMode \in GetBestGfxMode(modes, width, height)
      BY <2>1, <2>2, <2>6 DEF ChosenModes
    <3>2. Fitting = FittingOf(modes, width, height)
      BY <2>2 DEF Fitting, FittingOf, Larger
    <3>3. Exact = ExactOf(modes, width, height)
      BY <2>2, <3>2 DEF Exact, ExactOf
    <3>4. Chain => ChainOf(modes)
      <4>1. \A i \in 1 .. Len(modes) : modes[i] \in Range(modes)
        BY <2>4 DEF Range, SizedModeTables
      <4> HIDE DEF modes
      <4>2. Chain => \A a, b \in Range(modes) : Larger(a, b) \/ Larger(b, a) \/ IsSize(a, b.width, b.height)
        BY DEF Chain, modes
      <4> QED BY ONLY <4>1, <4>2 DEF ChainOf
    <3>5. modes \in SizedModeTables /\ width \in Nat /\ height \in Nat
      BY <2>3, <2>4
    <3> HIDE DEF modes, width, height
    <3>6. FittingOf(modes, width, height) # {}
      BY <2>6, <3>2
    <3>7. /\ gopMode \in (IF ExactOf(modes, width, height) # {} THEN ExactOf(modes, width, height)
                         ELSE FittingOf(modes, width, height))
          /\ ChainOf(modes) => \A m \in FittingOf(modes, width, height) :
                                  ~Larger(modes[m + 1], modes[gopMode + 1])
      BY ONLY <3>1, <3>5, <3>6, GetBestGfxModeResult
    <3> QED BY <2>1, <2>6, <3>2, <3>3, <3>4, <3>7 DEF modes
  <2>7. CASE ~config.overrideGfx /\ Wished.width # 0 /\ Wished.height # 0 /\ Fitting = {}
    BY <2>1, <2>7
  <2> QED BY <2>4, <2>5, <2>6, <2>7
<1> QED BY <1>1, Invariance, PTL

\* The epoch of the date with the low byte of the year: of every date the Julian day
\* number, less that of the first of 1970, is the days between the two in the calendar.
LEMMA EpochOfLowByte ==
    ASSUME IInv, pc = "jumped" PROVE told.epoch = UnixTime([clock EXCEPT !.year = @ % 256])
<1> DEFINE date == [clock EXCEPT !.year = @ % 256]
           first == [year |-> 1970, month |-> 1, day |-> 1]
<1>1. clock \in Dates /\ told.epoch = GetUnixEpoch(clock)
  BY DEF IInv, ClockRead
<1>2. clock \in [year : Nat, month : 1 .. 12, day : 1 .. 31, second : 0 .. DaySeconds - 1]
  BY <1>1, StivaleAssumption
<1>3. /\ date.year = clock.year % 256 /\ date.month = clock.month
      /\ date.day = clock.day /\ date.second = clock.second
  BY ONLY <1>2
<1>4. date.year \in Nat /\ date.month \in 1 .. 12 /\ date.day \in Int
  <2>1. clock.year \in Nat /\ clock.month \in 1 .. 12 /\ clock.day \in Int
    BY ONLY <1>2
  <2> QED BY <1>3, <2>1
<1>5. first.year \in Nat /\ first.month \in 1 .. 12 /\ first.day \in Int
  OBVIOUS
<1>6. GetJdn(1, 1, 1970) = DaysFromYearZero(first) + 1721059
  BY JdnIsCalendar, <1>5
<1>7. told.epoch = <<GetJdn(date.day, date.month, date.year) - GetJdn(1, 1, 1970), date.second>>
  BY <1>1, <1>3 DEF GetUnixEpoch
<1> HIDE DEF date, first
<1>8. GetJdn(date.day, date.month, date.year) = DaysFromYearZero(date) + 1721059
  BY JdnIsCalendar, <1>4
<1>9. DaysFromYearZero(date) \in Int /\ DaysFromYearZero(first) \in Int
  BY DaysTyped, <1>4, <1>5
<1>10. told.epoch = <<DaysFromYearZero(date) - DaysFromYearZero(first), date.second>>
  BY ONLY <1>6, <1>7, <1>8, <1>9
<1> QED BY ONLY <1>10 DEF UnixTime, date, first

\* The epoch is that of the clock but for the year, of which it keeps the low byte.
THEOREM EpochRight == Spec => []EpochOfClock
<1>1. IInv => EpochOfClock
  <2> SUFFICES ASSUME IInv, pc = "jumped"
               PROVE  \E y \in YearsLike(clock.year) : told.epoch = UnixTime([clock EXCEPT !.year = y])
    BY DEF EpochOfClock
  <2>1. told.epoch = UnixTime([clock EXCEPT !.year = @ % 256])
    BY EpochOfLowByte
  <2>2. PICK year \in Nat : clock.year = year
    <3>1. clock \in Dates
      BY DEF IInv, ClockRead
    <3> QED BY <3>1, StivaleAssumption
  <2>3. year % 256 \in 0 .. year /\ (year - (year % 256)) % 256 = 0
    OBVIOUS
  <2>4. year % 256 \in YearsLike(clock.year)
    BY ONLY <2>2, <2>3 DEF YearsLike
  <2>5. told.epoch = UnixTime([clock EXCEPT !.year = year % 256])
    BY ONLY <2>1, <2>2
  <2> QED BY ONLY <2>4, <2>5
<1> QED BY <1>1, Invariance, PTL

\* Later years begin later, however many leap years there are between, and the days of
\* a year before a month differ by one at most.
LEMMA LaterYear ==
    ASSUME NEW date, date.year \in Nat, date.month \in 1 .. 12, date.day \in Int,
           NEW other, other.year \in Nat, other.month = date.month, other.day = date.day,
           date.year < other.year
    PROVE  DaysFromYearZero(date) < DaysFromYearZero(other)
<1> DEFINE early == {y \in 0 .. date.year - 1 : IsLeap(y)}
           late == {y \in 0 .. other.year - 1 : IsLeap(y)}
<1>1. IsFiniteSet(0 .. other.year - 1)
  BY FS_Interval
<1>2. IsFiniteSet(late)
  BY <1>1, FS_Subset
<1>3. early \in SUBSET late
  <2>1. 0 .. date.year - 1 \subseteq 0 .. other.year - 1
    OBVIOUS
  <2> QED BY ONLY <2>1
<1>4. PICK a \in Int : a = LeapYearsBefore(date.year)
  BY LeapYearsCounted, LeapsTyped
<1>5. PICK b \in Int : b = LeapYearsBefore(other.year)
  BY LeapYearsCounted, LeapsTyped
<1>6. Cardinality(early) <= Cardinality(late)
  <2> HIDE DEF early, late
  <2> QED BY <1>2, <1>3, FS_Subset
<1>7. a <= b
  BY ONLY <1>4, <1>5, <1>6 DEF LeapYearsBefore
<1>8. ASSUME NEW l \in 0 .. 1, NEW k \in 0 .. 1, NEW m \in 1 .. 12
      PROVE  MonthTable(l)[m] <= MonthTable(k)[m] + 1
  BY DEF MonthTable
<1>9. PICK c \in Nat : c = DaysBefore(date.year)[date.month]
  BY MonthsAdded, LeapsTyped, MonthTableTyped
<1>10. PICK d \in Nat : d = DaysBefore(other.year)[date.month]
  BY MonthsAdded, LeapsTyped, MonthTableTyped
<1>11. c <= d + 1
  BY <1>8, <1>9, <1>10, MonthsAdded, LeapsTyped
<1>12. /\ DaysFromYearZero(date) = 365 * date.year + a + c + date.day
       /\ DaysFromYearZero(other) = 365 * other.year + b + d + date.day
  BY <1>4, <1>5, <1>9, <1>10 DEF DaysFromYearZero
<1> QED BY ONLY <1>7, <1>11, <1>12, date.year \in Nat, other.year \in Nat, date.year < other.year,
           date.day \in Int, a \in Int, b \in Int, c \in Nat, d \in Nat

\* The year in a byte costs every later date its epoch: what the kernel is told is the
\* Unix time of the clock just if the year is below 256.
THEOREM EpochByYear == Spec => [](pc = "jumped" => (told.epoch = UnixTime(clock) <=> clock.year < 256))
<1>1. IInv => (pc = "jumped" => (told.epoch = UnixTime(clock) <=> clock.year < 256))
  <2> SUFFICES ASSUME IInv, pc = "jumped"
               PROVE  told.epoch = UnixTime(clock) <=> clock.year < 256
    OBVIOUS
  <2> DEFINE date == [clock EXCEPT !.year = @ % 256]
             first == [year |-> 1970, month |-> 1, day |-> 1]
  <2>1. clock \in [year : Nat, month : 1 .. 12, day : 1 .. 31, second : 0 .. DaySeconds - 1]
    BY StivaleAssumption DEF IInv, ClockRead
  <2>2. told.epoch = UnixTime(date)
    BY EpochOfLowByte
  <2>3. clock.year \in Nat /\ clock.month \in 1 .. 12 /\ clock.day \in Int
    BY ONLY <2>1
  <2>4. date.year = clock.year % 256 /\ date.month = clock.month /\ date.day = clock.day
    BY ONLY <2>1
  <2>5. date.year \in Nat
    BY ONLY <2>3, <2>4
  <2>6. CASE clock.year < 256
    <3>1. clock.year % 256 = clock.year
      BY ONLY <2>3, <2>6
    <3>2. date = clock
      BY ONLY <2>1, <3>1
    <3> QED BY <2>2, <2>6, <3>2
  <2>7. CASE clock.year >= 256
    <3>1. date.year < clock.year
      BY ONLY <2>3, <2>4, <2>7
    <3>2. PICK x \in Int : x = DaysFromYearZero(first)
      BY DaysTyped
    <3> HIDE DEF date, first
    <3>3. DaysFromYearZero(date) < DaysFromYearZero(clock)
      BY LaterYear, <2>3, <2>4, <2>5, <3>1
    <3>4. DaysFromYearZero(date) \in Int /\ DaysFromYearZero(clock) \in Int
      BY DaysTyped, <2>3, <2>4, <2>5
    <3>5. DaysFromYearZero(date) - x # DaysFromYearZero(clock) - x
      BY ONLY <3>3, <3>4, x \in Int
    <3>6. UnixTime(date) # UnixTime(clock)
      BY ONLY <3>2, <3>5 DEF UnixTime, first
    <3> QED BY <2>2, <2>3, <2>7, <3>6
  <2> QED BY <2>3, <2>6, <2>7
<1> QED BY <1>1, Invariance, PTL
=============================================================================
