---------------------------- MODULE WhiteBalance ----------------------------
(***************************************************************************)
(* White balance: the colour temperature of the scene is searched for with *)
(* Brent's method between 1500 K and 10000 K, where the distance of the    *)
(* neutral from the Planckian locus is least, and the calibration matrices *)
(* are blended for it (nodes/wb/WbMetadata.hpp, and the same code in       *)
(* nodes/wb/wb_dual_illuminant.cpp).                                       *)
(*                                                                         *)
(* Temperatures are whole steps of a grid of 50 K and quotients are cut to *)
(* whole steps.  The distance is any function of the scene and the         *)
(* temperature, infinite where the blended matrix has no inverse or the    *)
(* neutral has no colour under it.                                         *)
(***************************************************************************)
EXTENDS Integers, Status

CONSTANTS
    Scenes,             \* [illuminant1, illuminant2, color1, color2, forward, least, shape]: which
                        \* matrices the calibration has, and where the distance is least (0: anywhere)
    Distance(_, _),     \* of a scene's neutral from the locus at a temperature
    Singular(_, _),     \* the blended matrix has no inverse at a temperature
    Colourless(_, _),   \* the neutral has no colour there
    Infinity,           \* greater than every distance
    MinCct, MaxCct,     \* BrentSearchState.lower and upper
    ToleranceRate,      \* kBrentTolerance, in thousandths
    MaxIterations       \* 80 in the code

ASSUME SearchRange ==
    /\ MinCct \in Nat \ {0} /\ MaxCct \in Nat /\ MinCct < MaxCct
    /\ ToleranceRate \in Nat /\ MaxIterations \in Nat

VARIABLES
    wb,                 \* [pc, scene, i, weight, matrix, status]
    state,              \* BrentSearchState
    tried               \* the temperatures whose error was computed

vars == <<wb, state, tried>>

Abs(n) == IF n < 0 THEN -n ELSE n
Sign(n) == IF n < 0 THEN -1 ELSE 1
\* Quotients towards zero, for a positive divisor.
Cut(n, d) == IF n < 0 THEN -((-n) \div d) ELSE n \div d

---------------------------------------------------------------------------
(* Before the search. *)

\* Colour temperatures of the illuminants that are known, in grid steps of 50 K; 0 for the others.
calibration_illuminant_cct(illuminant) ==
    CASE illuminant = 17 -> 57
      [] illuminant = 20 -> 110
      [] illuminant = 21 -> 130
      [] illuminant = 22 -> 150
      [] illuminant = 23 -> 100
      [] illuminant = 24 -> 64
      [] OTHER -> 0

\* In hundredths; 1 / cct is taken exactly.
reciprocal_cct_weight(cct1, cct2, cct) ==
    IF cct1 = cct2 THEN 100
    ELSE LET up == Sign(cct2 - cct1) * cct1 * (cct2 - cct)
             down == cct * Abs(cct2 - cct1)
         IN  IF up <= 0 THEN 0 ELSE IF up >= down THEN 100 ELSE (100 * up) \div down

cct_error(scene, cct) == IF Singular(scene, cct) \/ Colourless(scene, cct) THEN Infinity ELSE Distance(scene, cct)

ASSUME ErrorType ==
    Infinity \in Int /\ \A s \in Scenes : \A t \in MinCct..MaxCct : cct_error(s, t) \in Int

\* Where the distance falls to its least and rises after it, a scene says where.
ASSUME LeastIsLeast ==
    \A s \in Scenes : s.least # 0 =>
        /\ s.least \in MinCct..MaxCct
        /\ \A t \in MinCct..MaxCct : cct_error(s, t) # Infinity
        /\ \A t \in MinCct..s.least : \A u \in MinCct..s.least : t < u => cct_error(s, t) > cct_error(s, u)
        /\ \A t \in s.least..MaxCct : \A u \in s.least..MaxCct : t < u => cct_error(s, t) < cct_error(s, u)

Return(status) == wb' = [wb EXCEPT !.pc = "done", !.status = status]
Known(scene) ==
    /\ scene.color1 /\ scene.color2
    /\ calibration_illuminant_cct(scene.illuminant1) # 0
    /\ calibration_illuminant_cct(scene.illuminant2) # 0

\* interpolate_calibration up to the search, and the start of the search.
Middle == (MinCct + MaxCct) \div 2
BrentSearchState(error) ==
    [lower |-> MinCct, upper |-> MaxCct, best |-> Middle, previous |-> Middle, previous2 |-> Middle,
     best_error |-> error, previous_error |-> error, previous2_error |-> error, step |-> 0, previous_step |-> 0]
Begin ==
    /\ wb.pc = "begin"
    /\ IF ~Known(wb.scene) THEN Return(NeedMetadata) /\ UNCHANGED <<state, tried>>
       ELSE /\ wb' = [wb EXCEPT !.pc = "search"]
            /\ state' = BrentSearchState(cct_error(wb.scene, Middle))
            /\ tried' = {Middle}

---------------------------------------------------------------------------
(* The search. *)

\* Twice the middle of the bracket.
Midpoint2 == state.lower + state.upper

interval_step == IF 2 * state.best < Midpoint2 THEN state.upper - state.best ELSE state.lower - state.best

\* The code's constant term is much less than a grid step: it stands for the rounding up.
tolerance == (ToleranceRate * state.best) \div 1000 + 1

\* n / d as a step: one below the tolerance is taken as the tolerance with its sign, and 0 has
\* either sign.  (The code keeps the shorter step in state.step, where it is only ever compared
\* with the tolerance.)
Step(n, d) ==
    IF Abs(Cut(n, d)) >= tolerance THEN {Cut(n, d)}
    ELSE {t \in {tolerance, -tolerance} : n = 0 \/ Sign(t) = Sign(n)}

\* What a parabola through the last three points may give: a step, or none, before or after
\* previous_step was changed.  Where an error is infinite the code computes with infinities and
\* NaN, and a NaN step turns into the tolerance with either sign.
Steps(lengths) == {[kind |-> "step", length |-> l] : l \in lengths}
None == {[kind |-> "none", length |-> 0]}
Refused(numerator, denominator) ==
    \/ denominator <= 0
    \/ 2 * Abs(numerator) >= denominator * Abs(state.previous_step)
    \/ numerator <= denominator * (state.lower - state.best)
    \/ numerator >= denominator * (state.upper - state.best)
NearEnd(trial) == trial - state.lower < 2 * tolerance \/ state.upper - trial < 2 * tolerance
\* Mutant: the parabola is trusted near the ends of the bracket.
ParabolaUnchecked(numerator, denominator) ==
    IF denominator <= 0 THEN None ELSE Steps(Step(numerator, denominator))
Parabola(numerator, denominator) ==
    IF Refused(numerator, denominator) THEN None
    ELSE IF NearEnd(state.best + Cut(numerator, denominator))
         THEN Steps({tolerance * Sign(Midpoint2 - 2 * state.best)})
    ELSE Steps(Step(numerator, denominator))
parabolic_step ==
    LET a == (state.best - state.previous) * (state.best_error - state.previous2_error)
        b == (state.best - state.previous2) * (state.best_error - state.previous_error)
    IN  IF Infinity \in {state.best_error, state.previous_error, state.previous2_error}
        THEN None \cup Steps({tolerance, -tolerance})
        ELSE Parabola(-((state.best - state.previous2) * b - (state.best - state.previous) * a), 2 * (b - a))

\* The step, and the previous_step it leaves.  (Where the parabola gives none, what it left in
\* previous_step is replaced.)  kBrentGoldenStep is 0.382.
next_brent_step ==
    LET golden == {[step |-> s, previous_step |-> interval_step] : s \in Step(382 * interval_step, 1000)}
        parabola(given) == IF given.kind = "none" THEN golden
                           ELSE {[step |-> given.length, previous_step |-> state.step]}
    IN  IF Abs(state.previous_step) > tolerance THEN UNION {parabola(given) : given \in parabolic_step} ELSE golden

\* Mutant: the wrong end of the bracket is moved.
accept_wrong_end(s, trial, error) ==
    [s EXCEPT !.upper = IF trial < s.best THEN @ ELSE s.best, !.lower = IF trial < s.best THEN s.best ELSE @,
              !.previous2 = s.previous, !.previous2_error = s.previous_error,
              !.previous = s.best, !.previous_error = s.best_error, !.best = trial, !.best_error = error]
accept_trial(s, trial, error) ==
    [s EXCEPT !.upper = IF trial < s.best THEN s.best ELSE @, !.lower = IF trial < s.best THEN @ ELSE s.best,
              !.previous2 = s.previous, !.previous2_error = s.previous_error,
              !.previous = s.best, !.previous_error = s.best_error, !.best = trial, !.best_error = error]

reject_trial(s, trial, error) ==
    LET cut == [s EXCEPT !.lower = IF trial < s.best THEN trial ELSE @, !.upper = IF trial < s.best THEN @ ELSE trial]
    IN  IF error <= s.previous_error \/ s.previous = s.best
        THEN [cut EXCEPT !.previous2 = s.previous, !.previous2_error = s.previous_error,
                         !.previous = trial, !.previous_error = error]
        ELSE IF error <= s.previous2_error \/ s.previous2 = s.best \/ s.previous2 = s.previous
        THEN [cut EXCEPT !.previous2 = trial, !.previous2_error = error]
        ELSE cut

Converged == Abs(2 * state.best - Midpoint2) <= 4 * tolerance - (state.upper - state.lower)

\* One turn of the loop of estimate_scene_cct.
estimate_scene_cct ==
    /\ wb.pc = "search" /\ wb.i < MaxIterations /\ ~Converged
    /\ \E next \in next_brent_step :
        LET stepped == [state EXCEPT !.step = next.step, !.previous_step = next.previous_step]
            trial == state.best + next.step
            error == cct_error(wb.scene, trial)
        IN  /\ state' = IF error <= state.best_error THEN accept_trial(stepped, trial, error)
                        ELSE reject_trial(stepped, trial, error)
            /\ tried' = tried \cup {trial}
    /\ wb' = [wb EXCEPT !.i = @ + 1]

\* After the search: the forward matrices are blended if there are two, otherwise the colour
\* matrices, whose blend must have an inverse.
interpolate_calibration ==
    /\ wb.pc = "search" /\ (wb.i = MaxIterations \/ Converged)
    /\ LET scene == wb.scene
           weight == reciprocal_cct_weight(calibration_illuminant_cct(scene.illuminant1),
                                           calibration_illuminant_cct(scene.illuminant2), state.best)
       IN  IF scene.forward THEN wb' = [wb EXCEPT !.pc = "done", !.status = OK, !.weight = weight, !.matrix = "forward"]
           ELSE IF Singular(scene, state.best) THEN Return(NeedMetadata)
           ELSE wb' = [wb EXCEPT !.pc = "done", !.status = OK, !.weight = weight, !.matrix = "inverse"]
    /\ UNCHANGED <<state, tried>>

Init ==
    /\ \E scene \in Scenes : wb = [pc |-> "begin", scene |-> scene, i |-> 0, weight |-> 0, matrix |-> "", status |-> ""]
    /\ state = [lower |-> MinCct, upper |-> MaxCct, best |-> Middle, previous |-> Middle, previous2 |-> Middle,
                best_error |-> 0, previous_error |-> 0, previous2_error |-> 0, step |-> 0, previous_step |-> 0]
    /\ tried = {}
Next == Begin \/ estimate_scene_cct \/ interpolate_calibration
Spec == Init /\ [][Next]_vars

---------------------------------------------------------------------------
(* Properties. *)

\* Every error that the search has seen is a number.
OnlyFinite == \A t \in tried : cct_error(wb.scene, t) # Infinity

\* The search never leaves the range it was given: the best temperature is inside the bracket,
\* the bracket inside the range, and no error is computed at a temperature outside it.  An
\* infinite error is the exception: the NaN steps it leads to can pass the end of the bracket,
\* by as much as the tolerance differs between two temperatures.
SearchStaysInRange ==
    OnlyFinite =>
        /\ MinCct <= state.lower /\ state.lower <= state.best /\ state.best <= state.upper /\ state.upper <= MaxCct
        /\ tried \subseteq MinCct..MaxCct

\* Whatever points were thrown away, the best one has the least error of all that were tried.
BestIsLeastTried ==
    \A t \in tried : cct_error(wb.scene, state.best) <= cct_error(wb.scene, t)

\* Where the distance has one least point, that point never leaves the bracket, and a search that
\* converged returns a temperature within twice the tolerance of it.
LeastStaysInBracket ==
    wb.scene.least # 0 =>
        /\ state.lower <= wb.scene.least /\ wb.scene.least <= state.upper
        /\ Converged => Abs(state.best - wb.scene.least) <= 2 * tolerance
=============================================================================
