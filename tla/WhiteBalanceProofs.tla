------------------------- MODULE WhiteBalanceProofs -------------------------
(***************************************************************************)
(* Proofs about the search for the colour temperature, for every range,    *)
(* tolerance, number of iterations and error function.                     *)
(***************************************************************************)
EXTENDS WhiteBalance, TLAPS

StateType == [lower : Int, upper : Int, best : Int, previous : Int, previous2 : Int, best_error : Int,
              previous_error : Int, previous2_error : Int, step : Int, previous_step : Int]

\* What the search keeps while every error is a number.
Bracket ==
    /\ state \in StateType
    /\ MinCct <= state.lower /\ state.lower <= state.best /\ state.best <= state.upper /\ state.upper <= MaxCct

Remembered ==
    /\ state.best \in tried /\ state.previous \in tried /\ state.previous2 \in tried
    /\ state.best_error = cct_error(wb.scene, state.best)
    /\ state.previous_error = cct_error(wb.scene, state.previous)
    /\ state.previous2_error = cct_error(wb.scene, state.previous2)

LeastInside == wb.scene.least # 0 => state.lower <= wb.scene.least /\ wb.scene.least <= state.upper

Kept ==
    /\ Bracket
    /\ tried \subseteq MinCct..MaxCct
    /\ wb.pc = "search" => Remembered
    /\ BestIsLeastTried
    /\ LeastInside

WbRecord ==
    /\ wb = [pc |-> wb.pc, scene |-> wb.scene, i |-> wb.i, weight |-> wb.weight, matrix |-> wb.matrix, status |-> wb.status]
    /\ wb.scene \in Scenes

\* Every error is a number, and stays one where the distance has one least point.
Numbers == OnlyFinite \/ wb.scene.least # 0

\* Inductive: the bracket, what is remembered of the tried points, and the place of the least one.
IInv == WbRecord /\ (wb.pc = "begin" => tried = {} /\ state.lower = MinCct /\ state.upper = MaxCct) /\ (Numbers => Kept)

\* The tolerance is a positive number of steps (estimate_scene_cct).
LEMMA TolerancePositive == ASSUME Bracket PROVE tolerance \in Int /\ tolerance > 0
<1>1. state.best \in Nat /\ ToleranceRate \in Nat
  BY SearchRange DEF Bracket, StateType
<1>2. ToleranceRate * state.best \in Nat
  BY <1>1
<1>. QED
  BY <1>2 DEF tolerance

\* Where the search goes on, the end of the bracket on the far side of the middle is more than two
\* tolerances away (the test that ends estimate_scene_cct's loop).
LEMMA RoomAhead ==
    ASSUME Bracket, ~Converged
    PROVE  /\ 2 * state.best <= Midpoint2 => state.upper - state.best > 2 * tolerance
           /\ 2 * state.best >= Midpoint2 => state.best - state.lower > 2 * tolerance
<1>1. state.lower \in Int /\ state.upper \in Int /\ state.best \in Int /\ tolerance \in Int /\ tolerance > 0
  BY TolerancePositive DEF Bracket, StateType
<1>. QED
  BY <1>1 DEF Converged, Midpoint2, Abs

\* Step gives whole steps that are not shorter than the tolerance and keep the quotient's sign.
LEMMA StepIsLong ==
    ASSUME Bracket, NEW n \in Int, NEW d \in Int, d > 0, NEW s \in Step(n, d)
    PROVE  /\ s \in Int /\ Cut(n, d) \in Int
           /\ s = Cut(n, d) \/ (s = tolerance /\ n >= 0 /\ Abs(Cut(n, d)) < tolerance)
                            \/ (s = -tolerance /\ n <= 0 /\ Abs(Cut(n, d)) < tolerance)
           /\ s # 0
<1>1. tolerance \in Int /\ tolerance > 0
  BY TolerancePositive
<1>2. Cut(n, d) \in Int
  BY DEF Cut
<1>. QED
  BY <1>1, <1>2 DEF Step, Abs, Sign

\* kBrentGoldenStep of a length is between 0 and the length.
LEMMA GoldenIsInside ==
    ASSUME NEW n \in Int
    PROVE  /\ Cut(382 * n, 1000) \in Int
           /\ n >= 0 => 0 <= Cut(382 * n, 1000) /\ Cut(382 * n, 1000) <= n
           /\ n <= 0 => n <= Cut(382 * n, 1000) /\ Cut(382 * n, 1000) <= 0
BY DEF Cut

Inside(s) == s \in Int /\ s # 0 /\ state.lower <= state.best + s /\ state.best + s <= state.upper

\* A golden step stays in the bracket (next_brent_step, interval_step).
LEMMA GoldenStays ==
    ASSUME Bracket, ~Converged, NEW s \in Step(382 * interval_step, 1000)
    PROVE  Inside(s) /\ interval_step \in Int
<1>1. state.lower \in Int /\ state.upper \in Int /\ state.best \in Int /\ tolerance \in Int /\ tolerance > 0
  BY TolerancePositive DEF Bracket, StateType
<1>2. interval_step \in Int
  BY <1>1 DEF interval_step
<1>3. /\ s \in Int /\ s # 0
      /\ s = Cut(382 * interval_step, 1000) \/ (s = tolerance /\ 382 * interval_step >= 0) \/ (s = -tolerance /\ 382 * interval_step <= 0)
  BY <1>2, StepIsLong
<1>4. CASE 2 * state.best < Midpoint2
  <2>1. interval_step = state.upper - state.best /\ interval_step > 2 * tolerance
    BY <1>1, <1>4, RoomAhead DEF interval_step, Midpoint2
  <2>. QED
    BY <1>1, <1>2, <1>3, <2>1, GoldenIsInside DEF Inside, Bracket
<1>5. CASE ~(2 * state.best < Midpoint2)
  <2>1. interval_step = state.lower - state.best /\ -interval_step > 2 * tolerance
    BY <1>1, <1>5, RoomAhead DEF interval_step, Midpoint2
  <2>. QED
    BY <1>1, <1>2, <1>3, <2>1, GoldenIsInside DEF Inside, Bracket
<1>. QED
  BY <1>4, <1>5

\* A parabolic step stays in the bracket: near an end it turns back by the tolerance, elsewhere it
\* keeps two tolerances from both ends (parabolic_step).
LEMMA ParabolaStays ==
    ASSUME Bracket, ~Converged, NEW n \in Int, NEW d \in Int, NEW given \in Parabola(n, d), given.kind # "none"
    PROVE  Inside(given.length)
<1>1. /\ state.lower \in Int /\ state.upper \in Int /\ state.best \in Int /\ tolerance \in Int /\ tolerance > 0
  BY TolerancePositive DEF Bracket, StateType
<1> DEFINE cut == Cut(n, d)
<1>2. given \notin None
  BY DEF None
<1>3. d > 0
  <2>1. ~Refused(n, d)
    BY <1>2 DEF Parabola
  <2>. QED
    BY <2>1 DEF Refused
<1>4. CASE NearEnd(state.best + cut)
  <2>0. given \in Steps({tolerance * Sign(Midpoint2 - 2 * state.best)})
    BY <1>2, <1>4 DEF Parabola
  <2>1. given.length = tolerance * Sign(Midpoint2 - 2 * state.best)
    BY <2>0 DEF Steps
  <2>2. CASE 2 * state.best <= Midpoint2
    <3>1. given.length = tolerance
      BY <1>1, <2>1, <2>2 DEF Sign, Midpoint2
    <3>. QED
      BY <1>1, <2>2, <3>1, RoomAhead DEF Inside, Bracket
  <2>3. CASE ~(2 * state.best <= Midpoint2)
    <3>1. given.length = -tolerance
      BY <1>1, <2>1, <2>3 DEF Sign, Midpoint2
    <3>2. 2 * state.best >= Midpoint2
      BY <1>1, <2>3 DEF Midpoint2
    <3>. QED
      BY <1>1, <3>2, <3>1, RoomAhead DEF Inside, Bracket
  <2>. QED
    BY <2>2, <2>3
<1>5. CASE ~NearEnd(state.best + cut)
  <2>0. given \in Steps(Step(n, d))
    BY <1>2, <1>5 DEF Parabola
  <2>1. given.length \in Step(n, d)
    BY <2>0 DEF Steps
  <2>2. /\ given.length \in Int /\ given.length # 0 /\ cut \in Int
        /\ given.length = cut \/ ((given.length = tolerance \/ given.length = -tolerance) /\ Abs(cut) < tolerance)
    BY <1>3, <2>1, StepIsLong
  <2> HIDE DEF cut
  <2>. QED
    BY <1>1, <1>5, <2>2 DEF Inside, Abs, NearEnd
<1>. QED
  BY <1>4, <1>5

\* The next trial lies in the bracket and is not the best point again (estimate_scene_cct).
LEMMA TrialStays ==
    ASSUME Bracket, ~Converged, Infinity \notin {state.best_error, state.previous_error, state.previous2_error},
           NEW next \in next_brent_step
    PROVE  Inside(next.step) /\ next.previous_step \in Int
<1> DEFINE golden == {[step |-> s, previous_step |-> interval_step] : s \in Step(382 * interval_step, 1000)}
<1>1. next \in golden \/ \E given \in parabolic_step :
                            given.kind # "none" /\ next = [step |-> given.length, previous_step |-> state.step]
  BY DEF next_brent_step
<1>2. CASE next \in golden
  BY <1>2, GoldenStays
<1>3. CASE \E given \in parabolic_step :
             given.kind # "none" /\ next = [step |-> given.length, previous_step |-> state.step]
  <2>1. PICK given \in parabolic_step : given.kind # "none" /\ next = [step |-> given.length, previous_step |-> state.step]
    BY <1>3
  <2>2. PICK n \in Int, d \in Int : given \in Parabola(n, d)
    <3> DEFINE a == (state.best - state.previous) * (state.best_error - state.previous2_error)
               b == (state.best - state.previous2) * (state.best_error - state.previous_error)
               n == -((state.best - state.previous2) * b - (state.best - state.previous) * a)
    <3>1. a \in Int /\ b \in Int
      BY DEF Bracket, StateType
    <3>2. n \in Int /\ 2 * (b - a) \in Int
      BY <3>1 DEF Bracket, StateType
    <3>3. given \in Parabola(n, 2 * (b - a))
      BY DEF parabolic_step
    <3>. QED
      BY <3>2, <3>3
  <2>3. Inside(given.length)
    BY <2>1, <2>2, ParabolaStays
  <2>. QED
    BY <2>1, <2>3 DEF Bracket, StateType
<1>. QED
  BY <1>1, <1>2, <1>3

\* The first point of the search keeps everything (BrentSearchState's initial values).
LEMMA BeginKeeps == ASSUME IInv, Begin PROVE IInv'
<1>1. CASE ~Known(wb.scene)
  <2>1. wb'.scene = wb.scene /\ wb'.pc = "done" /\ UNCHANGED <<state, tried>> /\ WbRecord'
    BY <1>1 DEF Begin, BrentSearchState, Return, IInv, WbRecord
  <2>. QED
    BY <2>1 DEF IInv, Numbers, OnlyFinite, Kept, Bracket, BestIsLeastTried, LeastInside
<1>2. CASE Known(wb.scene)
  <2>1. wb'.scene = wb.scene /\ wb'.pc = "search" /\ WbRecord' /\ wb.scene \in Scenes
    BY <1>2 DEF Begin, BrentSearchState, IInv, WbRecord
  <2>2. Middle \in Int /\ MinCct <= Middle /\ Middle <= MaxCct
    BY SearchRange DEF Middle
  <2>3. cct_error(wb.scene, Middle) \in Int
    BY <2>1, <2>2, ErrorType, SearchRange
  <2>4. /\ state' = [lower |-> MinCct, upper |-> MaxCct, best |-> Middle, previous |-> Middle, previous2 |-> Middle,
                      best_error |-> cct_error(wb.scene, Middle), previous_error |-> cct_error(wb.scene, Middle),
                      previous2_error |-> cct_error(wb.scene, Middle), step |-> 0, previous_step |-> 0]
        /\ tried' = {Middle}
    BY <1>2 DEF Begin, BrentSearchState
  <2>5. Bracket'
    BY <2>2, <2>3, <2>4, SearchRange DEF Bracket, StateType
  <2>6. Remembered' /\ BestIsLeastTried' /\ tried' \subseteq MinCct..MaxCct
    <3> HIDE DEF cct_error
    <3>1. \A t : cct_error(wb'.scene, t)  = cct_error(wb.scene, t)
      BY <2>1
    <3>. QED
      BY <2>1, <2>2, <2>3, <2>4, SearchRange DEF Remembered, BestIsLeastTried
  <2>7. LeastInside'
    BY <2>1, <2>4, LeastIsLeast, SearchRange DEF LeastInside
  <2>. QED
    BY <2>1, <2>5, <2>6, <2>7 DEF IInv, Kept
<1>. QED
  BY <1>1, <1>2

\* The least point is not beyond the better of two points, seen from the worse one.
LEMMA LeastIsOnThisSide ==
    ASSUME NEW s \in Scenes, s.least # 0, NEW t \in MinCct..MaxCct, NEW u \in MinCct..MaxCct, t < u
    PROVE  /\ s.least \in Int
           /\ cct_error(s, t) <= cct_error(s, u) => s.least <= u
           /\ cct_error(s, u) <= cct_error(s, t) => t <= s.least
<1>1. s.least \in MinCct..MaxCct /\ s.least \in Int /\ cct_error(s, t) \in Int /\ cct_error(s, u) \in Int
  BY LeastIsLeast, ErrorType, SearchRange
<1>2. ASSUME u < s.least PROVE cct_error(s, t) > cct_error(s, u)
  <2>1. t \in MinCct..s.least /\ u \in MinCct..s.least
    BY <1>1, <1>2, SearchRange
  <2>. QED
    BY <2>1, LeastIsLeast
<1>3. ASSUME s.least < t PROVE cct_error(s, t) < cct_error(s, u)
  <2>1. t \in s.least..MaxCct /\ u \in s.least..MaxCct
    BY <1>1, <1>3, SearchRange
  <2>. QED
    BY <2>1, LeastIsLeast
<1>4. t \in Int /\ u \in Int
  BY SearchRange
<1>. QED
  BY <1>1, <1>2, <1>3, <1>4

\* One turn of the loop keeps everything (accept_trial, reject_trial).
LEMMA SearchKeeps == ASSUME IInv, estimate_scene_cct PROVE IInv'
<1>1. /\ wb'.scene = wb.scene /\ wb'.pc = "search" /\ wb.pc = "search" /\ WbRecord' /\ wb.scene \in Scenes
      /\ ~Converged
  BY DEF estimate_scene_cct, IInv, WbRecord
<1>2. PICK next \in next_brent_step :
        LET stepped == [state EXCEPT !.step = next.step, !.previous_step = next.previous_step]
            trial == state.best + next.step
            error == cct_error(wb.scene, trial)
        IN  /\ state' = IF error <= state.best_error THEN accept_trial(stepped, trial, error)
                        ELSE reject_trial(stepped, trial, error)
            /\ tried' = tried \cup {trial}
  BY DEF estimate_scene_cct
<1>3. PICK trial : trial = state.best + next.step
  OBVIOUS
<1>4. PICK error : error = cct_error(wb.scene, trial)
  OBVIOUS
<1>5. PICK stepped : stepped = [state EXCEPT !.step = next.step, !.previous_step = next.previous_step]
  OBVIOUS
<1>6. /\ state' = IF error <= state.best_error THEN accept_trial(stepped, trial, error)
                  ELSE reject_trial(stepped, trial, error)
      /\ tried' = tried \cup {trial}
  BY <1>2, <1>3, <1>4, <1>5
<1>7. SUFFICES ASSUME Numbers' PROVE Kept'
  BY <1>1 DEF IInv
<1>9. Kept /\ Numbers
  BY <1>1, <1>6, <1>7 DEF IInv, Numbers, OnlyFinite
<1>10. Infinity \notin {state.best_error, state.previous_error, state.previous2_error}
  <2>1. \A t \in tried : cct_error(wb.scene, t) # Infinity
    BY <1>1, <1>9, LeastIsLeast DEF Kept, Numbers, OnlyFinite
  <2>. QED
    BY <1>1, <1>9, <2>1 DEF Kept, Remembered
<1>11. Bracket /\ Remembered /\ BestIsLeastTried /\ LeastInside /\ tried \subseteq MinCct..MaxCct
  BY <1>1, <1>9 DEF Kept
<1>12. Inside(next.step) /\ next.previous_step \in Int
  BY <1>1, <1>10, <1>11, TrialStays
<1>13. /\ trial \in Int /\ trial # state.best /\ state.lower <= trial /\ trial <= state.upper
       /\ trial \in MinCct..MaxCct /\ state.best \in MinCct..MaxCct
  BY <1>3, <1>11, <1>12, SearchRange DEF Inside, Bracket, StateType
<1>14. error \in Int
  BY <1>1, <1>4, <1>13, ErrorType
<1>15. /\ stepped \in StateType
       /\ stepped.lower = state.lower /\ stepped.upper = state.upper /\ stepped.best = state.best
       /\ stepped.previous = state.previous /\ stepped.previous2 = state.previous2
       /\ stepped.best_error = state.best_error /\ stepped.previous_error = state.previous_error
       /\ stepped.previous2_error = state.previous2_error
  BY <1>5, <1>11, <1>12 DEF Bracket, StateType, Inside
<1>16. tried' \subseteq MinCct..MaxCct
  BY <1>6, <1>11, <1>13
<1>17. state.best_error = cct_error(wb.scene, state.best) /\ state.best_error \in Int
  BY <1>11 DEF Remembered, Bracket, StateType
<1>18. CASE error <= state.best_error
  <2>1. state' = accept_trial(stepped, trial, error)
    BY <1>6, <1>18
  <2>2. /\ state'.best = trial /\ state'.best_error = error
        /\ state'.previous = state.best /\ state'.previous_error = state.best_error
        /\ state'.previous2 = state.previous /\ state'.previous2_error = state.previous_error
        /\ state'.upper = IF trial < state.best THEN state.best ELSE state.upper
        /\ state'.lower = IF trial < state.best THEN state.lower ELSE state.best
        /\ state' \in StateType
    BY <1>13, <1>14, <1>15, <2>1 DEF accept_trial, StateType
  <2>3. Bracket'
    BY <1>11, <1>13, <2>2 DEF Bracket, StateType
  <2>4. Remembered'
    BY <1>1, <1>4, <1>6, <1>11, <2>2 DEF Remembered
  <2>5. BestIsLeastTried'
    <3>1. \A t \in tried : cct_error(wb.scene, t) \in Int /\ state.best_error <= cct_error(wb.scene, t)
      BY <1>1, <1>11, <1>17, ErrorType DEF BestIsLeastTried
    <3>2. \A t \in tried : error <= cct_error(wb.scene, t)
      BY <1>14, <1>17, <1>18, <3>1
    <3>. QED
      BY <1>1, <1>4, <1>6, <1>14, <2>2, <3>2 DEF BestIsLeastTried
  <2>6. LeastInside'
    <3>1. SUFFICES ASSUME wb.scene.least # 0
                   PROVE  state'.lower <= wb.scene.least /\ wb.scene.least <= state'.upper
      BY <1>1 DEF LeastInside
    <3>2. state.lower <= wb.scene.least /\ wb.scene.least <= state.upper
      BY <1>11, <3>1 DEF LeastInside
    <3>3. CASE trial < state.best
      BY <1>1, <1>4, <1>13, <1>14, <1>17, <1>18, <2>2, <3>1, <3>2, <3>3, LeastIsOnThisSide
    <3>4. CASE state.best < trial
      BY <1>1, <1>4, <1>13, <1>14, <1>17, <1>18, <2>2, <3>1, <3>2, <3>4, LeastIsOnThisSide
    <3>. QED
      BY <1>11, <1>13, <3>3, <3>4 DEF Bracket, StateType
  <2>. QED
    BY <1>16, <2>3, <2>4, <2>5, <2>6 DEF Kept
<1>19. CASE ~(error <= state.best_error)
  <2>1. state' = reject_trial(stepped, trial, error)
    BY <1>6, <1>19
  <2> DEFINE cut == [stepped EXCEPT !.lower = IF trial < stepped.best THEN trial ELSE @,
                                   !.upper = IF trial < stepped.best THEN @ ELSE trial]
  <2>a. /\ cut \in StateType /\ cut.best = state.best /\ cut.best_error = state.best_error
        /\ cut.upper = IF trial < state.best THEN state.upper ELSE trial
        /\ cut.lower = IF trial < state.best THEN trial ELSE state.lower
        /\ cut.previous = state.previous /\ cut.previous_error = state.previous_error
        /\ cut.previous2 = state.previous2 /\ cut.previous2_error = state.previous2_error
    BY <1>13, <1>15 DEF StateType
  <2>b. \/ state' = [cut EXCEPT !.previous2 = stepped.previous, !.previous2_error = stepped.previous_error,
                                !.previous = trial, !.previous_error = error]
        \/ state' = [cut EXCEPT !.previous2 = trial, !.previous2_error = error]
        \/ state' = cut
    BY <2>1 DEF reject_trial
  <2> HIDE DEF cut
  <2>2. /\ state'.best = state.best /\ state'.best_error = state.best_error
        /\ state'.upper = IF trial < state.best THEN state.upper ELSE trial
        /\ state'.lower = IF trial < state.best THEN trial ELSE state.lower
        /\ state' \in StateType
    <3>1. CASE state' = [cut EXCEPT !.previous2 = stepped.previous, !.previous2_error = stepped.previous_error,
                                    !.previous = trial, !.previous_error = error]
      BY <1>13, <1>14, <1>15, <2>a, <3>1 DEF StateType
    <3>2. CASE state' = [cut EXCEPT !.previous2 = trial, !.previous2_error = error]
      BY <1>13, <1>14, <2>a, <3>2 DEF StateType
    <3>. QED
      BY <2>a, <2>b, <3>1, <3>2
  <2>3. Bracket'
    BY <1>11, <1>13, <2>2 DEF Bracket, StateType
  <2>4. Remembered'
    <3>1. \/ state'.previous = trial /\ state'.previous_error = error
          \/ state'.previous = state.previous /\ state'.previous_error = state.previous_error
      BY <1>15, <2>a, <2>b DEF StateType
    <3>2. \/ state'.previous2 = trial /\ state'.previous2_error = error
          \/ state'.previous2 = state.previous /\ state'.previous2_error = state.previous_error
          \/ state'.previous2 = state.previous2 /\ state'.previous2_error = state.previous2_error
      BY <1>15, <2>a, <2>b DEF StateType
    <3>. QED
      BY <1>1, <1>4, <1>6, <1>11, <2>2, <3>1, <3>2 DEF Remembered
  <2>5. BestIsLeastTried'
    BY <1>1, <1>4, <1>6, <1>11, <1>14, <1>17, <1>19, <2>2 DEF BestIsLeastTried
  <2>6. LeastInside'
    <3>1. SUFFICES ASSUME wb.scene.least # 0
                   PROVE  state'.lower <= wb.scene.least /\ wb.scene.least <= state'.upper
      BY <1>1 DEF LeastInside
    <3>2. state.lower <= wb.scene.least /\ wb.scene.least <= state.upper
      BY <1>11, <3>1 DEF LeastInside
    <3>3. CASE trial < state.best
      BY <1>1, <1>4, <1>13, <1>14, <1>17, <1>19, <2>2, <3>1, <3>2, <3>3, LeastIsOnThisSide
    <3>4. CASE state.best < trial
      BY <1>1, <1>4, <1>13, <1>14, <1>17, <1>19, <2>2, <3>1, <3>2, <3>4, LeastIsOnThisSide
    <3>. QED
      BY <1>11, <1>13, <3>3, <3>4 DEF Bracket, StateType
  <2>. QED
    BY <1>16, <2>3, <2>4, <2>5, <2>6 DEF Kept
<1>. QED
  BY <1>18, <1>19

\* The invariant holds throughout.
LEMMA SearchInvariant == Spec => []IInv
<1>1. Init => IInv
  <2> SUFFICES ASSUME Init PROVE IInv
    OBVIOUS
  <2>1. PICK scene \in Scenes : wb = [pc |-> "begin", scene |-> scene, i |-> 0, weight |-> 0, matrix |-> "", status |-> ""]
    BY DEF Init
  <2>2. WbRecord /\ wb.pc = "begin"
    BY <2>1 DEF WbRecord
  <2>3. Middle \in Int /\ MinCct <= Middle /\ Middle <= MaxCct /\ MinCct \in Int /\ MaxCct \in Int
    BY SearchRange DEF Middle
  <2>4. Bracket /\ state.lower = MinCct /\ state.upper = MaxCct /\ tried = {}
    <3>0. /\ state = [lower |-> MinCct, upper |-> MaxCct, best |-> Middle, previous |-> Middle, previous2 |-> Middle,
                      best_error |-> 0, previous_error |-> 0, previous2_error |-> 0, step |-> 0, previous_step |-> 0]
          /\ tried = {}
      BY DEF Init
    <3>1. /\ state.lower = MinCct /\ state.upper = MaxCct /\ state.best = Middle /\ tried = {}
          /\ state \in StateType
      BY <2>3, <3>0 DEF StateType
    <3>. QED
      BY <2>3, <3>1 DEF Bracket
  <2>5. LeastInside
    BY <2>2, <2>3, <2>4, LeastIsLeast DEF LeastInside, WbRecord
  <2>. QED
    BY <2>2, <2>4, <2>5 DEF IInv, Kept, BestIsLeastTried
<1>2. IInv /\ [Next]_vars => IInv'
  <2> SUFFICES ASSUME IInv, [Next]_vars PROVE IInv'
    OBVIOUS
  <2>1. CASE Begin
    BY <2>1, BeginKeeps
  <2>2. CASE estimate_scene_cct
    BY <2>2, SearchKeeps
  <2>3. CASE interpolate_calibration
    <3>1. wb'.scene = wb.scene /\ wb'.pc = "done" /\ WbRecord' /\ UNCHANGED <<state, tried>>
      BY <2>3 DEF interpolate_calibration, Return, IInv, WbRecord
    <3>. QED
      BY <3>1 DEF IInv, Numbers, OnlyFinite, Kept, Bracket, BestIsLeastTried, LeastInside
  <2>4. CASE UNCHANGED vars
    BY <2>4 DEF vars, IInv, WbRecord, Numbers, OnlyFinite, Kept, Bracket, Remembered, BestIsLeastTried, LeastInside
  <2>. QED
    BY <2>1, <2>2, <2>3, <2>4 DEF Next
<1>. QED
  BY <1>1, <1>2, PTL DEF Spec

\* The search stays in its range and its bracket while every error it sees is a number
\* (next_brent_step, parabolic_step and the loop of estimate_scene_cct).
THEOREM StaysInRange == Spec => []SearchStaysInRange
<1>1. IInv => SearchStaysInRange
  BY DEF IInv, Numbers, Kept, Bracket, SearchStaysInRange
<1>. QED
  BY <1>1, SearchInvariant, PTL

\* While every error is a number, the best point is the best of all that were tried (accept_trial
\* and reject_trial).
THEOREM BestOfAll == Spec => [](OnlyFinite => BestIsLeastTried)
<1>1. IInv => (OnlyFinite => BestIsLeastTried)
  BY DEF IInv, Numbers, Kept
<1>. QED
  BY <1>1, SearchInvariant, PTL

\* A single least point never leaves the bracket, and a search that converged is within twice the
\* tolerance of it, whatever the shape of the valley (estimate_scene_cct).
THEOREM ConvergesToLeast == Spec => []LeastStaysInBracket
<1>1. IInv => LeastStaysInBracket
  <2> SUFFICES ASSUME IInv, wb.scene.least # 0
               PROVE  /\ state.lower <= wb.scene.least /\ wb.scene.least <= state.upper
                      /\ Converged => Abs(state.best - wb.scene.least) <= 2 * tolerance
    BY DEF LeastStaysInBracket
  <2>1. Bracket /\ LeastInside /\ wb.scene.least \in Int
    BY LeastIsLeast, SearchRange DEF IInv, WbRecord, Numbers, Kept
  <2>2. /\ state.lower \in Int /\ state.upper \in Int /\ state.best \in Int /\ tolerance \in Int
    BY <2>1, TolerancePositive DEF Bracket, StateType
  <2>. QED
    BY <2>1, <2>2 DEF LeastInside, Converged, Midpoint2, Abs
<1>. QED
  BY <1>1, SearchInvariant, PTL
=============================================================================
