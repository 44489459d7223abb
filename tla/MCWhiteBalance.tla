--------------------------- MODULE MCWhiteBalance ---------------------------
(* Scenes with one least distance, at every tenth step of the range and its ends and with flat,
   steep, skewed and curved slopes, and scenes that have no distance in part of the range. *)
EXTENDS WhiteBalance

MCLeasts == {30, 31, 33} \cup {10 * k : k \in 4..19} \cup {198, 199, 200}
MCScene(least, shape) == [illuminant1 |-> 17, illuminant2 |-> 21, color1 |-> TRUE, color2 |-> TRUE,
                          forward |-> TRUE, least |-> least, shape |-> shape]

\* A valley at a temperature, rising by left and right for a step (by their squares, if curved).
MCValley(at, left, right, curved) == [at |-> at, left |-> left, right |-> right, curved |-> curved, bad |-> {}]
MCSlopes == {<<1, 1>>, <<1, 3>>, <<3, 1>>, <<9, 1>>}
MCValleys == {MCScene(at, MCValley(at, s[1], s[2], c)) : at \in MCLeasts, s \in MCSlopes, c \in {FALSE}}
             \cup {MCScene(at, MCValley(at, 1, 1, TRUE)) : at \in MCLeasts}

\* Without a distance below, above, around or away from a temperature.
MCBad == {30..60, 30..120, 100..130, 115..115, 130..200, 30..200, 30..70 \cup 150..200}
MCPartial == {[MCScene(0, [MCValley(at, 1, 2, FALSE) EXCEPT !.bad = b]) EXCEPT !.forward = f] :
                at \in {31, 90, 115, 160, 199}, b \in MCBad, f \in BOOLEAN}
MCIncomplete == {[MCScene(90, MCValley(90, 1, 1, FALSE)) EXCEPT ![x[1]] = x[2]] :
                   x \in {<<"color1", FALSE>>, <<"color2", FALSE>>, <<"illuminant1", 0>>, <<"illuminant2", 99>>}}
MCScenes == MCValleys \cup MCPartial \cup MCIncomplete

MCDistance(scene, cct) ==
    LET v == scene.shape
        d == IF cct < v.at THEN v.left * (v.at - cct) ELSE v.right * (cct - v.at)
    IN  IF v.curved THEN d * d ELSE d
MCSingular(scene, cct) == cct \in scene.shape.bad /\ scene.shape.at # 90
MCColourless(scene, cct) == cct \in scene.shape.bad /\ scene.shape.at = 90
=============================================================================
