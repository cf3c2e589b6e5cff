-------------------------------- MODULE MCAudio --------------------------------
EXTENDS Audio
Tone(dur, gap) == [dur |-> dur, gap |-> gap]
Bells == <<Tone(2, 1), Tone(2, 1), Tone(2, 1), Tone(3, 0)>>
Faces == {<<>>,
          <<Tone(1, 1), Tone(2, 0)>>,
          <<Tone(1, 1), Tone(1, 1), Tone(1, 0)>>,
          <<Tone(1, 1), Tone(1, 1), Tone(1, 1), Tone(2, 0)>>}
=============================================================================
