---- MODULE MCSite ----
EXTENDS Site
Canvas(width, height, gap) == [width |-> width, height |-> height, gap |-> gap]
SampleCanvases ==
    {Canvas(1920, 1080, 4), Canvas(320, 180, 64), Canvas(720, 1280, 7),
     Canvas(1700, 720, 20), Canvas(3840, 180, 0)}
SampleStages == {Canvas(2, 2, 3), Canvas(150, 800, 5), Canvas(900, 120, 64)}
SampleLayout(kind, cols, rows) == [kind |-> kind, cols |-> cols, rows |-> rows]
SampleLayouts ==
    {SampleLayout(kind, 0, 0) : kind \in {"auto", "solo", "row", "column", "spotlight"}}
        \cup {SampleLayout("fixed", 2, 2), SampleLayout("fixed", 4, 3)}
====
