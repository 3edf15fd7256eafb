SPECIFICATION Spec
CONSTANT MaxFrames = 2
INVARIANTS Acknowledged ReadyWhenTaken
PROPERTIES Served
