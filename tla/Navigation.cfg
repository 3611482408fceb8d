SPECIFICATION Spec
CONSTANT MaxDepth = 10
INVARIANTS TypeOK FormsInOrder AreasApart
PROPERTIES TopDecides
