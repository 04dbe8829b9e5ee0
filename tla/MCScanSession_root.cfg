SPECIFICATION Spec
CONSTANTS
    Scan = {s1, s2}
    Owner = {o1}
    Defects = {"on_stage", "no_cancel"}
    None = None
PROPERTIES HandsOver
