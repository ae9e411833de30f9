SPECIFICATION Spec
CONSTANTS
    Admins = {a1, a2}
    Channels = {"draft", "approved", "exported", "deprecated"}
    NoRow = NoRow
    Outcomes = {TRUE}
PROPERTIES TransitionsValid
