SPECIFICATION Spec
CONSTANTS
    Field <- SomeFields
    Page <- Pages
INVARIANTS
    LineTrue
PROPERTIES
    PollsGoOn
