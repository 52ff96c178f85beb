\* Two pages of one browser.
SPECIFICATION Spec
CONSTANTS
  Pages = {p1, p2}
  Nothing = Nothing
INVARIANT TypeOK
INVARIANT LooksRight
INVARIANT ControlsAgree
PROPERTY KeepsChoice
