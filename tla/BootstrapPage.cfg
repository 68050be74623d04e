\* One behaviour follows one widget; three panels, tabs, menus and slides.
SPECIFICATION Spec
CONSTANTS
  Alerts = {a1, a2}
  AlertBound = 2
  Labels = {l1, l2, l3}
  TimerBound = 2
  Menus = {m1, m2, m3}
  Items = 3
  Tabs = {t1, t2, t3}
  SwitchBound = 2
  Slides = 3
  WaitingBound = 2
  Panels = {1, 2, 3}
  Modals = {d1, d2}
  CurtainBound = 2
  HideBound = 1
  TipBound = 3
  ViewWidth = 12
  ViewSide = 10
  ScrollTop = 3
  Padding = 1
  Spots = {0, 4, 10}
  Boxes <- MCBoxes
  Layouts <- MCLayouts
  ViewHeight = 4
  SpyOffset = 1
  PageHeights = {14, 15, 18}
  AffixHeight = 2
  OffsetTop = 2
  OffsetBottom = 3
  StaticTop = 3
  FixedTop = 1
  ScreenHeight = 4
\* An alert that is closed is not heard of again.
CHECK_DEADLOCK FALSE
INVARIANTS
  ButtonSound
  PlacementSound
  ScrollFollowed
PROPERTIES
  AlertSound
  DropdownSound
  TabSound
  CarouselSound
  CollapseSound
  ModalSound
  TooltipSound
