\* Two tabs with the settings form.
SPECIFICATION Spec
CONSTANTS
  Tabs = {t1, t2}
  Kind = "settings"
  MaxVersion = 3
PROPERTIES
  NoSilentOverwrite
CHECK_DEADLOCK FALSE
