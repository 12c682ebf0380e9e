SPECIFICATION TabsSpec
PROPERTIES
  StatusShown
  SettingsServe
  NoticeRight
  PageTrue
CHECK_DEADLOCK FALSE
